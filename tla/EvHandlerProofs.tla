-------------------------- MODULE EvHandlerProofs --------------------------
(***************************************************************************)
(* Type correctness, conservation of wei, nonces, storage effects and      *)
(* deployments of EvHandler, for every set of accounts, every word size    *)
(* and every set of transactions, block environments and frame outcomes    *)
(* that satisfy the module's assumptions.                                  *)
(***************************************************************************)
EXTENDS EvHandler, IteratorsProofs, FiniteSetTheorems

(* Most steps are first-order reasoning, which Zenon does; those with      *)
(* arithmetic, records or sequences name SMT.                              *)
USE Zenon

-----------------------------------------------------------------------------
(* The supply as a function of the balances.                               *)

Balances == [Address -> Word]

(* The wei of account a alone. *)
Purse(a, b) == {a} \X (1 .. b)

(* A purse of b wei has b elements. *)
LEMMA PurseCardinality ==
  ASSUME NEW a, NEW b \in Nat
  PROVE  IsFiniteSet(Purse(a, b)) /\ Cardinality(Purse(a, b)) = b
<1> DEFINE g == [i \in 1 .. b |-> <<a, i>>]
<1>1. g \in Bijection(1 .. b, Purse(a, b))
  <2>1. g \in Injection(1 .. b, Purse(a, b))
    BY DEF Injection, IsInjective, Purse
  <2>2. \A p \in Purse(a, b) : \E i \in 1 .. b : g[i] = p
    BY SMT DEF Purse
  <2> QED BY <2>1, <2>2 DEF Bijection, Surjection, Injection
<1>2. IsFiniteSet(1 .. b) /\ Cardinality(1 .. b) = b
  BY FS_Interval, SMT
<1> QED BY <1>1, <1>2, FS_Bijection, SMT DEF ExistsBijection

(* The wei of all the other accounts. *)
Others(f, a) == {w \in Wei(f) : w[1] # a}

(* Wei of a balance function are finitely many. *)
LEMMA WeiFinite ==
  ASSUME NEW f \in Balances
  PROVE  IsFiniteSet(Wei(f)) /\ Supply(f) \in Nat
<1>1. IsFiniteSet(Address) /\ IsFiniteSet(1 .. MaxU256)
  BY AddressAssumption, NumberAssumption, FS_Interval, SMT
<1>2. IsFiniteSet(Address \X (1 .. MaxU256))
  BY <1>1, FS_Product
<1>3. Wei(f) \subseteq Address \X (1 .. MaxU256)
  BY DEF Wei
<1>4. IsFiniteSet(Wei(f))
  BY <1>2, <1>3, FS_Subset
<1> QED BY <1>4, FS_CardinalityType DEF Supply

(* The supply is one purse and the wei of the others. *)
LEMMA SupplySplit ==
  ASSUME NEW f \in Balances, NEW a \in Address
  PROVE  /\ IsFiniteSet(Others(f, a))
         /\ Cardinality(Others(f, a)) \in Nat
         /\ Supply(f) = Cardinality(Others(f, a)) + f[a]
<1>1. Wei(f) = Others(f, a) \cup Purse(a, f[a])
  BY NumberAssumption, SMT DEF Wei, Others, Purse, Balances, Word
<1>2. Others(f, a) \cap Purse(a, f[a]) = {}
  BY DEF Others, Purse
<1>3. IsFiniteSet(Others(f, a)) /\ Cardinality(Others(f, a)) \in Nat
  BY WeiFinite, FS_Subset, FS_CardinalityType DEF Others
<1>4. f[a] \in Nat
  BY NumberAssumption, SMT DEF Balances, Word
<1>5. IsFiniteSet(Purse(a, f[a])) /\ Cardinality(Purse(a, f[a])) = f[a]
  BY <1>4, PurseCardinality
<1>6. Cardinality(Others(f, a) \cup Purse(a, f[a])) =
        Cardinality(Others(f, a)) + Cardinality(Purse(a, f[a]))
          - Cardinality({})
  BY <1>2, <1>3, <1>5, FS_Union, SMT
<1> QED BY <1>1, <1>3, <1>4, <1>5, <1>6, FS_EmptySet, SMT DEF Supply

(* Changing one balance changes the supply by the difference. *)
LEMMA SupplyUpdate ==
  ASSUME NEW f \in Balances, NEW a \in Address, NEW b \in Word
  PROVE  /\ [f EXCEPT ![a] = b] \in Balances
         /\ Supply([f EXCEPT ![a] = b]) = Supply(f) - f[a] + b
<1> DEFINE h == [f EXCEPT ![a] = b]
<1>1. h \in Balances /\ h[a] = b
  BY DEF Balances
<1>2. Others(h, a) = Others(f, a)
  BY DEF Others, Wei, Balances
<1>3. Supply(h) = Cardinality(Others(h, a)) + h[a]
  BY <1>1, SupplySplit
<1>4. Supply(f) = Cardinality(Others(f, a)) + f[a]
  BY SupplySplit
<1>5. Cardinality(Others(f, a)) \in Nat /\ f[a] \in Nat /\ b \in Nat
  BY SupplySplit, NumberAssumption, SMT DEF Balances, Word
<1> HIDE DEF h
<1> QED BY <1>1, <1>2, <1>3, <1>4, <1>5, SMT DEF h

(* No account holds more than the supply. *)
LEMMA BalanceBound ==
  ASSUME NEW f \in Balances, NEW a \in Address
  PROVE  f[a] \in Nat /\ f[a] <= Supply(f)
BY SupplySplit, NumberAssumption, SMT DEF Balances, Word

-----------------------------------------------------------------------------
(* Arithmetic of fees.                                                     *)

(* A product grows with its factor. *)
LEMMA ProductMonotone ==
  ASSUME NEW k \in Nat, NEW x \in Nat, NEW y \in Nat, x <= y
  PROVE  k * x \in Nat /\ k * y \in Nat /\ k * x <= k * y
<1>1. k * y = k * x + k * (y - x)
  BY SMT
<1>2. k * (y - x) \in Nat /\ k * x \in Nat
  BY SMT
<1> QED BY <1>1, <1>2, SMT

(* The fee of the gas limit is the fee of the gas spent and of the rest. *)
LEMMA ProductSplit ==
  ASSUME NEW k \in Nat, NEW x \in Nat, NEW y \in Nat
  PROVE  k * (x + y) = k * x + k * y
BY SMT

(* What the world updates do to balances and types. *)
LEMMA BumpNonceWorld ==
  ASSUME NEW w \in World, NEW a \in Address
  PROVE  BumpNonce(w, a) \in World /\ BumpNonce(w, a).bal = w.bal
BY SMT DEF World, BumpNonce

(* A balance set to a word leaves a world.                                 *)
LEMMA SetBalanceWorld ==
  ASSUME NEW w \in World, NEW a \in Address, NEW b \in Word
  PROVE  /\ SetBalance(w, a, b) \in World
         /\ SetBalance(w, a, b).bal = [w.bal EXCEPT ![a] = b]
BY DEF World, SetBalance

(* Setting one balance moves the supply by the difference.                 *)
LEMMA SetBalanceSupply ==
  ASSUME NEW w \in World, NEW a \in Address, NEW b \in Word
  PROVE  Supply(SetBalance(w, a, b).bal) = Supply(w.bal) - w.bal[a] + b
<1>1. w.bal \in Balances
  BY DEF World, Balances
<1>2. SetBalance(w, a, b).bal = [w.bal EXCEPT ![a] = b]
  BY SetBalanceWorld
<1>3. Supply([w.bal EXCEPT ![a] = b]) = Supply(w.bal) - w.bal[a] + b
  BY <1>1, SupplyUpdate
<1> QED BY <1>2, <1>3

(* The balances and counters of a world are numbers.                       *)
LEMMA WorldNumbers ==
  ASSUME NEW w \in World, NEW a \in Address
  PROVE  /\ w.bal[a] \in Nat /\ Supply(w.bal) \in Nat
         /\ w.bal[a] <= Supply(w.bal) /\ w.bal[a] <= MaxU256
<1>1. w.bal \in Balances /\ w.bal[a] \in Word
  BY DEF World, Balances
<1> QED BY <1>1, BalanceBound, WeiFinite, SMT DEF Word

(* A credit that fits the supply of a word does not saturate. *)
LEMMA CreditWorld ==
  ASSUME NEW w \in World, NEW a \in Address, NEW amount \in Nat
  PROVE  /\ Credit(w, a, amount) \in World
         /\ Supply(w.bal) + amount <= MaxU256 =>
              Supply(Credit(w, a, amount).bal) = Supply(w.bal) + amount
<1>1. w.bal[a] \in Nat
  BY NumberAssumption, SMT DEF World, Word
<1>2. SatAdd(w.bal[a], amount) \in Word
  BY <1>1, NumberAssumption, SMT DEF SatAdd, Word
<1>3. /\ Credit(w, a, amount) \in World
      /\ Supply(Credit(w, a, amount).bal) =
           Supply(w.bal) - w.bal[a] + SatAdd(w.bal[a], amount)
  <2> DEFINE b == SatAdd(w.bal[a], amount)
  <2>1. Credit(w, a, amount) = SetBalance(w, a, b) /\ b \in Word
    BY <1>2 DEF Credit
  <2> HIDE DEF b
  <2>2. SetBalance(w, a, b) \in World
    BY <2>1, SetBalanceWorld
  <2>3. Supply(SetBalance(w, a, b).bal) = Supply(w.bal) - w.bal[a] + b
    BY <2>1, SetBalanceSupply
  <2> QED BY <2>1, <2>2, <2>3 DEF b
<1>4. ASSUME Supply(w.bal) + amount <= MaxU256
      PROVE  SatAdd(w.bal[a], amount) = w.bal[a] + amount
  BY <1>1, <1>4, WorldNumbers, NumberAssumption, SMT DEF SatAdd
<1>5. Supply(w.bal) \in Nat
  BY WorldNumbers
<1> QED BY <1>1, <1>3, <1>4, <1>5, SMT

(* A number for every call is a sequence of numbers.                       *)
LEMMA PerCall ==
  ASSUME NEW s \in Seq(Call), NEW f \in [DOMAIN s -> Nat]
  PROVE  f \in Seq(Nat) /\ Len(f) = Len(s)
<1>1. DOMAIN s = 1 .. Len(s) /\ Len(s) \in Nat
  BY SMT
<1>2. f \in [1 .. Len(s) -> Nat]
  BY <1>1
<1>3. QED
  BY <1>1, <1>2, SMT

(* The values of the calls, and the total that validation compares: their  *)
(* sum, or the largest word if they add up to more.                        *)
LEMMA ValuesOfCalls ==
  ASSUME NEW t \in Txs
  PROVE  /\ Values(t) \in Seq(Nat) /\ Len(Values(t)) = Len(t.calls)
         /\ TotalValue(t) \in Word /\ SumOf(Values(t)) \in Nat
         /\ SumOf(Values(t)) <= MaxU256 => TotalValue(t) = SumOf(Values(t))
         /\ \A i \in DOMAIN t.calls : t.calls[i].value <= TotalValue(t)
<1>1. t.calls \in Seq(Call) /\ MaxU256 \in Nat
  BY InputAssumption, NumberAssumption DEF Transaction
<1>2. \A i \in DOMAIN t.calls : t.calls[i].value \in Word /\ t.calls[i].value \in Nat
  <2> TAKE i \in DOMAIN t.calls
  <2>1. t.calls[i] \in Call
    BY <1>1, SMT
  <2>2. QED
    BY <1>1, <2>1, SMT DEF Call, Word
<1>3. Values(t) \in [DOMAIN t.calls -> Nat]
  BY <1>2 DEF Values
<1>4. Values(t) \in Seq(Nat) /\ Len(Values(t)) = Len(t.calls)
  BY <1>1, <1>3, PerCall
<1> DEFINE v == Values(t)
<1>5. /\ SumOf(v) \in Nat
      /\ \A i \in 1 .. Len(v) : v[i] <= SumOf(v)
  BY <1>4, PrefixSumsGrow
<1>6. /\ TotalValue(t) \in 0 .. MaxU256
      /\ SumOf(v) <= MaxU256 => TotalValue(t) = SumOf(v)
      /\ SumOf(v) > MaxU256 => TotalValue(t) = MaxU256
  BY <1>1, <1>4, CappedSumIsMin DEF TotalValue
<1>7. ASSUME NEW i \in DOMAIN t.calls PROVE t.calls[i].value <= TotalValue(t)
  <2>1. v[i] = t.calls[i].value /\ i \in 1 .. Len(v)
    BY <1>1, <1>4, SMT DEF Values
  <2>2. v[i] <= SumOf(v) /\ v[i] \in Nat /\ v[i] <= MaxU256
    BY <1>1, <1>2, <1>5, <2>1, SMT DEF Word
  <2> HIDE DEF v
  <2>3. QED
    BY <1>1, <1>5, <1>6, <2>1, <2>2, SMT
<1>8. QED
  BY <1>4, <1>5, <1>6, <1>7 DEF Word

(* The gas a transaction is charged up front, and its floor.               *)
LEMMA GasOfCalls ==
  ASSUME NEW t \in Txs, NEW e
  PROVE  InitialGas(t) \in Nat /\ FloorGas(t, e) \in Nat
<1> DEFINE x == [i \in DOMAIN t.calls |-> t.calls[i].intrinsic]
           y == [i \in DOMAIN t.calls |-> t.calls[i].floor]
<1>1. t.calls \in Seq(Call) /\ t.access \in Nat
  BY InputAssumption DEF Transaction
<1>2. \A i \in DOMAIN t.calls : t.calls[i].intrinsic \in Nat /\ t.calls[i].floor \in Nat
  <2> TAKE i \in DOMAIN t.calls
  <2>1. t.calls[i] \in Call
    BY <1>1, SMT
  <2>2. QED
    BY <2>1 DEF Call
<1>3. x \in [DOMAIN t.calls -> Nat] /\ y \in [DOMAIN t.calls -> Nat]
  BY <1>2
<1>4. InitialGas(t) = SumOf(x) + t.access /\ FloorGas(t, e) \in {0, SumOf(y)}
  BY DEF InitialGas, FloorGas
<1> HIDE DEF x, y
<1>5. x \in Seq(Nat) /\ y \in Seq(Nat)
  BY <1>1, <1>3, PerCall
<1>6. SumOf(x) \in Nat /\ SumOf(y) \in Nat
  BY <1>5, PrefixSumsGrow
<1>7. QED
  BY <1>1, <1>4, <1>6, SMT

(* The price a valid transaction pays lies between base fee and max fee,   *)
(* and the fee of its gas limit fits a word.                               *)
LEMMA PriceBounds ==
  ASSUME NEW t \in Txs, NEW e \in Envs, ValidEnv(t, e)
  PROVE  /\ EffectivePrice(t, e) \in Nat
         /\ e.basefee \in Nat /\ t.gas_limit \in Nat /\ t.max_fee \in Nat
         /\ e.basefee <= EffectivePrice(t, e)
         /\ EffectivePrice(t, e) <= t.max_fee
         /\ t.gas_limit * EffectivePrice(t, e) \in Word
         /\ t.gas_limit * EffectivePrice(t, e) <= t.gas_limit * t.max_fee
         /\ t.gas_limit * t.max_fee \in Nat
<1>1. t \in Transaction /\ e \in Environment /\ t.gas_limit * t.max_fee <= MaxU256
  BY InputAssumption
<1>2. /\ t.gas_limit \in Nat /\ t.max_fee \in Nat /\ t.priority \in Nat
      /\ e.basefee \in Nat
  BY <1>1 DEF Transaction, Environment
<1>3. /\ EffectivePrice(t, e) \in Nat
      /\ e.basefee <= EffectivePrice(t, e)
      /\ EffectivePrice(t, e) <= t.max_fee
  BY <1>2, SMT DEF EffectivePrice, MinOf, ValidEnv
<1>4. /\ t.gas_limit * EffectivePrice(t, e) \in Nat
      /\ t.gas_limit * t.max_fee \in Nat
      /\ t.gas_limit * EffectivePrice(t, e) <= t.gas_limit * t.max_fee
  BY <1>2, <1>3, ProductMonotone
<1> QED BY <1>1, <1>2, <1>3, <1>4, NumberAssumption, SMT DEF Word

-----------------------------------------------------------------------------
(* The inductive invariant.                                                *)

(* What an accepted transaction has passed, and the gas it can hand back. *)
Admitted ==
  /\ phase \in {"idle", "validate"} => journal = db
  /\ phase \in {"idle", "validate"} => idx = 1
  /\ phase # "idle" => ValidEnv(tx, env) /\ gas.floor <= tx.gas_limit
  /\ phase \in {"reimburse", "reward", "commit"} =>
       gas.remaining + gas.refunded <= tx.gas_limit

(* The supply fits a word, and a batch that returns to its checkpoint      *)
(* returns to a world that lacks the fee and nothing else.                 *)
Backed ==
  /\ Supply(db.bal) <= MaxU256
  /\ phase = "execute" /\ ~Simulated =>
       Supply(checkpoint.bal) + GasCost = Supply(db.bal)

IInv == TypeOK /\ Conservation /\ Admitted /\ Backed

(* Facts about the transaction in flight that several steps use. *)
LEMMA InFlight ==
  ASSUME TypeOK, Admitted, phase # "idle"
  PROVE  /\ tx \in Txs /\ env \in Envs /\ tx \in Transaction /\ env \in Environment
         /\ tx.caller \in Address
         /\ tx.sponsor \in Address \cup {None}
         /\ tx.gas_limit \in Nat /\ env.basefee \in Nat
         /\ EffectivePrice(tx, env) \in Nat
         /\ env.basefee <= EffectivePrice(tx, env)
         /\ GasCost \in Word /\ GasCost \in Nat
         /\ GasCost <= MaxGasCost /\ MaxGasCost \in Nat
         /\ TotalValue(tx) \in Word
         /\ tx.calls \in Seq(Call) /\ idx \in 1 .. Len(tx.calls)
         /\ gas.remaining \in Nat /\ gas.refunded \in Nat /\ gas.floor \in Nat
         /\ gas.remaining <= tx.gas_limit
<1>1. /\ tx \in Txs /\ env \in Envs /\ ValidEnv(tx, env)
      /\ idx \in DOMAIN tx.calls /\ gas.remaining <= tx.gas_limit
  BY DEF TypeOK, Admitted
<1>2. tx \in Transaction /\ env \in Environment
  BY <1>1, InputAssumption
<1>3. /\ tx.caller \in Address /\ tx.sponsor \in Address \cup {None}
      /\ tx.calls \in Seq(Call)
  BY <1>2 DEF Transaction
<1>4. idx \in 1 .. Len(tx.calls)
  BY <1>1, <1>3, SMT
<1>5. TotalValue(tx) \in Word
  BY <1>1, ValuesOfCalls
<1>6. gas.remaining \in Nat /\ gas.refunded \in Nat /\ gas.floor \in Nat
  BY DEF TypeOK
<1>7. GasCost \in Word /\ GasCost \in Nat
  BY <1>1, PriceBounds, NumberAssumption, SMT DEF GasCost, Word
<1>8. GasCost <= MaxGasCost /\ MaxGasCost \in Nat
  BY <1>1, PriceBounds DEF GasCost, MaxGasCost
<1>9. /\ tx.gas_limit \in Nat /\ env.basefee \in Nat
      /\ EffectivePrice(tx, env) \in Nat
      /\ env.basefee <= EffectivePrice(tx, env)
  BY <1>1, PriceBounds
<1> QED BY <1>1, <1>2, <1>3, <1>4, <1>5, <1>6, <1>7, <1>8, <1>9

(* A call of transact_one that returns leaves a world that may be the next *)
(* database.                                                               *)
LEMMA ReturnStep ==
  ASSUME NEW w \in World, Supply(w.bal) <= MaxU256,
         NEW r \in {"none", "invalid", "panic", "success", "failed"},
         Return(w, r)
  PROVE  IInv'
<1>1. TypeOK'
  BY SMT DEF Return, TypeOK, NoGas
<1>2. Conservation'
  <2>1. Held' = 0 /\ journal' = db' /\ journal' \in World
    BY DEF Return, Held
  <2>2. journal'.bal \in Balances
    BY <2>1 DEF World, Balances
  <2>3. Supply(journal'.bal) \in Nat
    BY <2>2, WeiFinite
  <2> QED BY <2>1, <2>3, SMT DEF Conservation
<1>3. Admitted'
  BY DEF Return, Admitted
<1>4. Backed'
  BY DEF Return, Backed
<1> QED BY <1>1, <1>2, <1>3, <1>4 DEF IInv

(* An error leaves the database as it was. *)
LEMMA DiscardStep ==
  ASSUME IInv, NEW r \in {"invalid", "panic"}, Discard(r)
  PROVE  IInv'
<1>1. db \in World /\ Supply(db.bal) <= MaxU256
  BY DEF IInv, TypeOK, Backed
<1> QED BY <1>1, ReturnStep DEF Discard

(* Execution starts from a world that lacks the fee and nothing else. *)
LEMMA StartExecutionStep ==
  ASSUME IInv, phase = "validate", NEW w \in World, StartExecution(w),
         ~env.simulate => Supply(w.bal) + GasCost = Supply(db.bal)
  PROVE  IInv'
<1>1. TypeOK'
  BY DEF IInv, TypeOK, StartExecution
<1>2. GasCost' = GasCost /\ Held' = GasCost
  BY DEF StartExecution, GasCost, Held
<1>3. Simulated' <=> env.simulate
  BY DEF StartExecution, Simulated
<1>4. Conservation'
  BY <1>2, <1>3 DEF StartExecution, Conservation
<1>5. Admitted'
  BY DEF IInv, Admitted, StartExecution
<1>6. Backed'
  BY <1>2, <1>3 DEF IInv, Backed, StartExecution
<1> QED BY <1>1, <1>4, <1>5, <1>6 DEF IInv

-----------------------------------------------------------------------------
(* Each action preserves it.                                               *)

(* validate_initial_tx_gas: an admitted transaction establishes Admitted.  *)
LEMMA BeginStep ==
  ASSUME IInv, NEW t \in Txs, NEW e \in Envs, Begin(t, e)
  PROVE  IInv'
<1>1. /\ t \in Transaction /\ InitialGas(t) \in Nat /\ FloorGas(t, e) \in Nat
      /\ InitialGas(t) <= t.gas_limit /\ FloorGas(t, e) <= t.gas_limit
      /\ ValidEnv(t, e)
  BY InputAssumption, GasOfCalls DEF Begin, ValidInitialGas
<1>2. t.gas_limit \in Nat /\ t.calls \in Seq(Call)
  BY <1>1 DEF Transaction
<1>3. t.calls # <<>>
  <2>1. t.evnode \/ Len(t.calls) = 1
    BY InputAssumption
  <2>2. t.evnode => t.calls # <<>>
    BY DEF Begin, ValidInitialGas
  <2>3. Len(t.calls) = 1 => t.calls # <<>>
    BY SMT
  <2> QED BY <2>1, <2>2, <2>3
<1>4. 1 \in DOMAIN t.calls
  BY <1>2, <1>3, SMT
<1> DEFINE g == [remaining |-> t.gas_limit - InitialGas(t), refunded |-> 0,
                 floor |-> FloorGas(t, e)]
<1>5. /\ g \in [remaining : Nat, refunded : Nat, floor : Nat]
      /\ g.remaining <= t.gas_limit /\ g.floor <= t.gas_limit
  BY <1>1, <1>2, SMT
<1>6. /\ gas' = g /\ tx' = t /\ env' = e /\ phase' = "validate"
      /\ outcome' = "none"
      /\ UNCHANGED <<db, journal, checkpoint, idx, status>>
  BY DEF Begin
<1> HIDE DEF g
<1>7. idx = 1
  BY DEF Begin, IInv, Admitted
<1>8. TypeOK'
  BY <1>4, <1>5, <1>6, <1>7 DEF IInv, TypeOK
<1>9. journal = db /\ journal \in World
  BY DEF IInv, TypeOK, Admitted, Begin
<1>10. Conservation'
  <2>1. Held' = 0
    BY <1>6 DEF Held
  <2>2. journal.bal \in Balances
    BY <1>9 DEF World, Balances
  <2>3. Supply(journal.bal) \in Nat
    BY <2>2, WeiFinite
  <2> QED BY <1>6, <1>9, <2>1, <2>3, SMT DEF Conservation
<1>11. Admitted'
  BY <1>1, <1>5, <1>6, <1>7, <1>9 DEF Admitted
<1>12. Backed'
  BY <1>6 DEF IInv, Backed
<1> QED BY <1>8, <1>10, <1>11, <1>12 DEF IInv

(* The nonce a CALL advances leaves the balances alone. *)
LEMMA PreBumpWorld ==
  ASSUME NEW w \in World, tx.caller \in Address
  PROVE  PreBump(w) \in World /\ PreBump(w).bal = w.bal
BY BumpNonceWorld DEF PreBump

(* validate_and_deduct_normal_tx: what the caller pays becomes Held.       *)
LEMMA DeductCallerStep ==
  ASSUME IInv, DeductCaller
  PROVE  IInv'
<1> DEFINE b == journal.bal[tx.caller]
           c == CallerBalanceAfterFee(b)
           w == SetBalance(journal, tx.caller, c)
<1>1. phase = "validate" /\ journal \in World /\ journal = db
  BY DEF IInv, TypeOK, Admitted, DeductCaller
<1>2. /\ tx.caller \in Address /\ GasCost \in Nat /\ TotalValue(tx) \in Word
      /\ EffectiveSpending = GasCost + TotalValue(tx)
  BY <1>1, InFlight DEF IInv, EffectiveSpending
<1>3. b \in Nat /\ b <= MaxU256 /\ Supply(journal.bal) \in Nat
  BY <1>1, <1>2, WorldNumbers
<1>4. TotalValue(tx) \in Nat /\ EffectiveSpending - TotalValue(tx) = GasCost
  BY <1>2, NumberAssumption, SMT DEF Word
<1> HIDE DEF b
<1>5. c \in Word
  BY <1>2, <1>3, <1>4, NumberAssumption, SMT
     DEF CallerBalanceAfterFee, SatSub, MaxOf, Word
<1>6. ASSUME ~env.simulate
      PROVE  c = b - GasCost
  BY <1>2, <1>3, <1>4, <1>6, SMT DEF DeductCaller, CallerBalanceAfterFee, SatSub, b
<1> HIDE DEF c
<1>7. w \in World /\ Supply(w.bal) = Supply(journal.bal) - b + c
  BY <1>1, <1>2, <1>5, SetBalanceWorld, SetBalanceSupply DEF b
<1> HIDE DEF w
<1>8. PreBump(w) \in World /\ PreBump(w).bal = w.bal
  BY <1>2, <1>7, PreBumpWorld
<1>9. StartExecution(PreBump(w))
  BY DEF DeductCaller, w, c, b
<1>10. ~env.simulate => Supply(PreBump(w).bal) + GasCost = Supply(db.bal)
  BY <1>1, <1>2, <1>3, <1>6, <1>7, <1>8, SMT
<1> QED BY <1>1, <1>8, <1>9, <1>10, StartExecutionStep

(* validate_and_deduct_sponsored_tx: what the sponsor pays becomes Held.   *)
LEMMA DeductSponsorStep ==
  ASSUME IInv, DeductSponsor
  PROVE  IInv'
<1> DEFINE b == journal.bal[tx.sponsor]
           c == SponsorBalanceAfterFee(b)
           p == PreBump(journal)
           w == SetBalance(p, tx.sponsor, c)
<1>1. phase = "validate" /\ journal \in World /\ journal = db
  BY DEF IInv, TypeOK, Admitted, DeductSponsor
<1>2. /\ tx.caller \in Address /\ tx.sponsor \in Address
      /\ GasCost \in Word /\ GasCost \in Nat
      /\ GasCost <= MaxGasCost /\ MaxGasCost \in Nat
  BY <1>1, InFlight DEF IInv, DeductSponsor
<1>3. b \in Nat /\ b <= MaxU256 /\ Supply(journal.bal) \in Nat
  BY <1>1, <1>2, WorldNumbers
<1> HIDE DEF b
<1>4. c \in Word
  BY <1>2, <1>3, NumberAssumption, SMT DEF SponsorBalanceAfterFee, SatSub, MaxOf, Word
<1>5. ASSUME ~env.simulate
      PROVE  c = b - GasCost
  <2>1. MaxGasCost <= b
    BY <1>5 DEF DeductSponsor, SponsoredFunded, b
  <2> QED BY <1>2, <1>3, <1>5, <2>1, SMT DEF SponsorBalanceAfterFee, SatSub
<1> HIDE DEF c
<1>6. p \in World /\ p.bal = journal.bal
  BY <1>1, <1>2, PreBumpWorld
<1> HIDE DEF p
<1>7. w \in World /\ Supply(w.bal) = Supply(journal.bal) - b + c
  <2>1. w \in World
    BY <1>2, <1>4, <1>6, SetBalanceWorld
  <2>2. Supply(w.bal) = Supply(p.bal) - p.bal[tx.sponsor] + c
    BY <1>2, <1>4, <1>6, SetBalanceSupply
  <2> QED BY <1>6, <2>1, <2>2 DEF b
<1> HIDE DEF w
<1>8. StartExecution(w)
  BY DEF DeductSponsor, w, c, p, b
<1>9. ~env.simulate => Supply(w.bal) + GasCost = Supply(db.bal)
  BY <1>1, <1>2, <1>3, <1>5, <1>7, SMT
<1> QED BY <1>1, <1>7, <1>8, <1>9, StartExecutionStep

(* A successful frame moves the value of the call and nothing else. *)
LEMMA FrameSuccessWorld ==
  ASSUME IInv, phase = "execute", CallIsFunded, ~TransferOverflows
  PROVE  /\ FrameSuccess(journal) \in World
         /\ Supply(FrameSuccess(journal).bal) = Supply(journal.bal)
<1> DEFINE v == ThisCall.value
           b == journal.bal[tx.caller]
           paid == SetBalance(journal, tx.caller, b - v)
           got == SetBalance(paid, Target, paid.bal[Target] + v)
           kept == [got EXCEPT !.store[Target] = @ + 1]
<1>1. journal \in World /\ tx.caller \in Address
  BY InFlight DEF IInv, TypeOK
<1>2. ThisCall \in Call
  BY InFlight, SMT DEF IInv, ThisCall
<1>3. v \in Nat /\ Target \in Address
  BY <1>2, AddressAssumption, NumberAssumption, SMT DEF Call, Target, Callee, Word
<1>4. /\ b \in Nat /\ b <= MaxU256 /\ v <= b /\ Supply(journal.bal) \in Nat
      /\ journal.bal[Target] \in Nat
  BY <1>1, <1>3, WorldNumbers DEF CallIsFunded
<1>5. Target = tx.caller \/ journal.bal[Target] + v <= MaxU256
  BY <1>3, <1>4, NumberAssumption, SMT DEF TransferOverflows
<1> HIDE DEF v, b
<1>6. b - v \in Word
  BY <1>3, <1>4, NumberAssumption, SMT DEF Word
<1>7. /\ paid \in World
      /\ paid.bal = [journal.bal EXCEPT ![tx.caller] = b - v]
  BY <1>1, <1>6, SetBalanceWorld
<1>8. Supply(paid.bal) = Supply(journal.bal) - b + (b - v)
  BY <1>1, <1>6, SetBalanceSupply DEF b
<1> HIDE DEF paid
<1>9. paid.bal[Target] = IF Target = tx.caller THEN b - v ELSE journal.bal[Target]
  BY <1>1, <1>3, <1>7 DEF World
<1>10. paid.bal[Target] + v \in Word /\ paid.bal[Target] \in Nat
  BY <1>3, <1>4, <1>5, <1>9, NumberAssumption, SMT DEF Word
<1>11. got \in World
  BY <1>3, <1>7, <1>10, SetBalanceWorld
<1>12. Supply(got.bal) = Supply(paid.bal) - paid.bal[Target] + (paid.bal[Target] + v)
  BY <1>3, <1>7, <1>10, SetBalanceSupply
<1>13. Supply(got.bal) = Supply(journal.bal)
  BY <1>3, <1>4, <1>8, <1>10, <1>12, SMT
<1> HIDE DEF got
<1>14. kept \in World /\ kept.bal = got.bal
  BY <1>3, <1>11, SMT DEF World
<1> HIDE DEF kept
<1>15. CreateBump(kept) \in World /\ CreateBump(kept).bal = kept.bal
  BY <1>1, <1>14, BumpNonceWorld DEF CreateBump
<1>16. FrameSuccess(journal) = CreateBump(kept)
  BY DEF FrameSuccess, kept, got, paid, b, v
<1> QED BY <1>13, <1>14, <1>15, <1>16

(* execution, a call that succeeds: the value only changes hands.          *)
LEMMA CallSucceedsStep ==
  ASSUME IInv, NEW used \in GasUses, NEW refund \in Refunds,
         CallSucceeds(used, refund)
  PROVE  IInv'
<1>1. /\ phase = "execute" /\ used \in Nat /\ refund \in Int
      /\ used <= gas.remaining /\ gas.refunded + refund >= 0
      /\ gas.remaining \in Nat /\ gas.refunded \in Nat /\ gas.floor \in Nat
      /\ gas.remaining <= tx.gas_limit /\ tx.gas_limit \in Nat
      /\ idx \in 1 .. Len(tx.calls) /\ tx.calls \in Seq(Call)
  BY NumberAssumption, InFlight DEF IInv, CallSucceeds
<1>2. /\ journal' \in World
      /\ Supply(journal'.bal) = Supply(journal.bal)
  BY <1>1, FrameSuccessWorld DEF CallSucceeds
<1>3. UNCHANGED <<db, checkpoint, tx, env, outcome>>
  BY DEF CallSucceeds
<1>4. /\ gas' \in [remaining : Nat, refunded : Nat, floor : Nat]
      /\ gas'.remaining <= tx.gas_limit /\ gas'.floor = gas.floor
  <2>1. gas \in [remaining : Nat, refunded : Nat, floor : Nat]
    BY DEF IInv, TypeOK
  <2>2. gas' = [gas EXCEPT !.remaining = gas.remaining - used,
                           !.refunded = gas.refunded + refund]
    BY DEF CallSucceeds
  <2>3. gas' = [remaining |-> gas.remaining - used,
                refunded |-> gas.refunded + refund, floor |-> gas.floor]
    BY <2>1, <2>2
  <2> QED BY <1>1, <2>3, SMT
<1>5. /\ idx' \in 1 .. Len(tx.calls)
      /\ \/ phase' = "execute" /\ status' = status
         \/ phase' = "refund" /\ status' = "success"
  BY <1>1, SMT DEF CallSucceeds
<1>6. TypeOK'
  <2>1. /\ db' \in World /\ checkpoint' \in World
        /\ tx' \in Txs /\ env' \in Envs
        /\ outcome' \in {"none", "invalid", "panic", "success", "failed"}
    BY <1>1, <1>3 DEF IInv, TypeOK
  <2>2. /\ phase' \in {"execute", "refund"}
        /\ status' \in {"none", "success", "revert", "halt"}
    BY <1>5 DEF IInv, TypeOK
  <2>3. /\ idx' \in Nat \ {0} /\ idx' \in DOMAIN tx'.calls
        /\ gas'.remaining <= tx'.gas_limit
    BY <1>1, <1>3, <1>4, <1>5, SMT
  <2> QED BY <1>2, <1>4, <2>1, <2>2, <2>3 DEF TypeOK
<1>7. GasCost' = GasCost /\ Held' = GasCost /\ Held = GasCost
  BY <1>1, <1>3, <1>5 DEF GasCost, Held
<1>8. Simulated' <=> Simulated
  BY <1>1, <1>3, <1>5 DEF Simulated
<1>9. Conservation'
  BY <1>2, <1>3, <1>7, <1>8 DEF IInv, Conservation
<1>10. Admitted'
  BY <1>1, <1>3, <1>4, <1>5 DEF IInv, Admitted
<1>11. Backed'
  BY <1>1, <1>3, <1>5, <1>7, <1>8 DEF IInv, Backed
<1> QED BY <1>6, <1>9, <1>10, <1>11 DEF IInv

(* A failed call leaves the supply of the journal, or of the checkpoint. *)
LEMMA AfterFailureWorld ==
  ASSUME IInv, phase = "execute"
  PROVE  /\ AfterFailure \in World
         /\ \/ AfterFailure.bal = journal.bal
            \/ AfterFailure.bal = checkpoint.bal
<1>1. journal \in World /\ checkpoint \in World /\ tx.caller \in Address
  BY InFlight DEF IInv, TypeOK
<1>2. CASE IsBatch(tx) /\ IsCreate(tx)
  <2>1. AfterFailure = BumpNonce(checkpoint, tx.caller)
    BY <1>2 DEF AfterFailure
  <2> QED BY <1>1, <2>1, BumpNonceWorld
<1>3. CASE IsBatch(tx) /\ ~IsCreate(tx)
  BY <1>1, <1>3 DEF AfterFailure
<1>4. CASE ~IsBatch(tx)
  <2>1. AfterFailure = IF CallIsFunded THEN CreateBump(journal) ELSE journal
    BY <1>4 DEF AfterFailure
  <2>2. CreateBump(journal) \in World /\ CreateBump(journal).bal = journal.bal
    BY <1>1, BumpNonceWorld DEF CreateBump
  <2> QED BY <1>1, <2>1, <2>2
<1> QED BY <1>2, <1>3, <1>4

(* execution, a call that fails: the checkpoint has the same supply.       *)
LEMMA CallFailsStep ==
  ASSUME IInv, NEW result \in {"revert", "halt"}, NEW used \in GasUses,
         CallFails(result, used)
  PROVE  IInv'
<1>1. /\ phase = "execute" /\ used \in Nat /\ used <= gas.remaining
      /\ gas.remaining \in Nat /\ gas.floor \in Nat
      /\ gas.remaining <= tx.gas_limit /\ tx.gas_limit \in Nat
  BY NumberAssumption, InFlight DEF IInv, CallFails
<1>2. /\ journal' \in World
      /\ journal'.bal = journal.bal \/ journal'.bal = checkpoint.bal
  BY <1>1, AfterFailureWorld DEF CallFails
<1>3. /\ UNCHANGED <<db, checkpoint, tx, env, idx, outcome>>
      /\ phase' = "refund" /\ status' = result
  BY DEF CallFails
<1>4. /\ gas' \in [remaining : Nat, refunded : Nat, floor : Nat]
      /\ gas'.remaining <= tx.gas_limit /\ gas'.floor = gas.floor
  <2>1. gas \in [remaining : Nat, refunded : Nat, floor : Nat]
    BY DEF IInv, TypeOK
  <2>2. gas' = [gas EXCEPT !.remaining = IF result = "halt" THEN 0
                                         ELSE gas.remaining - used,
                           !.refunded = 0]
    BY DEF CallFails
  <2>3. gas' = [remaining |-> IF result = "halt" THEN 0 ELSE gas.remaining - used,
                refunded |-> 0, floor |-> gas.floor]
    BY <2>1, <2>2
  <2> QED BY <1>1, <2>3, SMT
<1>5. TypeOK'
  BY <1>1, <1>2, <1>3, <1>4 DEF IInv, TypeOK
<1>6. GasCost' = GasCost /\ Held' = GasCost /\ Held = GasCost
  BY <1>1, <1>3 DEF GasCost, Held
<1>7. Simulated' <=> Simulated
  BY <1>1, <1>3 DEF Simulated
<1>8. Conservation'
  BY <1>1, <1>2, <1>3, <1>6, <1>7 DEF IInv, Conservation, Backed
<1>9. Admitted'
  BY <1>1, <1>3, <1>4 DEF IInv, Admitted
<1>10. Backed'
  BY <1>3 DEF IInv, Backed
<1> QED BY <1>5, <1>8, <1>9, <1>10 DEF IInv

(* refund and eip7623_check_gas_floor move no balance.                     *)
LEMMA RefundStep ==
  ASSUME IInv, Refund
  PROVE  IInv'
<1>1. /\ phase = "refund" /\ gas.remaining \in Nat /\ gas.refunded \in Nat
      /\ gas.floor \in Nat /\ gas.floor <= tx.gas_limit
      /\ gas.remaining <= tx.gas_limit /\ tx.gas_limit \in Nat
  BY InFlight DEF IInv, Refund, Admitted
<1>2. Spent \in Nat /\ Spent = tx.gas_limit - gas.remaining
  BY <1>1, SMT DEF Spent
<1>3. CappedRefund \in Nat /\ CappedRefund <= Spent
  BY <1>1, <1>2, SMT DEF CappedRefund, MinOf
<1>4. /\ UNCHANGED <<db, journal, checkpoint, tx, env, idx, status, outcome>>
      /\ phase' = "reimburse"
  BY DEF Refund
<1>5. /\ gas' \in [remaining : Nat, refunded : Nat, floor : Nat]
      /\ gas'.remaining <= tx.gas_limit /\ gas'.floor = gas.floor
      /\ gas'.remaining + gas'.refunded <= tx.gas_limit
  <2>1. gas \in [remaining : Nat, refunded : Nat, floor : Nat]
    BY DEF IInv, TypeOK
  <2>2. \/ gas' = [remaining |-> tx.gas_limit - gas.floor, refunded |-> 0,
                   floor |-> gas.floor]
        \/ gas' = [remaining |-> gas.remaining, refunded |-> CappedRefund,
                   floor |-> gas.floor]
    BY <2>1 DEF Refund
  <2> QED BY <1>1, <1>2, <1>3, <2>2, SMT
<1>6. TypeOK'
  BY <1>1, <1>4, <1>5 DEF IInv, TypeOK
<1>7. GasCost' = GasCost /\ Held' = GasCost /\ Held = GasCost
  BY <1>1, <1>4 DEF GasCost, Held
<1>8. Simulated' <=> Simulated
  BY <1>1, <1>4 DEF Simulated
<1>9. Conservation'
  BY <1>4, <1>7, <1>8 DEF IInv, Conservation
<1>10. Admitted'
  BY <1>1, <1>4, <1>5 DEF IInv, Admitted
<1>11. Backed'
  BY <1>4 DEF IInv, Backed
<1> QED BY <1>6, <1>9, <1>10, <1>11 DEF IInv

(* The gas spent and the gas handed back are the gas limit. *)
LEMMA SpentSplit ==
  ASSUME IInv, phase \in {"reimburse", "reward", "commit"}
  PROVE  /\ SpentSubRefunded \in Nat
         /\ gas.remaining + gas.refunded \in Nat
         /\ EffectivePrice(tx, env) * SpentSubRefunded \in Nat
         /\ EffectivePrice(tx, env) * (gas.remaining + gas.refunded) \in Nat
         /\ GasCost = EffectivePrice(tx, env) * SpentSubRefunded
                      + EffectivePrice(tx, env) * (gas.remaining + gas.refunded)
<1> DEFINE k == EffectivePrice(tx, env)
           x == SpentSubRefunded
           y == gas.remaining + gas.refunded
<1>1. /\ k \in Nat /\ tx.gas_limit \in Nat /\ gas.remaining \in Nat
      /\ gas.refunded \in Nat /\ y <= tx.gas_limit
  BY InFlight DEF IInv, Admitted
<1>2. x \in Nat /\ y \in Nat /\ tx.gas_limit = x + y
  BY <1>1, SMT DEF SpentSubRefunded, Spent, SatSub
<1>3. GasCost = tx.gas_limit * k
  BY DEF GasCost
<1> HIDE DEF k, x, y
<1>4. k * (x + y) = k * x + k * y /\ k * x \in Nat /\ k * y \in Nat
  BY <1>1, <1>2, ProductSplit, SMT
<1>5. tx.gas_limit * k = k * tx.gas_limit
  BY <1>1, SMT
<1> QED BY <1>2, <1>3, <1>4, <1>5 DEF k, x, y

(* reimburse_caller gives back the part of Held that was not spent.        *)
LEMMA ReimburseStep ==
  ASSUME IInv, ReimburseCaller
  PROVE  IInv'
<1> DEFINE back == EffectivePrice(tx, env) * (gas.remaining + gas.refunded)
           fee == EffectivePrice(tx, env) * SpentSubRefunded
<1>1. phase = "reimburse" /\ journal \in World /\ db \in World
  BY DEF IInv, TypeOK, ReimburseCaller
<1>2. /\ UNCHANGED <<db, checkpoint, tx, env, idx, gas, status, outcome>>
      /\ phase' = "reward" /\ journal' = Credit(journal, Payer, back)
  BY DEF ReimburseCaller
<1>3. back \in Nat /\ fee \in Nat /\ GasCost = fee + back
  BY <1>1, SpentSplit
<1>4. Payer \in Address
  BY <1>1, InFlight DEF IInv, Payer
<1>5. Supply(journal.bal) \in Nat /\ Supply(db.bal) \in Nat
  BY <1>1, <1>4, WorldNumbers
<1>6. Held = GasCost /\ Held' = fee
  BY <1>1, <1>2 DEF Held, SpentSubRefunded, Spent
<1>7. Simulated' <=> Simulated
  BY <1>1, <1>2 DEF Simulated
<1> HIDE DEF back, fee
<1>8. journal' \in World
  BY <1>1, <1>2, <1>3, <1>4, CreditWorld
<1>9. ASSUME ~Simulated
      PROVE  Supply(journal'.bal) + fee = Supply(db.bal)
  <2>1. Supply(journal.bal) + GasCost = Supply(db.bal) /\ Supply(db.bal) <= MaxU256
    BY <1>6, <1>9 DEF IInv, Conservation, Backed
  <2>2. Supply(journal.bal) + back <= MaxU256
    BY <1>3, <1>5, <2>1, NumberAssumption, SMT
  <2>3. Supply(journal'.bal) = Supply(journal.bal) + back
    BY <1>1, <1>2, <1>3, <1>4, <2>2, CreditWorld
  <2> QED BY <1>3, <1>5, <2>1, <2>3, SMT
<1>10. TypeOK'
  BY <1>1, <1>2, <1>8 DEF IInv, TypeOK
<1>11. Conservation'
  BY <1>2, <1>6, <1>7, <1>9 DEF Conservation
<1>12. Admitted'
  BY <1>1, <1>2 DEF IInv, Admitted
<1>13. Backed'
  BY <1>2 DEF IInv, Backed
<1> QED BY <1>10, <1>11, <1>12, <1>13 DEF IInv

(* The fee of the gas spent is the base fee and the tip.                   *)
LEMMA FeeSplit ==
  ASSUME IInv, phase \in {"reward", "commit"}
  PROVE  /\ env.basefee * SpentSubRefunded \in Nat /\ Tip \in Nat
         /\ EffectivePrice(tx, env) * SpentSubRefunded
              = env.basefee * SpentSubRefunded + Tip
<1> DEFINE k == EffectivePrice(tx, env)
           n == SpentSubRefunded
<1>1. k \in Nat /\ n \in Nat /\ env.basefee \in Nat /\ env.basefee <= k
  BY InFlight, SpentSplit DEF IInv
<1>2. Tip = (k - env.basefee) * n /\ k - env.basefee \in Nat
  BY <1>1, SMT DEF Tip
<1>3. n * (env.basefee + (k - env.basefee)) = n * env.basefee + n * (k - env.basefee)
  BY <1>1, <1>2, ProductSplit
<1>4. env.basefee + (k - env.basefee) = k
  BY <1>1, SMT
<1> HIDE DEF k, n
<1>5. env.basefee * n = n * env.basefee /\ Tip = n * (k - env.basefee) /\ k * n = n * k
  BY <1>1, <1>2, SMT
<1>6. n * env.basefee \in Nat /\ n * (k - env.basefee) \in Nat
  BY <1>1, <1>2, SMT
<1> QED BY <1>3, <1>4, <1>5, <1>6 DEF k, n

(* reward_beneficiary gives out what Held has left but an unredirected base fee. *)
LEMMA RewardStep ==
  ASSUME IInv, RewardBeneficiary
  PROVE  IInv'
<1> DEFINE k == EffectivePrice(tx, env)
           n == SpentSubRefunded
           base == env.basefee * n
           w == RedirectBaseFee(journal)
           burnt == IF env.sink = None THEN base ELSE 0
<1>1. phase = "reward" /\ journal \in World /\ db \in World
  BY DEF IInv, TypeOK, RewardBeneficiary
<1>2. /\ UNCHANGED <<db, checkpoint, tx, env, idx, gas, status, outcome>>
      /\ phase' = "commit" /\ journal' = Credit(w, env.beneficiary, Tip)
  BY DEF RewardBeneficiary
<1>3. /\ k \in Nat /\ n \in Nat /\ env.basefee \in Nat /\ env.basefee <= k
      /\ env \in Environment
  BY <1>1, InFlight, SpentSplit DEF IInv
<1>4. base \in Nat /\ Tip \in Nat /\ k * n = base + Tip
  BY <1>1, FeeSplit
<1>5. /\ env.beneficiary \in Address
      /\ env.sink # None => env.sink \in Address
  BY <1>3 DEF Environment
<1>6. Supply(journal.bal) \in Nat /\ Supply(db.bal) \in Nat
  BY <1>1, <1>5, WorldNumbers
<1>7. Held = k * n /\ Held' = burnt
  BY <1>1, <1>2 DEF Held, SpentSubRefunded, Spent
<1>8. Simulated' <=> Simulated
  BY <1>1, <1>2 DEF Simulated
<1>9. /\ w \in World
      /\ Supply(journal.bal) + base <= MaxU256 =>
           Supply(w.bal) + burnt = Supply(journal.bal) + base
  <2>1. CASE env.sink # None /\ n # 0
    <3>1. w = Credit(journal, env.sink, base)
      BY <2>1 DEF RedirectBaseFee
    <3> HIDE DEF w, base, n
    <3>2. /\ w \in World
          /\ Supply(journal.bal) + base <= MaxU256 =>
               Supply(w.bal) = Supply(journal.bal) + base
      BY <1>1, <1>4, <1>5, <2>1, <3>1, CreditWorld
    <3>3. burnt = 0
      BY <2>1
    <3> QED BY <1>4, <1>6, <3>2, <3>3, SMT
  <2>2. CASE env.sink = None
    <3>1. w = journal /\ burnt = base
      BY <2>2 DEF RedirectBaseFee
    <3> QED BY <1>1, <3>1
  <2>3. CASE env.sink # None /\ n = 0
    <3>1. w = journal /\ burnt = 0 /\ base = 0
      BY <1>3, <2>3, SMT DEF RedirectBaseFee
    <3> QED BY <1>1, <3>1
  <2> QED BY <2>1, <2>2, <2>3
<1> HIDE DEF w, base
<1>10. burnt \in Nat /\ burnt <= base /\ Supply(w.bal) \in Nat
  BY <1>4, <1>5, <1>9, WorldNumbers, SMT
<1> HIDE DEF burnt, k, n
<1>11. journal' \in World
  BY <1>2, <1>4, <1>5, <1>9, CreditWorld
<1>12. ASSUME ~Simulated
      PROVE  Supply(journal'.bal) + burnt = Supply(db.bal)
  <2>1. Supply(journal.bal) + base + Tip = Supply(db.bal) /\ Supply(db.bal) <= MaxU256
    BY <1>4, <1>6, <1>7, <1>12, SMT DEF IInv, Conservation, Backed
  <2>2. /\ Supply(w.bal) + burnt = Supply(journal.bal) + base
        /\ Supply(w.bal) + Tip <= MaxU256
    BY <1>4, <1>6, <1>9, <1>10, <2>1, NumberAssumption, SMT
  <2>3. Supply(journal'.bal) = Supply(w.bal) + Tip
    BY <1>2, <1>4, <1>5, <1>9, <2>2, CreditWorld
  <2> QED BY <1>4, <1>6, <1>10, <2>1, <2>2, <2>3, SMT
<1>13. TypeOK'
  BY <1>1, <1>2, <1>11 DEF IInv, TypeOK
<1>14. Conservation'
  BY <1>2, <1>7, <1>8, <1>12 DEF Conservation
<1>15. Admitted'
  BY <1>1, <1>2 DEF IInv, Admitted
<1>16. Backed'
  BY <1>2 DEF IInv, Backed
<1> QED BY <1>13, <1>14, <1>15, <1>16 DEF IInv

(* commit_tx: the invariant holds of the next transaction's start.         *)
LEMMA CommitStep ==
  ASSUME IInv, Commit
  PROVE  IInv'
<1> DEFINE w == IF env.simulate THEN db ELSE journal
           r == IF status = "success" THEN "success" ELSE "failed"
<1>1. phase = "commit" /\ journal \in World /\ db \in World /\ Supply(db.bal) <= MaxU256
  BY DEF IInv, TypeOK, Backed, Commit
<1>2. Held \in Nat
  <2>1. env.basefee \in Nat /\ SpentSubRefunded \in Nat
    BY <1>1, InFlight, SpentSplit DEF IInv
  <2>2. env.basefee * SpentSubRefunded \in Nat
    BY <2>1, SMT
  <2> QED BY <1>1, <2>2 DEF Held
<1>3. Supply(journal.bal) \in Nat /\ Supply(db.bal) \in Nat
  BY <1>1, WorldNumbers, AddressAssumption
<1>4. ~env.simulate => Supply(journal.bal) + Held = Supply(db.bal)
  BY <1>1 DEF IInv, Conservation, Simulated
<1>5. w \in World /\ Supply(w.bal) <= MaxU256
  BY <1>1, <1>2, <1>3, <1>4, NumberAssumption, SMT
<1>6. Return(w, r)
  BY DEF Commit
<1> HIDE DEF w
<1> QED BY <1>5, <1>6, ReturnStep

(* A genesis world whose supply fits a word satisfies the invariant. *)
LEMMA InitIInv == Init => IInv
<1> SUFFICES ASSUME Init PROVE IInv
  OBVIOUS
<1>1. db \in World /\ Supply(db.bal) <= MaxU256
  BY GenesisAssumption DEF Init
<1>2. TypeOK
  BY <1>1, SMT DEF Init, TypeOK, NoGas
<1>3. Supply(db.bal) \in Nat
  BY <1>1, WorldNumbers, AddressAssumption
<1>4. Conservation
  BY <1>3, SMT DEF Init, Conservation, Held
<1>5. Admitted /\ Backed
  BY <1>1 DEF Init, Admitted, Backed
<1> QED BY <1>2, <1>4, <1>5 DEF IInv

(* Every step of the handler preserves the invariant. *)
LEMMA NextIInv == IInv /\ [Next]_vars => IInv'
<1> SUFFICES ASSUME IInv, [Next]_vars PROVE IInv'
  OBVIOUS
<1>1. ASSUME NEW t \in Txs, NEW e \in Envs, Begin(t, e) PROVE IInv'
  BY <1>1, BeginStep
<1>2. ASSUME NEW t \in Txs, NEW e \in Envs, RejectStatic(t, e) PROVE IInv'
  BY <1>2, DiscardStep DEF RejectStatic
<1>3. CASE DeductCaller
  BY <1>3, DeductCallerStep
<1>4. CASE RejectCaller
  BY <1>4, DiscardStep DEF RejectCaller
<1>5. CASE PanicOnOverflow
  BY <1>5, DiscardStep DEF PanicOnOverflow
<1>6. CASE DeductSponsor
  BY <1>6, DeductSponsorStep
<1>7. CASE RejectSponsored
  BY <1>7, DiscardStep DEF RejectSponsored
<1>8. ASSUME NEW used \in GasUses, NEW refund \in Refunds,
             CallSucceeds(used, refund)
      PROVE  IInv'
  BY <1>8, CallSucceedsStep
<1>9. ASSUME NEW result \in {"revert", "halt"}, NEW used \in GasUses,
             CallFails(result, used)
      PROVE  IInv'
  BY <1>9, CallFailsStep
<1>10. CASE Refund
  BY <1>10, RefundStep
<1>11. CASE ReimburseCaller
  BY <1>11, ReimburseStep
<1>12. CASE RewardBeneficiary
  BY <1>12, RewardStep
<1>13. CASE Commit
  BY <1>13, CommitStep
<1>14. CASE UNCHANGED vars
  BY <1>14, SMT DEF vars, IInv, TypeOK, Conservation, Admitted, Backed, Held,
               Simulated, GasCost, SpentSubRefunded, Spent
<1> QED BY <1>1, <1>2, <1>3, <1>4, <1>5, <1>6, <1>7, <1>8, <1>9, <1>10, <1>11,
           <1>12, <1>13, <1>14 DEF Next

(* Every state of every execution satisfies the inductive invariant. *)
THEOREM Invariance == Spec => []IInv
BY InitIInv, NextIInv, PTL DEF Spec

(* TypeOK holds in every state: balances stay words although the handler   *)
(* adds and subtracts on them, the gas handed back never exceeds the gas   *)
(* limit, and a call index stays inside the batch.                         *)
THEOREM TypeCorrect == Spec => []TypeOK
<1>1. IInv => TypeOK
  BY DEF IInv
<1> QED BY <1>1, Invariance, PTL

(* Conservation holds in every state: for any accounts, fees, gas limits,  *)
(* calls and frame outcomes, validation, execution, reimbursement and      *)
(* rewards of handler.rs neither create nor lose wei.                      *)
THEOREM WeiConserved == Spec => []Conservation
<1>1. IInv => Conservation
  BY DEF IInv
<1> QED BY <1>1, Invariance, PTL

-----------------------------------------------------------------------------
(* Nonces, storage effects and deployments.  The inductive invariant       *)
(* follows the calls of a transaction one by one; it rests on the type     *)
(* invariant above.                                                        *)

Settled == {"refund", "reimburse", "reward", "commit"}

(* The calls before the n-th that leave their effect on account a. *)
CallsOn(a, n) == {i \in DOMAIN tx.calls : i < n /\ a = Callee(tx.calls[i])}

(* The nonces before the transaction, the caller's advanced by one. *)
Advanced == [db.nonce EXCEPT ![tx.caller] = @ + 1]

(* What validation has established: a CREATE is the first call or none,    *)
(* and one that executes is allowed.                                       *)
Validated ==
  /\ phase # "idle" => \A i \in DOMAIN tx.calls : tx.calls[i].to = Create => i = 1
  /\ phase \in Settled \cup {"execute"} => DeployAllowed(tx, env)

(* The caller still has what the total value leaves for the calls to come, *)
(* unless fee and value come from one balance that was checked for each    *)
(* alone, or nobody's balance was checked.                                 *)
Covered ==
  phase = "execute" =>
    \/ TotalValue(tx) <= journal.bal[tx.caller] + PrefixSums(Values(tx))[idx - 1]
    \/ SelfSponsored
    \/ Simulated /\ tx.sponsor # None

(* During the calls: the checkpoint has no effect of them, the journal has *)
(* the effects of those that ran.  A CREATE moves the nonce when it runs,  *)
(* a CALL has moved it before.                                             *)
CallByCall ==
  phase = "execute" =>
    /\ checkpoint.nonce = IF IsCreate(tx) THEN db.nonce ELSE Advanced
    /\ checkpoint.store = db.store
    /\ journal.nonce = IF IsCreate(tx) /\ idx = 1 THEN db.nonce ELSE Advanced
    /\ \A a \in Address :
         journal.store[a] = db.store[a] + Cardinality(CallsOn(a, idx))

(* NonceAdvancesOnce from the end of the calls on. *)
NonceSettled ==
  phase \in Settled /\ ~Simulated =>
    \/ journal.nonce = Advanced
    \/ /\ SelfSponsored /\ IsCreate(tx) /\ ~IsBatch(tx)
       /\ status = "revert"
       /\ journal.nonce = db.nonce

(* What the calls of a settled transaction have moved to account a.        *)
Moved(a) ==
  IF status = "success" THEN SumOf(Gains(a)) - Paid(a, tx.caller, SumOf(Values(tx))) ELSE 0

(* The balance of every account, from the deduction of the fee on: the     *)
(* fee, the values of the calls that ran, and the rewards.                 *)
Ledger ==
  ~Simulated =>
    \A a \in Address :
      /\ phase = "execute" =>
           /\ checkpoint.bal[a] = db.bal[a] - Paid(a, Payer, GasCost)
           /\ journal.bal[a] = checkpoint.bal[a]
                - Paid(a, tx.caller, PrefixSums(Values(tx))[idx - 1])
                + PrefixSums(Gains(a))[idx - 1]
      /\ phase \in {"refund", "reimburse"} =>
           journal.bal[a] = db.bal[a] - Paid(a, Payer, GasCost) + Moved(a)
      /\ phase = "reward" =>
           journal.bal[a] = db.bal[a]
             - Paid(a, Payer, EffectivePrice(tx, env) * SpentSubRefunded) + Moved(a)
      /\ phase = "commit" =>
           journal.bal[a] = db.bal[a]
             - Paid(a, Payer, EffectivePrice(tx, env) * SpentSubRefunded) + Moved(a)
             + Paid(a, env.sink, env.basefee * SpentSubRefunded)
             + Paid(a, env.beneficiary, Tip)

EInv == Validated /\ Covered /\ CallByCall /\ NonceSettled /\ AllOrNothing

-----------------------------------------------------------------------------
(* Lemmas about the world updates.                                         *)

(* A nonce advanced by one, and nothing else.                              *)
LEMMA BumpNonceEffect ==
  ASSUME NEW w \in World, NEW a \in Address
  PROVE  /\ BumpNonce(w, a).nonce = [w.nonce EXCEPT ![a] = w.nonce[a] + 1]
         /\ BumpNonce(w, a).store = w.store
BY DEF World, BumpNonce

(* The fields of a world with one balance set, be it a word or not: nonces *)
(* and storage stay.                                                       *)
LEMMA SetBalanceEffect ==
  ASSUME NEW w, w = [bal |-> w.bal, nonce |-> w.nonce, store |-> w.store],
         NEW a, NEW b
  PROVE  /\ SetBalance(w, a, b) = [bal |-> SetBalance(w, a, b).bal,
                                   nonce |-> w.nonce, store |-> w.store]
         /\ SetBalance(w, a, b).nonce = w.nonce
         /\ SetBalance(w, a, b).store = w.store
BY SMT DEF SetBalance

(* A world is the record of its fields.                                    *)
LEMMA WorldFields ==
  ASSUME NEW w \in World
  PROVE  w = [bal |-> w.bal, nonce |-> w.nonce, store |-> w.store]
BY DEF World

(* So does a credit.                                                       *)
LEMMA CreditEffect ==
  ASSUME NEW w \in World, NEW a \in Address, NEW amount
  PROVE  /\ Credit(w, a, amount).nonce = w.nonce
         /\ Credit(w, a, amount).store = w.store
<1> DEFINE b == SatAdd(w.bal[a], amount)
<1>1. Credit(w, a, amount) = SetBalance(w, a, b)
  BY DEF Credit
<1> HIDE DEF b
<1> QED BY <1>1, SetBalanceEffect, WorldFields, SMT

(* The calls of a transaction in flight: their number, and that the first  *)
(* is the CREATE if there is one.                                          *)
LEMMA CallsInFlight ==
  ASSUME IInv, Validated, phase # "idle"
  PROVE  /\ tx.calls \in Seq(Call) /\ idx \in 1 .. Len(tx.calls)
         /\ DOMAIN tx.calls = 1 .. Len(tx.calls)
         /\ IsCreate(tx) <=> tx.calls[1].to = Create
         /\ ThisCall.to = Create <=> (idx = 1 /\ IsCreate(tx))
         /\ ~IsBatch(tx) => Len(tx.calls) = 1
<1>1. tx.calls \in Seq(Call) /\ idx \in 1 .. Len(tx.calls) /\ tx \in Txs
  BY InFlight DEF IInv
<1>2. DOMAIN tx.calls = 1 .. Len(tx.calls) /\ Len(tx.calls) \in Nat
  BY <1>1, SMT
<1>3. tx.calls # <<>>
  BY <1>1, SMT
<1>4. IsCreate(tx) <=> tx.calls[1].to = Create
  BY <1>3 DEF IsCreate
<1>5. ThisCall.to = Create <=> (idx = 1 /\ IsCreate(tx))
  BY <1>1, <1>2, <1>4 DEF Validated, ThisCall
<1>6. ~IsBatch(tx) => Len(tx.calls) = 1
  <2>1. tx.evnode \/ Len(tx.calls) = 1
    BY <1>1, InputAssumption
  <2> DEFINE n == Len(tx.calls)
  <2>2. n \in Nat /\ idx \in 1 .. n
    BY <1>1, <1>2
  <2> HIDE DEF n
  <2>3. n = 1 \/ (n > 1 /\ n # 1)
    BY <2>2, SMT
  <2> QED BY <2>1, <2>3 DEF IsBatch, n
<1> QED BY <1>1, <1>2, <1>4, <1>5, <1>6

(* The target of the call that runs is its callee.                         *)
LEMMA CallsOnGrow ==
  ASSUME IInv, Validated, phase # "idle", NEW a \in Address
  PROVE  /\ Cardinality(CallsOn(a, 1)) = 0
         /\ Cardinality(CallsOn(a, idx)) \in Nat
         /\ Cardinality(CallsOn(a, idx + 1)) =
              Cardinality(CallsOn(a, idx)) + (IF a = Target THEN 1 ELSE 0)
         /\ idx = Len(tx.calls) =>
              CallsOn(a, idx + 1) = {i \in DOMAIN tx.calls : a = Callee(tx.calls[i])}
<1>1. /\ tx.calls \in Seq(Call) /\ idx \in 1 .. Len(tx.calls)
      /\ DOMAIN tx.calls = 1 .. Len(tx.calls) /\ Len(tx.calls) \in Nat
  BY CallsInFlight, SMT
<1>2. CallsOn(a, 1) = {}
  BY <1>1, SMT DEF CallsOn
<1>3. IsFiniteSet(CallsOn(a, idx))
  <2>1. IsFiniteSet(1 .. Len(tx.calls))
    BY <1>1, FS_Interval, SMT
  <2>2. CallsOn(a, idx) \subseteq 1 .. Len(tx.calls)
    BY <1>1 DEF CallsOn
  <2> QED BY <2>1, <2>2, FS_Subset
<1>4. Target = Callee(tx.calls[idx])
  BY DEF Target, ThisCall
<1>5. idx \notin CallsOn(a, idx)
  BY <1>1, SMT DEF CallsOn
<1>6. a # Target => CallsOn(a, idx + 1) = CallsOn(a, idx)
  BY <1>1, <1>4, SMT DEF CallsOn
<1>7. a = Target => CallsOn(a, idx + 1) = CallsOn(a, idx) \cup {idx}
  BY <1>1, <1>4, SMT DEF CallsOn
<1>8. idx = Len(tx.calls) =>
        CallsOn(a, idx + 1) = {i \in DOMAIN tx.calls : a = Callee(tx.calls[i])}
  BY <1>1, SMT DEF CallsOn
<1>9. Cardinality(CallsOn(a, idx)) \in Nat
  BY <1>3, FS_CardinalityType
<1>10. Cardinality(CallsOn(a, idx) \cup {idx}) = Cardinality(CallsOn(a, idx)) + 1
  BY <1>3, <1>5, FS_AddElement
<1>11. Cardinality(CallsOn(a, idx + 1)) =
         Cardinality(CallsOn(a, idx)) + (IF a = Target THEN 1 ELSE 0)
  <2>1. CASE a = Target
    BY <2>1, <1>7, <1>10
  <2>2. CASE a # Target
    BY <2>2, <1>6, <1>9, SMT
  <2> QED BY <2>1, <2>2
<1>12. Cardinality(CallsOn(a, 1)) = 0
  BY <1>2, FS_EmptySet
<1> QED BY <1>8, <1>9, <1>11, <1>12

(* The values and the gains of the transaction in flight, call by call.    *)
LEMMA SumsInFlight ==
  ASSUME IInv, phase # "idle", NEW a
  PROVE  /\ Values(tx) \in Seq(Nat) /\ Gains(a) \in Seq(Nat)
         /\ Len(Values(tx)) = Len(tx.calls) /\ Len(Gains(a)) = Len(tx.calls)
         /\ PrefixSums(Values(tx))[0] = 0 /\ PrefixSums(Gains(a))[0] = 0
         /\ PrefixSums(Values(tx))[idx - 1] \in Nat
         /\ PrefixSums(Gains(a))[idx - 1] \in Nat
         /\ ThisCall.value \in Nat
         /\ PrefixSums(Values(tx))[idx] = PrefixSums(Values(tx))[idx - 1] + ThisCall.value
         /\ PrefixSums(Gains(a))[idx] =
              PrefixSums(Gains(a))[idx - 1] + Paid(a, Target, ThisCall.value)
         /\ PrefixSums(Values(tx))[idx] <= SumOf(Values(tx))
<1> DEFINE n == Len(tx.calls)
<1>1. tx \in Txs /\ tx.calls \in Seq(Call) /\ idx \in 1 .. n
  BY InFlight DEF IInv
<1>2. n \in Nat /\ DOMAIN tx.calls = 1 .. n
  BY <1>1, SMT
<1>3. Values(tx) \in Seq(Nat) /\ Len(Values(tx)) = n
  BY <1>1, ValuesOfCalls
<1>4. Values(tx) = [i \in 1 .. n |-> tx.calls[i].value]
  BY <1>2 DEF Values
<1>5. \A i \in 1 .. n : tx.calls[i].value \in Nat
  BY <1>3, <1>4, SMT
<1>6. Gains(a) = [i \in 1 .. n |-> IF a = Callee(tx.calls[i]) THEN tx.calls[i].value ELSE 0]
  BY <1>2 DEF Gains
<1>7. Gains(a) \in [DOMAIN tx.calls -> Nat]
  BY <1>2, <1>5, <1>6, SMT
<1>8. Gains(a) \in Seq(Nat) /\ Len(Gains(a)) = n
  BY <1>1, <1>7, PerCall
<1>9. /\ ThisCall.value = Values(tx)[idx] /\ ThisCall.value \in Nat
      /\ Gains(a)[idx] = Paid(a, Target, ThisCall.value)
  BY <1>1, <1>4, <1>5, <1>6 DEF ThisCall, Target, Paid
<1>10. /\ PrefixSums(Values(tx)) \in [0 .. n -> Nat] /\ PrefixSums(Values(tx))[0] = 0
       /\ PrefixSums(Values(tx))[idx] = PrefixSums(Values(tx))[idx - 1] + Values(tx)[idx]
  BY <1>1, <1>3, PrefixSumsDef
<1>11. /\ PrefixSums(Gains(a)) \in [0 .. n -> Nat] /\ PrefixSums(Gains(a))[0] = 0
       /\ PrefixSums(Gains(a))[idx] = PrefixSums(Gains(a))[idx - 1] + Gains(a)[idx]
  BY <1>1, <1>8, PrefixSumsDef
<1>12. PrefixSums(Values(tx))[idx] <= SumOf(Values(tx))
  BY <1>1, <1>3, PrefixSumsGrow
<1>13. idx - 1 \in 0 .. n
  BY <1>1, <1>2, SMT
<1> HIDE DEF n
<1>14. QED
  BY <1>3, <1>8, <1>9, <1>10, <1>11, <1>12, <1>13 DEF n

(* What a successful frame does beside the balances: one more effect on    *)
(* its target, and the nonce if it creates.                                *)
LEMMA FrameEffect ==
  ASSUME IInv, phase = "execute"
  PROVE  /\ FrameSuccess(journal).store =
              [journal.store EXCEPT ![Target] = journal.store[Target] + 1]
         /\ FrameSuccess(journal).nonce =
              IF ThisCall.to = Create
              THEN [journal.nonce EXCEPT ![tx.caller] = journal.nonce[tx.caller] + 1]
              ELSE journal.nonce
         /\ Target \in Address
<1> DEFINE b == journal.bal[tx.caller] - ThisCall.value
           paid == SetBalance(journal, tx.caller, b)
           c == paid.bal[Target] + ThisCall.value
           got == SetBalance(paid, Target, c)
           kept == [got EXCEPT !.store[Target] = @ + 1]
<1>1. journal \in World /\ tx.caller \in Address
  BY InFlight DEF IInv, TypeOK
<1>2. Target \in Address
  <2>1. ThisCall \in Call
    BY InFlight, SMT DEF IInv, ThisCall
  <2> QED BY <2>1, AddressAssumption DEF Call, Target, Callee
<1>3. FrameSuccess(journal) = CreateBump(kept)
  BY DEF FrameSuccess
<1> HIDE DEF b
<1>4. paid = [bal |-> paid.bal, nonce |-> journal.nonce, store |-> journal.store]
  BY <1>1, SetBalanceEffect, WorldFields, SMT
<1> HIDE DEF paid, c
<1>5. got = [bal |-> got.bal, nonce |-> journal.nonce, store |-> journal.store]
  BY <1>4, SetBalanceEffect, SMT
<1> HIDE DEF got
<1>6. kept = [bal |-> got.bal, nonce |-> journal.nonce,
              store |-> [journal.store EXCEPT ![Target] = journal.store[Target] + 1]]
  BY <1>1, <1>2, <1>5, SMT DEF World
<1> HIDE DEF kept
<1>7. /\ CreateBump(kept).store = kept.store
      /\ CreateBump(kept).nonce = IF ThisCall.to = Create
           THEN [kept.nonce EXCEPT ![tx.caller] = kept.nonce[tx.caller] + 1]
           ELSE kept.nonce
  BY <1>6 DEF CreateBump, BumpNonce
<1> QED BY <1>2, <1>3, <1>6, <1>7

(* A successful frame moves the value from the caller to the target.       *)
LEMMA FrameBalances ==
  ASSUME IInv, phase = "execute", CallIsFunded, ~TransferOverflows
  PROVE  \A a \in Address :
           FrameSuccess(journal).bal[a] = journal.bal[a]
             - Paid(a, tx.caller, ThisCall.value) + Paid(a, Target, ThisCall.value)
<1> DEFINE v == ThisCall.value
           b == journal.bal[tx.caller] - v
           paid == SetBalance(journal, tx.caller, b)
           c == paid.bal[Target] + v
           got == SetBalance(paid, Target, c)
           kept == [got EXCEPT !.store[Target] = @ + 1]
<1>1. journal \in World /\ tx.caller \in Address /\ v \in Nat
  BY InFlight, SumsInFlight DEF IInv, TypeOK
<1>2. Target \in Address
  BY FrameEffect
<1>3. FrameSuccess(journal) = CreateBump(kept)
  BY DEF FrameSuccess
<1>4. journal = [bal |-> journal.bal, nonce |-> journal.nonce, store |-> journal.store]
  BY <1>1, WorldFields
<1> HIDE DEF b, v
<1>5. paid = [bal |-> [journal.bal EXCEPT ![tx.caller] = b], nonce |-> journal.nonce,
              store |-> journal.store]
  BY <1>4, SMT DEF SetBalance
<1> HIDE DEF paid, c
<1>6. got = [bal |-> [paid.bal EXCEPT ![Target] = c], nonce |-> journal.nonce,
             store |-> journal.store]
  BY <1>5, SMT DEF SetBalance
<1> HIDE DEF got
<1>7. kept.bal = got.bal /\ kept = [bal |-> kept.bal, nonce |-> kept.nonce,
                                    store |-> kept.store]
  BY <1>6, SMT
<1> HIDE DEF kept
<1>8. CreateBump(kept).bal = kept.bal
  BY <1>7 DEF CreateBump, BumpNonce
<1>9. /\ paid.bal = [journal.bal EXCEPT ![tx.caller] = b]
      /\ FrameSuccess(journal).bal = [paid.bal EXCEPT ![Target] = c]
  BY <1>3, <1>5, <1>6, <1>7, <1>8
<1>10. journal.bal \in [Address -> Nat]
  BY <1>1, NumberAssumption, SMT DEF World, Word
<1> TAKE a \in Address
<1>11. paid.bal[a] = journal.bal[a] - Paid(a, tx.caller, v)
  BY <1>1, <1>9, <1>10, SMT DEF Paid, b, v
<1>12. paid.bal \in [Address -> Int]
  BY <1>1, <1>9, <1>10, SMT DEF b, v
<1>13. FrameSuccess(journal).bal[a] = paid.bal[a] + Paid(a, Target, v)
  BY <1>1, <1>2, <1>9, <1>12, SMT DEF Paid, c
<1>14. QED
  BY <1>11, <1>13 DEF v

-----------------------------------------------------------------------------
(* Each action preserves it.                                               *)

(* Between transactions there is nothing to say.                           *)
LEMMA ReturnEffect ==
  ASSUME NEW w, NEW r, Return(w, r)
  PROVE  EInv'
BY DEF Return, EInv, Validated, Covered, CallByCall, NonceSettled,
       AllOrNothing, Settled

(* validate_initial_tx_gas: a CREATE after the first call is refused.      *)
LEMMA BeginEffect ==
  ASSUME NEW t \in Txs, NEW e \in Envs, Begin(t, e)
  PROVE  EInv'
<1>1. phase' = "validate" /\ tx' = t
  BY DEF Begin
<1>2. \A i \in DOMAIN t.calls : t.calls[i].to = Create => i = 1
  <2>1. CASE t.evnode
    BY <2>1 DEF Begin, ValidInitialGas
  <2>2. CASE ~t.evnode
    <3>1. t \in Transaction /\ Len(t.calls) = 1
      BY <2>2, InputAssumption
    <3>2. t.calls \in Seq(Call)
      BY <3>1 DEF Transaction
    <3> QED BY <3>1, <3>2, SMT
  <2> QED BY <2>1, <2>2
<1> QED BY <1>1, <1>2 DEF EInv, Validated, Covered, CallByCall, NonceSettled,
                          AllOrNothing, Settled

(* Validation ends: the world w the calls start from has the nonce of a    *)
(* CALL advanced and no effect of a call.                                  *)
LEMMA StartEffect ==
  ASSUME IInv, EInv, phase = "validate", NEW w \in World, StartExecution(w),
         DeployAllowed(tx, env),
         w.nonce = IF IsCreate(tx) THEN db.nonce ELSE Advanced,
         w.store = db.store,
         \/ TotalValue(tx) <= w.bal[tx.caller]
         \/ SelfSponsored
         \/ env.simulate /\ tx.sponsor # None
  PROVE  EInv'
<1>1. /\ phase' = "execute" /\ journal' = w /\ checkpoint' = w
      /\ UNCHANGED <<db, tx, env, idx, gas, status>>
  BY DEF StartExecution
<1>2. idx = 1 /\ db \in World
  BY DEF IInv, Admitted, TypeOK
<1>3. Validated'
  BY <1>1 DEF EInv, Validated, DeployAllowed, IsCreate
<1>4. Covered'
  <2>1. idx - 1 = 0 /\ PrefixSums(Values(tx))[0] = 0
    BY <1>2, SumsInFlight, SMT
  <2>2. w.bal[tx.caller] \in Nat
    BY InFlight, WorldNumbers DEF IInv
  <2>3. w.bal[tx.caller] + PrefixSums(Values(tx))[idx - 1] = w.bal[tx.caller]
    BY <2>1, <2>2, SMT
  <2>4. QED
    BY <1>1, <2>3 DEF Covered, SelfSponsored, Simulated
<1>5. CallByCall'
  <2>1. ASSUME NEW a \in Address
        PROVE  w.store[a] = db.store[a] + Cardinality(CallsOn(a, 1))
    <3>1. Cardinality(CallsOn(a, 1)) = 0
      BY CallsOnGrow DEF EInv
    <3>2. db.store[a] \in Nat
      BY <1>2 DEF World
    <3> QED BY <3>1, <3>2, SMT
  <2>2. /\ IsCreate(tx)' = IsCreate(tx) /\ Advanced' = Advanced
        /\ \A a : CallsOn(a, 1)' = CallsOn(a, 1)
    BY <1>1 DEF IsCreate, Advanced, CallsOn
  <2> QED BY <1>1, <1>2, <2>1, <2>2 DEF CallByCall
<1>6. NonceSettled' /\ AllOrNothing'
  BY <1>1 DEF NonceSettled, AllOrNothing, Settled
<1> QED BY <1>3, <1>4, <1>5, <1>6 DEF EInv

(* The nonce a CALL advances before the calls.                             *)
LEMMA PreBumpEffect ==
  ASSUME NEW w \in World, tx.caller \in Address, w.nonce = db.nonce
  PROVE  /\ PreBump(w).nonce = IF IsCreate(tx) THEN db.nonce ELSE Advanced
         /\ PreBump(w).store = w.store
BY BumpNonceEffect, SMT DEF PreBump, Advanced

(* validate_and_deduct_normal_tx: the balance left covers the value.       *)
LEMMA DeductCallerEffect ==
  ASSUME IInv, EInv, DeductCaller
  PROVE  EInv'
<1> DEFINE b == journal.bal[tx.caller]
           c == CallerBalanceAfterFee(b)
           w == SetBalance(journal, tx.caller, c)
<1>1. phase = "validate" /\ journal \in World /\ journal = db
  BY DEF IInv, TypeOK, Admitted, DeductCaller
<1>2. /\ tx.caller \in Address /\ GasCost \in Nat /\ TotalValue(tx) \in Word
      /\ EffectiveSpending = GasCost + TotalValue(tx)
  BY <1>1, InFlight DEF IInv, EffectiveSpending
<1>3. b \in Nat /\ b <= MaxU256
  BY <1>1, <1>2, WorldNumbers
<1>4. TotalValue(tx) \in Nat /\ EffectiveSpending - TotalValue(tx) = GasCost
  BY <1>2, NumberAssumption, SMT DEF Word
<1> HIDE DEF b
<1>5. c \in Word
  BY <1>2, <1>3, <1>4, NumberAssumption, SMT
     DEF CallerBalanceAfterFee, SatSub, MaxOf, Word
<1>6. TotalValue(tx) <= c
  BY <1>2, <1>3, <1>4, SMT DEF DeductCaller, CallerBalanceAfterFee, SatSub, MaxOf, b
<1> HIDE DEF c
<1>7. /\ w \in World /\ w.bal[tx.caller] = c
      /\ w.nonce = db.nonce /\ w.store = db.store
  <2>1. w \in World /\ w.bal = [journal.bal EXCEPT ![tx.caller] = c]
    BY <1>1, <1>2, <1>5, SetBalanceWorld, SMT
  <2>2. w.nonce = db.nonce /\ w.store = db.store
    BY <1>1, <1>2, SetBalanceEffect, WorldFields, SMT
  <2>3. w.bal[tx.caller] = c
    BY <1>1, <1>2, <2>1 DEF World
  <2> QED BY <2>1, <2>2, <2>3
<1>8. StartExecution(PreBump(w))
  BY DEF DeductCaller, w, c, b
<1> HIDE DEF w
<1>9. PreBump(w) \in World /\ PreBump(w).bal = w.bal
  BY <1>2, <1>7, PreBumpWorld
<1>10. /\ PreBump(w).nonce = IF IsCreate(tx) THEN db.nonce ELSE Advanced
       /\ PreBump(w).store = db.store
  BY <1>2, <1>7, PreBumpEffect
<1>11. DeployAllowed(tx, env)
  BY DEF DeductCaller, Refused
<1>12. TotalValue(tx) <= PreBump(w).bal[tx.caller]
  BY <1>6, <1>7, <1>9
<1> QED BY <1>1, <1>8, <1>9, <1>10, <1>11, <1>12, StartEffect

(* validate_and_deduct_sponsored_tx: the fee leaves the caller's balance   *)
(* alone unless the caller is the sponsor.                                 *)
LEMMA DeductSponsorEffect ==
  ASSUME IInv, EInv, DeductSponsor
  PROVE  EInv'
<1> DEFINE c == SponsorBalanceAfterFee(journal.bal[tx.sponsor])
           p == PreBump(journal)
           w == SetBalance(p, tx.sponsor, c)
<1>1. phase = "validate" /\ journal \in World /\ journal = db
  BY DEF IInv, TypeOK, Admitted, DeductSponsor
<1>2. /\ tx.caller \in Address /\ tx.sponsor \in Address
      /\ GasCost \in Word /\ GasCost \in Nat
  BY <1>1, InFlight DEF IInv, DeductSponsor
<1>3. c \in Word
  <2>1. journal.bal[tx.sponsor] \in Nat /\ journal.bal[tx.sponsor] <= MaxU256
    BY <1>1, <1>2, WorldNumbers
  <2> QED BY <1>2, <2>1, NumberAssumption, SMT DEF SponsorBalanceAfterFee, SatSub, MaxOf, Word
<1>4. p \in World /\ p.bal = journal.bal
  BY <1>1, <1>2, PreBumpWorld
<1>5. /\ p.nonce = IF IsCreate(tx) THEN db.nonce ELSE Advanced
      /\ p.store = db.store
  BY <1>1, <1>2, PreBumpEffect
<1>6. StartExecution(w)
  BY DEF DeductSponsor
<1> HIDE DEF c, p
<1>7. w \in World /\ w.bal = [p.bal EXCEPT ![tx.sponsor] = c]
  BY <1>2, <1>3, <1>4, SetBalanceWorld, SMT
<1>8. w.nonce = p.nonce /\ w.store = p.store
  BY <1>2, <1>4, SetBalanceEffect, WorldFields, SMT
<1> HIDE DEF w
<1>9. DeployAllowed(tx, env)
  BY DEF DeductSponsor, Refused
<1>10. \/ TotalValue(tx) <= w.bal[tx.caller]
       \/ SelfSponsored
       \/ env.simulate /\ tx.sponsor # None
  <2>1. env.simulate \/ TotalValue(tx) <= journal.bal[tx.caller]
    BY DEF DeductSponsor, SponsoredFunded
  <2>2. SelfSponsored \/ w.bal[tx.caller] = journal.bal[tx.caller]
    BY <1>1, <1>2, <1>4, <1>7 DEF SelfSponsored, World
  <2>3. tx.sponsor # None
    BY DEF DeductSponsor
  <2> QED BY <2>1, <2>2, <2>3
<1> QED BY <1>1, <1>5, <1>6, <1>7, <1>8, <1>9, <1>10, StartEffect

(* execution, a call that succeeds: one more call has left its effect, and *)
(* after the last one all of them have.                                    *)
LEMMA CallSucceedsEffect ==
  ASSUME IInv, EInv, NEW used \in GasUses, NEW refund \in Refunds,
         CallSucceeds(used, refund)
  PROVE  EInv'
<1>1. /\ phase = "execute" /\ journal' = FrameSuccess(journal)
      /\ UNCHANGED <<db, checkpoint, tx, env>>
      /\ IF idx < Len(tx.calls)
         THEN idx' = idx + 1 /\ phase' = "execute" /\ status' = status
         ELSE phase' = "refund" /\ status' = "success" /\ idx' = idx
  BY DEF CallSucceeds
<1>2. /\ tx.calls \in Seq(Call) /\ idx \in 1 .. Len(tx.calls) /\ Len(tx.calls) \in Nat
      /\ ThisCall.to = Create <=> (idx = 1 /\ IsCreate(tx))
  BY <1>1, CallsInFlight, SMT DEF EInv
<1>3. /\ journal \in World /\ db \in World /\ tx.caller \in Address
  BY <1>1, InFlight DEF IInv, TypeOK
<1>4. phase' \in {"execute", "refund"} /\ idx' \in {idx, idx + 1}
  BY <1>1
<1>5. Validated'
  BY <1>1, <1>4 DEF EInv, Validated, DeployAllowed, IsCreate, Settled
<1>6. Covered'
  <2> SUFFICES ASSUME phase' = "execute" PROVE Covered'
    BY DEF Covered
  <2> DEFINE p == PrefixSums(Values(tx))
             v == ThisCall.value
  <2>1. idx' = idx + 1 /\ idx' - 1 = idx
    BY <1>1, <1>2, SMT
  <2>2. /\ p[idx] = p[idx - 1] + v /\ p[idx - 1] \in Nat /\ v \in Nat
    BY <1>1, SumsInFlight
  <2>3. journal'.bal[tx.caller] = journal.bal[tx.caller] - Paid(tx.caller, tx.caller, v)
          + Paid(tx.caller, Target, v)
    BY <1>1, <1>3, FrameBalances DEF CallSucceeds
  <2>4. journal.bal[tx.caller] \in Nat /\ TotalValue(tx) \in Nat
    <3>1. TotalValue(tx) \in Word
      BY <1>1, InFlight DEF IInv
    <3>2. TotalValue(tx) \in Nat
      BY <3>1, NumberAssumption, SMT DEF Word
    <3>3. QED
      BY <1>3, <3>2, WorldNumbers
  <2> HIDE DEF p, v
  <2>5. journal'.bal[tx.caller] + p[idx] >= journal.bal[tx.caller] + p[idx - 1]
    BY <2>2, <2>3, <2>4, SMT DEF Paid
  <2>6. /\ Values(tx)' = Values(tx) /\ TotalValue(tx)' = TotalValue(tx)
        /\ (SelfSponsored' <=> SelfSponsored) /\ (Simulated' <=> Simulated)
    BY <1>1 DEF Values, TotalValue, SelfSponsored, Simulated
  <2>7. journal'.bal[tx.caller] \in Int
    BY <2>2, <2>3, <2>4, SMT DEF Paid
  <2>8. TotalValue(tx) <= journal.bal[tx.caller] + p[idx - 1] =>
          TotalValue(tx) <= journal'.bal[tx.caller] + p[idx]
    BY <2>2, <2>4, <2>5, <2>7, SMT
  <2>9. QED
    BY <1>1, <2>1, <2>6, <2>8 DEF EInv, Covered, p
<1>7. journal'.nonce = Advanced
  BY <1>1, <1>2, <1>3, FrameEffect DEF EInv, CallByCall, Advanced
<1>8. ASSUME NEW a \in Address
      PROVE  journal'.store[a] = db.store[a] + Cardinality(CallsOn(a, idx + 1))
  <2>1. journal.store[a] = db.store[a] + Cardinality(CallsOn(a, idx))
    BY <1>1 DEF EInv, CallByCall
  <2>2. journal'.store[a] = journal.store[a] + (IF a = Target THEN 1 ELSE 0)
    <3>1. journal'.store = [journal.store EXCEPT ![Target] = journal.store[Target] + 1]
      BY <1>1, FrameEffect
    <3>2. journal.store \in [Address -> Nat]
      BY <1>3 DEF World
    <3> QED BY <3>1, <3>2, SMT
  <2>3. db.store[a] \in Nat
    BY <1>3 DEF World
  <2>4. /\ Cardinality(CallsOn(a, idx)) \in Nat
        /\ Cardinality(CallsOn(a, idx + 1)) =
             Cardinality(CallsOn(a, idx)) + (IF a = Target THEN 1 ELSE 0)
    BY <1>1, CallsOnGrow DEF EInv
  <2> QED BY <2>1, <2>2, <2>3, <2>4, SMT
<1>9. Advanced' = Advanced /\ IsCreate(tx)' = IsCreate(tx)
  BY <1>1 DEF Advanced, IsCreate
<1>10. CallByCall'
  <2> SUFFICES ASSUME phase' = "execute" PROVE CallByCall'
    BY DEF CallByCall
  <2>1. idx' = idx + 1 /\ idx' # 1
    BY <1>1, <1>2, SMT
  <2>2. \A a : CallsOn(a, idx)' = CallsOn(a, idx + 1)
    BY <1>1, <2>1 DEF CallsOn
  <2>3. \A a \in Address : journal'.store[a] = db'.store[a] + Cardinality(CallsOn(a, idx)')
    BY <1>1, <1>8, <2>2
  <2> QED BY <1>1, <1>7, <1>9, <2>1, <2>3 DEF EInv, CallByCall
<1>11. NonceSettled'
  BY <1>7, <1>9 DEF NonceSettled
<1>12. AllOrNothing'
  <2> SUFFICES ASSUME phase' \in Settled PROVE AllOrNothing'
    BY DEF AllOrNothing, Settled
  <2>1. idx = Len(tx.calls) /\ status' = "success"
    BY <1>1, <1>2, SMT DEF Settled
  <2>2. ASSUME NEW a \in Address
        PROVE  journal'.store[a] = db.store[a] +
                 Cardinality({i \in DOMAIN tx.calls : a = Callee(tx.calls[i])})
    BY <1>1, <1>8, <2>1, CallsOnGrow DEF EInv
  <2> QED BY <1>1, <2>1, <2>2 DEF AllOrNothing
<1> QED BY <1>5, <1>6, <1>10, <1>11, <1>12 DEF EInv

(* The world after a failed call: no call has left an effect, and the      *)
(* nonce has moved, except for a CREATE whose value the caller lacks.      *)
LEMMA FailureEffect ==
  ASSUME IInv, EInv, phase = "execute"
  PROVE  /\ \A a \in Address : AfterFailure.store[a] = db.store[a]
         /\ \/ AfterFailure.nonce = Advanced
            \/ /\ IsCreate(tx) /\ ~IsBatch(tx) /\ ~CallIsFunded
               /\ AfterFailure.nonce = db.nonce
               /\ idx = 1
<1>1. journal \in World /\ checkpoint \in World /\ db \in World /\ tx.caller \in Address
  BY InFlight DEF IInv, TypeOK
<1>2. /\ checkpoint.nonce = IF IsCreate(tx) THEN db.nonce ELSE Advanced
      /\ checkpoint.store = db.store
      /\ journal.nonce = IF IsCreate(tx) /\ idx = 1 THEN db.nonce ELSE Advanced
  BY DEF EInv, CallByCall
<1>3. CASE IsBatch(tx) /\ IsCreate(tx)
  <2>1. AfterFailure = BumpNonce(checkpoint, tx.caller)
    BY <1>3 DEF AfterFailure
  <2> QED BY <1>1, <1>2, <1>3, <2>1, BumpNonceEffect, SMT DEF Advanced
<1>4. CASE IsBatch(tx) /\ ~IsCreate(tx)
  <2>1. AfterFailure = checkpoint
    BY <1>4 DEF AfterFailure
  <2> QED BY <1>2, <1>4, <2>1
<1>5. CASE ~IsBatch(tx)
  <2>1. AfterFailure = IF CallIsFunded THEN CreateBump(journal) ELSE journal
    BY <1>5 DEF AfterFailure
  <2>2. idx = 1 /\ (ThisCall.to = Create <=> IsCreate(tx))
    <3>1. /\ idx \in 1 .. Len(tx.calls) /\ Len(tx.calls) = 1
          /\ ThisCall.to = Create <=> (idx = 1 /\ IsCreate(tx))
      BY <1>5, CallsInFlight DEF EInv
    <3>2. idx = 1
      BY <3>1, SMT
    <3> QED BY <3>1, <3>2
  <2>3. \A a \in Address : journal.store[a] = db.store[a]
    <3> TAKE a \in Address
    <3>1. journal.store[a] = db.store[a] + Cardinality(CallsOn(a, 1))
      BY <2>2 DEF EInv, CallByCall
    <3>2. Cardinality(CallsOn(a, 1)) = 0 /\ db.store[a] \in Nat
      BY <1>1, CallsOnGrow DEF EInv, World
    <3> QED BY <3>1, <3>2, SMT
  <2>4. CASE CallIsFunded
    <3>1. AfterFailure = IF IsCreate(tx) THEN BumpNonce(journal, tx.caller) ELSE journal
      BY <2>1, <2>2, <2>4 DEF CreateBump
    <3>2. CASE IsCreate(tx)
      <4>1. /\ AfterFailure.nonce = [journal.nonce EXCEPT ![tx.caller] = journal.nonce[tx.caller] + 1]
            /\ AfterFailure.store = journal.store
        BY <1>1, <3>1, <3>2, BumpNonceEffect
      <4>2. journal.nonce = db.nonce
        BY <1>2, <2>2, <3>2
      <4>3. QED
        BY <2>3, <4>1, <4>2 DEF Advanced
    <3>3. CASE ~IsCreate(tx)
      BY <1>2, <2>3, <3>1, <3>3
    <3>4. QED
      BY <3>2, <3>3
  <2>5. CASE ~CallIsFunded
    BY <1>2, <1>5, <2>1, <2>2, <2>3, <2>5
  <2> QED BY <2>4, <2>5
<1> QED BY <1>3, <1>4, <1>5

(* execution, a call that fails.                                           *)
LEMMA CallFailsEffect ==
  ASSUME IInv, EInv, NEW result \in {"revert", "halt"}, NEW used \in GasUses,
         CallFails(result, used)
  PROVE  EInv'
<1>1. /\ phase = "execute" /\ phase' = "refund" /\ journal' = AfterFailure
      /\ status' = result /\ (~CallIsFunded => result = "revert")
      /\ UNCHANGED <<db, checkpoint, tx, env, idx>>
  BY DEF CallFails
<1>2. Validated'
  BY <1>1 DEF EInv, Validated, DeployAllowed, IsCreate, Settled
<1>3. Covered' /\ CallByCall'
  BY <1>1 DEF Covered, CallByCall
<1>4. Advanced' = Advanced /\ (Simulated' <=> Simulated)
  BY <1>1 DEF Advanced, Simulated
<1>5. ASSUME ~CallIsFunded, idx = 1, ~Simulated
      PROVE  SelfSponsored
  <2>0. journal.bal[tx.caller] \in Nat
    BY <1>1, InFlight, WorldNumbers DEF IInv, TypeOK
  <2>1. TotalValue(tx) <= journal.bal[tx.caller] \/ SelfSponsored
    <3>1. idx - 1 = 0 /\ PrefixSums(Values(tx))[0] = 0
      BY <1>1, <1>5, SumsInFlight, SMT
    <3>2. journal.bal[tx.caller] + PrefixSums(Values(tx))[idx - 1] = journal.bal[tx.caller]
      BY <2>0, <3>1, SMT
    <3>3. QED
      BY <1>1, <1>5, <3>2 DEF EInv, Covered
  <2>2. /\ tx \in Txs /\ env \in Envs /\ idx \in DOMAIN tx.calls
        /\ ThisCall \in Call /\ journal \in World /\ tx.caller \in Address
    BY <1>1, InFlight, SMT DEF IInv, TypeOK, ThisCall
  <2>3. ThisCall.value <= TotalValue(tx) /\ TotalValue(tx) \in Word
    BY <2>2, ValuesOfCalls DEF ThisCall
  <2>4. ThisCall.value \in Nat /\ TotalValue(tx) \in Nat /\ journal.bal[tx.caller] \in Nat
    BY <2>2, <2>3, NumberAssumption, WorldNumbers, SMT DEF Call, Word
  <2>5. ~(ThisCall.value <= journal.bal[tx.caller])
    BY <1>5 DEF CallIsFunded
  <2> QED BY <2>1, <2>3, <2>4, <2>5, SMT
<1>6. NonceSettled'
  BY <1>1, <1>4, <1>5, FailureEffect DEF NonceSettled, SelfSponsored, IsCreate, IsBatch
<1>7. AllOrNothing'
  <2>1. ASSUME NEW a \in Address PROVE journal'.store[a] = db'.store[a] + 0
    <3>1. db.store[a] \in Nat
      BY DEF IInv, TypeOK, World
    <3>2. journal'.store[a] = db.store[a] /\ db' = db
      BY <1>1, FailureEffect
    <3> QED BY <3>1, <3>2, SMT
  <2>2. status' # "success"
    BY <1>1
  <2> QED BY <2>1, <2>2 DEF AllOrNothing
<1> QED BY <1>2, <1>3, <1>6, <1>7 DEF EInv

(* Settlement moves balances only.                                         *)
LEMMA SettlementEffect ==
  ASSUME EInv, phase \in Settled, phase' \in Settled,
         UNCHANGED <<db, tx, env, status>>,
         journal'.nonce = journal.nonce, journal'.store = journal.store
  PROVE  EInv'
<1>1. Validated'
  BY DEF EInv, Validated, DeployAllowed, IsCreate, Settled
<1>2. Covered' /\ CallByCall'
  BY DEF Covered, CallByCall, Settled
<1>3. Advanced' = Advanced /\ (Simulated' <=> Simulated)
  BY DEF Advanced, Simulated, Settled
<1>4. NonceSettled'
  BY <1>3 DEF EInv, NonceSettled, SelfSponsored, IsCreate, IsBatch
<1>5. AllOrNothing'
  BY DEF EInv, AllOrNothing, Settled
<1> QED BY <1>1, <1>2, <1>4, <1>5 DEF EInv

(* reimburse_caller: a credit.                                             *)
LEMMA ReimburseEffect ==
  ASSUME IInv, EInv, ReimburseCaller
  PROVE  EInv'
<1> DEFINE amount == EffectivePrice(tx, env) * (gas.remaining + gas.refunded)
<1>1. /\ phase = "reimburse" /\ phase' = "reward"
      /\ journal' = Credit(journal, Payer, amount)
      /\ UNCHANGED <<db, tx, env, status>>
  BY DEF ReimburseCaller
<1>2. journal \in World /\ Payer \in Address
  BY <1>1, InFlight DEF IInv, TypeOK, Payer
<1> HIDE DEF amount
<1>3. journal'.nonce = journal.nonce /\ journal'.store = journal.store
  BY <1>1, <1>2, CreditEffect
<1> QED BY <1>1, <1>3, SettlementEffect DEF Settled

(* reward_beneficiary: at most two credits.                                *)
LEMMA RewardEffect ==
  ASSUME IInv, EInv, RewardBeneficiary
  PROVE  EInv'
<1> DEFINE fee == env.basefee * SpentSubRefunded
           w == RedirectBaseFee(journal)
<1>1. /\ phase = "reward" /\ phase' = "commit"
      /\ journal' = Credit(w, env.beneficiary, Tip)
      /\ UNCHANGED <<db, tx, env, status>>
  BY DEF RewardBeneficiary
<1>2. /\ journal \in World /\ env.beneficiary \in Address
      /\ env.sink \in Address \cup {None}
  <2>1. journal \in World /\ env \in Environment
    BY <1>1, InFlight DEF IInv, TypeOK
  <2> QED BY <2>1 DEF Environment
<1>3. w = journal \/ (w = Credit(journal, env.sink, fee) /\ env.sink \in Address)
  BY <1>2 DEF RedirectBaseFee
<1>4. /\ w \in World
      /\ w.nonce = journal.nonce /\ w.store = journal.store
  <2>1. fee \in Nat
    <3>1. env.basefee \in Nat /\ SpentSubRefunded \in Nat
      BY <1>1, InFlight, SpentSplit DEF IInv
    <3> QED BY <3>1, SMT
  <2> HIDE DEF fee, w
  <2> QED BY <1>2, <1>3, <2>1, CreditWorld, CreditEffect, SMT
<1> HIDE DEF w
<1>5. journal'.nonce = journal.nonce /\ journal'.store = journal.store
  BY <1>1, <1>2, <1>4, CreditEffect
<1> QED BY <1>1, <1>5, SettlementEffect DEF Settled

(* Execution starts between transactions.                                  *)
LEMMA InitEInv == Init => EInv
BY DEF Init, EInv, Validated, Covered, CallByCall, NonceSettled,
       AllOrNothing, Settled

(* Every step of the handler preserves the invariant.                      *)
LEMMA NextEInv == IInv /\ EInv /\ [Next]_vars => EInv'
<1> SUFFICES ASSUME IInv, EInv, [Next]_vars PROVE EInv'
  OBVIOUS
<1>1. ASSUME NEW t \in Txs, NEW e \in Envs, Begin(t, e) PROVE EInv'
  BY <1>1, BeginEffect
<1>2. ASSUME NEW t \in Txs, NEW e \in Envs, RejectStatic(t, e) PROVE EInv'
  BY <1>2, ReturnEffect DEF RejectStatic, Discard
<1>3. CASE DeductCaller
  BY <1>3, DeductCallerEffect
<1>4. CASE RejectCaller \/ PanicOnOverflow \/ RejectSponsored
  BY <1>4, ReturnEffect DEF RejectCaller, PanicOnOverflow, RejectSponsored, Discard
<1>5. CASE DeductSponsor
  BY <1>5, DeductSponsorEffect
<1>6. ASSUME NEW used \in GasUses, NEW refund \in Refunds,
             CallSucceeds(used, refund)
      PROVE  EInv'
  BY <1>6, CallSucceedsEffect
<1>7. ASSUME NEW result \in {"revert", "halt"}, NEW used \in GasUses,
             CallFails(result, used)
      PROVE  EInv'
  BY <1>7, CallFailsEffect
<1>8. CASE Refund
  BY <1>8, SettlementEffect DEF Refund, Settled
<1>9. CASE ReimburseCaller
  BY <1>9, ReimburseEffect
<1>10. CASE RewardBeneficiary
  BY <1>10, RewardEffect
<1>11. CASE Commit
  BY <1>11, ReturnEffect DEF Commit
<1>12. CASE UNCHANGED vars
  <2>1. Validated' /\ Covered'
    BY <1>12 DEF vars, EInv, Validated, Covered, Settled, DeployAllowed,
                 IsCreate, SelfSponsored, Simulated, TotalValue, Values
  <2>2. CallByCall'
    BY <1>12 DEF vars, EInv, CallByCall, IsCreate, Advanced, CallsOn
  <2>3. NonceSettled'
    BY <1>12 DEF vars, EInv, NonceSettled, Settled, IsCreate, IsBatch, SelfSponsored,
                 Simulated, Advanced
  <2>4. AllOrNothing'
    BY <1>12 DEF vars, EInv, AllOrNothing
  <2> QED BY <2>1, <2>2, <2>3, <2>4 DEF EInv
<1> QED BY <1>1, <1>2, <1>3, <1>4, <1>5, <1>6, <1>7, <1>8, <1>9, <1>10, <1>11,
           <1>12 DEF Next

(* Every state of every execution satisfies the invariant.                 *)
THEOREM EffectInvariance == Spec => []EInv
<1>1. Init => IInv /\ EInv
  BY InitIInv, InitEInv
<1>2. IInv /\ EInv /\ [Next]_vars => IInv' /\ EInv'
  BY NextIInv, NextEInv
<1> QED BY <1>1, <1>2, PTL DEF Spec

(* A batch is atomic: whatever call of it fails, and at whatever place,    *)
(* the checkpoint of the batch path of execution undoes every call before  *)
(* it, and a batch that succeeds has run each call once.                   *)
THEOREM BatchesAreAtomic == Spec => []AllOrNothing
<1>1. EInv => AllOrNothing
  BY DEF EInv
<1> QED BY <1>1, EffectInvariance, PTL

(* The three places that move a nonce (validation, the CREATE frame, the   *)
(* increment after the revert of a batch) move it once between them; the   *)
(* self-sponsored CREATE of NonceAdvancesOnce is the only exception.       *)
THEOREM NonceMovesOnce == Spec => []NonceAdvancesOnce
<1>1. EInv => NonceAdvancesOnce
  BY DEF EInv, NonceSettled, NonceAdvancesOnce, Advanced, Settled
<1> QED BY <1>1, EffectInvariance, PTL

(* The check of the first call alone gates every top-level CREATE, since   *)
(* one can be nothing but the first call.  It says nothing of contracts    *)
(* that a called contract creates, which the handler leaves to anyone.     *)
THEOREM DeploysGated == Spec => []DeploysAreAllowed
<1>1. IInv /\ EInv => DeploysAreAllowed
  <2> SUFFICES ASSUME IInv, EInv, phase # "idle",
                      journal.store[Deployed] # db.store[Deployed],
                      \A i \in DOMAIN tx.calls : tx.calls[i].to # Deployed
               PROVE  \/ env.number < ActivationHeight
                      \/ DeployAllowlist = {}
                      \/ tx.caller \in DeployAllowlist
    BY DEF DeploysAreAllowed
  <2> DEFINE S == {i \in DOMAIN tx.calls : Deployed = Callee(tx.calls[i])}
  <2>1. phase \in Settled \cup {"execute"}
    BY DEF IInv, TypeOK, Admitted, Settled
  <2>2. Deployed \in Address /\ db.store[Deployed] \in Nat
    BY AddressAssumption DEF IInv, TypeOK, World
  <2>3. S # {}
    <3> SUFFICES ASSUME S = {} PROVE FALSE
      OBVIOUS
    <3>1. CallsOn(Deployed, idx) = {}
      BY DEF CallsOn
    <3>2. Cardinality({}) = 0
      BY FS_EmptySet
    <3>3. CASE phase = "execute"
      BY <2>2, <3>1, <3>2, <3>3, SMT DEF EInv, CallByCall
    <3>4. CASE phase \in Settled
      <4>1. journal.store[Deployed] = db.store[Deployed] +
              (IF status = "success" THEN Cardinality(S) ELSE 0)
        BY <2>2, <3>4 DEF EInv, AllOrNothing, Settled
      <4> QED BY <2>2, <3>2, <4>1, SMT
    <3> QED BY <2>1, <3>3, <3>4
  <2>4. PICK i \in DOMAIN tx.calls : Deployed = Callee(tx.calls[i])
    BY <2>3
  <2>5. tx.calls[i].to = Create /\ i = 1
    BY <2>4 DEF Callee, EInv, Validated
  <2>6. IsCreate(tx)
    BY <2>5 DEF IsCreate
  <2> QED BY <2>1, <2>6 DEF EInv, Validated, DeployAllowed
<1> QED BY <1>1, Invariance, EffectInvariance, PTL

(* What validation compares with the caller's balance is enough for every  *)
(* call of the transaction, whoever the calls pay: the two exceptions of   *)
(* ValueIsCovered are fees and values that share a balance, and a total    *)
(* that saturates.                                                         *)
THEOREM ValuesCovered == Spec => []ValueIsCovered
<1>1. IInv /\ EInv => ValueIsCovered
  <2> SUFFICES ASSUME IInv, EInv, phase = "execute", ~SelfSponsored,
                      ~(Simulated /\ tx.sponsor # None),
                      ~(SumOf(Values(tx)) > MaxU256)
               PROVE  CallIsFunded
    BY DEF ValueIsCovered
  <2> DEFINE p == PrefixSums(Values(tx))
             b == journal.bal[tx.caller]
             v == ThisCall.value
  <2>1. tx \in Txs /\ b \in Nat /\ MaxU256 \in Nat
    BY InFlight, WorldNumbers, NumberAssumption DEF IInv, TypeOK
  <2>2. SumOf(Values(tx)) \in Nat /\ TotalValue(tx) = SumOf(Values(tx))
    BY <2>1, ValuesOfCalls, SMT
  <2>3. /\ p[idx - 1] \in Nat /\ v \in Nat /\ p[idx] = p[idx - 1] + v
        /\ p[idx] <= SumOf(Values(tx))
    BY SumsInFlight
  <2>4. SumOf(Values(tx)) <= b + p[idx - 1]
    BY <2>2 DEF EInv, Covered
  <2> HIDE DEF p, b, v
  <2>5. v <= b
    BY <2>1, <2>2, <2>3, <2>4, SMT
  <2>6. QED
    BY <2>5 DEF CallIsFunded, b, v
<1>2. QED
  BY <1>1, Invariance, EffectInvariance, PTL

-----------------------------------------------------------------------------
(* The ledger.                                                             *)

(* What a transaction in flight pays and moves is made of numbers.         *)
LEMMA LedgerNumbers ==
  ASSUME IInv, phase # "idle", NEW a \in Address
  PROVE  /\ db.bal[a] \in Nat /\ journal.bal[a] \in Nat /\ checkpoint.bal[a] \in Nat
         /\ SumOf(Values(tx)) \in Nat /\ SumOf(Gains(a)) \in Nat
         /\ Moved(a) \in Int
         /\ GasCost \in Nat
<1>1. db.bal[a] \in Nat /\ journal.bal[a] \in Nat /\ checkpoint.bal[a] \in Nat
  BY WorldNumbers DEF IInv, TypeOK
<1>2. Values(tx) \in Seq(Nat) /\ Gains(a) \in Seq(Nat)
  BY SumsInFlight
<1>3. SumOf(Values(tx)) \in Nat /\ SumOf(Gains(a)) \in Nat
  BY <1>2, PrefixSumsGrow
<1>4. Moved(a) \in Int
  BY <1>3, SMT DEF Moved, Paid
<1>5. GasCost \in Nat
  BY InFlight DEF IInv
<1>6. QED
  BY <1>1, <1>3, <1>4, <1>5

(* Between transactions and before execution there is no entry.            *)
LEMMA NoEntry ==
  ASSUME phase' \in {"idle", "validate"}
  PROVE  Ledger'
BY DEF Ledger

(* The fee is deducted from the payer alone.                               *)
LEMMA StartLedger ==
  ASSUME IInv, phase = "validate", NEW w \in World, StartExecution(w),
         ~env.simulate =>
           \A a \in Address : w.bal[a] = db.bal[a] - Paid(a, Payer, GasCost)
  PROVE  Ledger'
<1>1. /\ phase' = "execute" /\ journal' = w /\ checkpoint' = w
      /\ UNCHANGED <<db, tx, env, idx>>
  BY DEF StartExecution
<1>2. idx = 1
  BY DEF IInv, Admitted
<1>3. /\ Values(tx)' = Values(tx) /\ \A a : Gains(a)' = Gains(a)
      /\ Payer' = Payer /\ GasCost' = GasCost /\ (Simulated' <=> env.simulate)
  BY <1>1 DEF Values, Gains, Payer, GasCost, Simulated
<1>4. ASSUME NEW a \in Address, ~env.simulate
      PROVE  /\ w.bal[a] = db.bal[a] - Paid(a, Payer, GasCost)
             /\ w.bal[a] = w.bal[a] - Paid(a, tx.caller, PrefixSums(Values(tx))[idx - 1])
                  + PrefixSums(Gains(a))[idx - 1]
  <2>1. w.bal[a] \in Nat
    BY WorldNumbers
  <2>2. PrefixSums(Values(tx))[0] = 0 /\ PrefixSums(Gains(a))[0] = 0 /\ idx - 1 = 0
    BY <1>2, SumsInFlight, SMT
  <2>3. QED
    BY <1>4, <2>1, <2>2, SMT DEF Paid
<1>5. QED
  BY <1>1, <1>3, <1>4 DEF Ledger

(* validate_and_deduct_normal_tx: the caller is the payer.                 *)
LEMMA DeductCallerLedger ==
  ASSUME IInv, DeductCaller
  PROVE  Ledger'
<1> DEFINE b == journal.bal[tx.caller]
           c == CallerBalanceAfterFee(b)
           w == SetBalance(journal, tx.caller, c)
<1>1. phase = "validate" /\ journal \in World /\ journal = db /\ tx.sponsor = None
  BY DEF IInv, TypeOK, Admitted, DeductCaller
<1>2. /\ tx.caller \in Address /\ GasCost \in Nat /\ TotalValue(tx) \in Word
      /\ EffectiveSpending = GasCost + TotalValue(tx)
  BY <1>1, InFlight DEF IInv, EffectiveSpending
<1>3. b \in Nat /\ b <= MaxU256
  BY <1>1, <1>2, WorldNumbers
<1>4. TotalValue(tx) \in Nat /\ EffectiveSpending - TotalValue(tx) = GasCost
  BY <1>2, NumberAssumption, SMT DEF Word
<1> HIDE DEF b
<1>5. c \in Word
  BY <1>2, <1>3, <1>4, NumberAssumption, SMT
     DEF CallerBalanceAfterFee, SatSub, MaxOf, Word
<1>6. ASSUME ~env.simulate
      PROVE  c = b - GasCost
  BY <1>2, <1>3, <1>4, <1>6, SMT DEF DeductCaller, CallerBalanceAfterFee, SatSub, b
<1> HIDE DEF c
<1>7. w \in World /\ w.bal = [journal.bal EXCEPT ![tx.caller] = c]
  BY <1>1, <1>2, <1>5, SetBalanceWorld, SMT
<1>8. StartExecution(PreBump(w))
  BY DEF DeductCaller, w, c, b
<1> HIDE DEF w
<1>9. PreBump(w) \in World /\ PreBump(w).bal = w.bal
  BY <1>2, <1>7, PreBumpWorld
<1>10. ASSUME ~env.simulate, NEW a \in Address
       PROVE  w.bal[a] = db.bal[a] - Paid(a, Payer, GasCost)
  <2>1. Payer = tx.caller /\ db.bal[a] \in Nat
    BY <1>1, LedgerNumbers DEF Payer
  <2>2. w.bal[a] = IF a = tx.caller THEN c ELSE db.bal[a]
    BY <1>1, <1>7 DEF World
  <2>3. QED
    BY <1>1, <1>2, <1>6, <1>10, <2>1, <2>2, SMT DEF Paid, b
<1>11. QED
  BY <1>1, <1>8, <1>9, <1>10, StartLedger

(* validate_and_deduct_sponsored_tx: the sponsor is the payer.             *)
LEMMA DeductSponsorLedger ==
  ASSUME IInv, DeductSponsor
  PROVE  Ledger'
<1> DEFINE b == journal.bal[tx.sponsor]
           c == SponsorBalanceAfterFee(b)
           p == PreBump(journal)
           w == SetBalance(p, tx.sponsor, c)
<1>1. phase = "validate" /\ journal \in World /\ journal = db /\ tx.sponsor # None
  BY DEF IInv, TypeOK, Admitted, DeductSponsor
<1>2. /\ tx.caller \in Address /\ tx.sponsor \in Address
      /\ GasCost \in Word /\ GasCost \in Nat
      /\ GasCost <= MaxGasCost /\ MaxGasCost \in Nat
  BY <1>1, InFlight DEF IInv
<1>3. b \in Nat /\ b <= MaxU256
  BY <1>1, <1>2, WorldNumbers
<1> HIDE DEF b
<1>4. c \in Word
  BY <1>2, <1>3, NumberAssumption, SMT DEF SponsorBalanceAfterFee, SatSub, MaxOf, Word
<1>5. ASSUME ~env.simulate
      PROVE  c = b - GasCost
  <2>1. MaxGasCost <= b
    BY <1>5 DEF DeductSponsor, SponsoredFunded, b
  <2>2. QED
    BY <1>2, <1>3, <1>5, <2>1, SMT DEF SponsorBalanceAfterFee, SatSub
<1> HIDE DEF c
<1>6. p \in World /\ p.bal = journal.bal
  BY <1>1, <1>2, PreBumpWorld
<1> HIDE DEF p
<1>7. w \in World /\ w.bal = [p.bal EXCEPT ![tx.sponsor] = c]
  BY <1>2, <1>4, <1>6, SetBalanceWorld, SMT
<1>8. StartExecution(w)
  BY DEF DeductSponsor, w, c, p, b
<1> HIDE DEF w
<1>9. ASSUME ~env.simulate, NEW a \in Address
      PROVE  w.bal[a] = db.bal[a] - Paid(a, Payer, GasCost)
  <2>1. Payer = tx.sponsor /\ db.bal[a] \in Nat
    BY <1>1, LedgerNumbers DEF Payer
  <2>2. w.bal[a] = IF a = tx.sponsor THEN c ELSE db.bal[a]
    BY <1>1, <1>6, <1>7 DEF World
  <2>3. QED
    BY <1>1, <1>2, <1>5, <1>9, <2>1, <2>2, SMT DEF Paid, b
<1>10. QED
  BY <1>1, <1>7, <1>8, <1>9, StartLedger

(* execution, a call that succeeds: one more value is with its callee.     *)
LEMMA CallSucceedsLedger ==
  ASSUME IInv, Ledger, NEW used \in GasUses, NEW refund \in Refunds,
         CallSucceeds(used, refund)
  PROVE  Ledger'
<1>1. /\ phase = "execute" /\ journal' = FrameSuccess(journal)
      /\ CallIsFunded /\ ~TransferOverflows
      /\ UNCHANGED <<db, checkpoint, tx, env>>
      /\ IF idx < Len(tx.calls)
         THEN idx' = idx + 1 /\ phase' = "execute" /\ status' = status
         ELSE phase' = "refund" /\ status' = "success" /\ idx' = idx
  BY DEF CallSucceeds
<1>2. idx \in 1 .. Len(tx.calls) /\ Len(tx.calls) \in Nat
  BY <1>1, InFlight, SMT DEF IInv
<1>3. /\ Values(tx)' = Values(tx) /\ \A a : Gains(a)' = Gains(a)
      /\ Payer' = Payer /\ GasCost' = GasCost /\ (Simulated' <=> Simulated)
  BY <1>1 DEF Values, Gains, Payer, GasCost, Simulated
<1>4. ASSUME NEW a \in Address, ~Simulated
      PROVE  /\ checkpoint.bal[a] = db.bal[a] - Paid(a, Payer, GasCost)
             /\ journal'.bal[a] = checkpoint.bal[a]
                  - Paid(a, tx.caller, PrefixSums(Values(tx))[idx])
                  + PrefixSums(Gains(a))[idx]
  <2> DEFINE p == PrefixSums(Values(tx))
             g == PrefixSums(Gains(a))
             v == ThisCall.value
  <2>1. /\ checkpoint.bal[a] = db.bal[a] - Paid(a, Payer, GasCost)
        /\ journal.bal[a] = checkpoint.bal[a] - Paid(a, tx.caller, p[idx - 1]) + g[idx - 1]
    BY <1>1, <1>4 DEF Ledger
  <2>2. journal'.bal[a] = journal.bal[a] - Paid(a, tx.caller, v) + Paid(a, Target, v)
    BY <1>1, FrameBalances
  <2>3. /\ p[idx] = p[idx - 1] + v /\ g[idx] = g[idx - 1] + Paid(a, Target, v)
        /\ p[idx - 1] \in Nat /\ g[idx - 1] \in Nat /\ v \in Nat
    BY <1>1, SumsInFlight
  <2>4. checkpoint.bal[a] \in Nat
    BY <1>1, LedgerNumbers
  <2> HIDE DEF p, g, v
  <2>5. journal'.bal[a] = checkpoint.bal[a] - Paid(a, tx.caller, p[idx]) + g[idx]
    BY <2>1, <2>2, <2>3, <2>4, SMT DEF Paid
  <2>6. QED
    BY <2>1, <2>5 DEF p, g
<1>5. CASE idx < Len(tx.calls)
  <2>1. phase' = "execute" /\ idx' - 1 = idx
    BY <1>1, <1>2, <1>5, SMT
  <2>2. QED
    BY <1>1, <1>3, <1>4, <2>1 DEF Ledger
<1>6. CASE ~(idx < Len(tx.calls))
  <2>1. phase' = "refund" /\ status' = "success" /\ idx = Len(tx.calls)
    BY <1>1, <1>2, <1>6, SMT
  <2>2. ASSUME NEW a \in Address, ~Simulated
        PROVE  journal'.bal[a] = db.bal[a] - Paid(a, Payer, GasCost)
                 + (SumOf(Gains(a)) - Paid(a, tx.caller, SumOf(Values(tx))))
    <3>1. /\ PrefixSums(Values(tx))[idx] = SumOf(Values(tx))
          /\ PrefixSums(Gains(a))[idx] = SumOf(Gains(a))
      BY <1>1, <2>1, SumsInFlight DEF SumOf
    <3>2. /\ db.bal[a] \in Nat /\ SumOf(Values(tx)) \in Nat /\ SumOf(Gains(a)) \in Nat
          /\ GasCost \in Nat
      BY <1>1, LedgerNumbers
    <3>3. Paid(a, Payer, GasCost) \in Nat /\ Paid(a, tx.caller, SumOf(Values(tx))) \in Nat
      BY <3>2 DEF Paid
    <3>4. /\ checkpoint.bal[a] = db.bal[a] - Paid(a, Payer, GasCost)
          /\ journal'.bal[a] = checkpoint.bal[a]
               - Paid(a, tx.caller, SumOf(Values(tx))) + SumOf(Gains(a))
      BY <1>4, <2>2, <3>1
    <3>5. QED
      BY <3>2, <3>3, <3>4, SMT
  <2>3. \A a : Moved(a)' = SumOf(Gains(a)) - Paid(a, tx.caller, SumOf(Values(tx)))
    BY <1>1, <1>3, <2>1 DEF Moved
  <2>4. QED
    BY <1>1, <1>3, <2>1, <2>2, <2>3 DEF Ledger
<1>7. QED
  BY <1>5, <1>6

(* execution, a call that fails: what the calls moved is undone.           *)
LEMMA CallFailsLedger ==
  ASSUME IInv, EInv, Ledger, NEW result \in {"revert", "halt"}, NEW used \in GasUses,
         CallFails(result, used)
  PROVE  Ledger'
<1>1. /\ phase = "execute" /\ phase' = "refund" /\ journal' = AfterFailure
      /\ status' = result /\ UNCHANGED <<db, checkpoint, tx, env, idx>>
  BY DEF CallFails
<1>2. /\ Payer' = Payer /\ GasCost' = GasCost /\ (Simulated' <=> Simulated)
      /\ \A a : Moved(a)' = 0
  BY <1>1 DEF Payer, GasCost, Simulated, Moved
<1>3. ASSUME NEW a \in Address, ~Simulated
      PROVE  AfterFailure.bal[a] = checkpoint.bal[a]
  <2>1. journal \in World /\ checkpoint \in World /\ tx.caller \in Address
    BY <1>1, InFlight DEF IInv, TypeOK
  <2>2. CASE IsBatch(tx)
    BY <2>1, <2>2, BumpNonceWorld DEF AfterFailure
  <2>3. CASE ~IsBatch(tx)
    <3>1. AfterFailure = IF CallIsFunded THEN CreateBump(journal) ELSE journal
      BY <2>3 DEF AfterFailure
    <3>2. AfterFailure.bal = journal.bal
      BY <2>1, <3>1, BumpNonceWorld DEF CreateBump
    <3>3. idx = 1
      <4>1. idx \in 1 .. Len(tx.calls) /\ Len(tx.calls) = 1
        BY <1>1, <2>3, CallsInFlight DEF EInv
      <4>2. QED
        BY <4>1, SMT
    <3>4. /\ journal.bal[a] = checkpoint.bal[a]
               - Paid(a, tx.caller, PrefixSums(Values(tx))[idx - 1])
               + PrefixSums(Gains(a))[idx - 1]
      BY <1>1, <1>3 DEF Ledger
    <3>5. PrefixSums(Values(tx))[0] = 0 /\ PrefixSums(Gains(a))[0] = 0
      BY <1>1, SumsInFlight
    <3>6. checkpoint.bal[a] \in Nat
      BY <1>1, LedgerNumbers
    <3>7. Paid(a, tx.caller, 0) = 0
      BY DEF Paid
    <3>8. idx - 1 = 0
      BY <3>3, SMT
    <3>9. journal.bal[a] = checkpoint.bal[a] - 0 + 0
      BY <3>4, <3>5, <3>7, <3>8
    <3>10. QED
      BY <3>2, <3>6, <3>9, SMT
  <2>4. QED
    BY <2>2, <2>3
<1>4. ASSUME NEW a \in Address, ~Simulated
      PROVE  journal'.bal[a] = db.bal[a] - Paid(a, Payer, GasCost) + 0
  <2>1. checkpoint.bal[a] = db.bal[a] - Paid(a, Payer, GasCost)
    BY <1>1, <1>4 DEF Ledger
  <2>2. checkpoint.bal[a] \in Nat
    BY <1>1, LedgerNumbers
  <2>3. QED
    BY <1>1, <1>3, <1>4, <2>1, <2>2, SMT
<1>5. QED
  BY <1>1, <1>2, <1>4 DEF Ledger

(* A credit that fits the supply of a word adds to one account.            *)
LEMMA CreditBalances ==
  ASSUME NEW w \in World, NEW who \in Address, NEW amount \in Nat,
         Supply(w.bal) + amount <= MaxU256
  PROVE  \A a \in Address : Credit(w, who, amount).bal[a] = w.bal[a] + Paid(a, who, amount)
<1> DEFINE b == SatAdd(w.bal[who], amount)
<1>1. w.bal[who] \in Nat /\ w.bal[who] <= Supply(w.bal) /\ Supply(w.bal) \in Nat
  BY WorldNumbers
<1>2. b = w.bal[who] + amount /\ b \in Word
  BY <1>1, NumberAssumption, SMT DEF SatAdd, Word
<1>3. Credit(w, who, amount) = SetBalance(w, who, b)
  BY DEF Credit
<1> HIDE DEF b
<1>4. Credit(w, who, amount).bal = [w.bal EXCEPT ![who] = b]
  BY <1>2, <1>3, SetBalanceWorld, SMT
<1> TAKE a \in Address
<1>5. w.bal[a] \in Nat
  BY WorldNumbers
<1>6. Credit(w, who, amount).bal[a] = IF a = who THEN b ELSE w.bal[a]
  BY <1>4 DEF World
<1>7. QED
  BY <1>2, <1>5, <1>6, SMT DEF Paid

(* reimburse_caller: the payer keeps back the gas that was not spent.      *)
LEMMA ReimburseLedger ==
  ASSUME IInv, Ledger, ReimburseCaller
  PROVE  Ledger'
<1> DEFINE back == EffectivePrice(tx, env) * (gas.remaining + gas.refunded)
           fee == EffectivePrice(tx, env) * SpentSubRefunded
<1>1. /\ phase = "reimburse" /\ phase' = "reward" /\ journal' = Credit(journal, Payer, back)
      /\ UNCHANGED <<db, tx, env, gas, status>>
  BY DEF ReimburseCaller
<1>2. /\ Payer' = Payer /\ fee' = fee /\ (Simulated' <=> Simulated)
      /\ \A a : Moved(a)' = Moved(a)
  BY <1>1 DEF Payer, Simulated, Moved, Gains, Values, SpentSubRefunded, Spent
<1>3. back \in Nat /\ fee \in Nat /\ GasCost = fee + back
  BY <1>1, SpentSplit
<1>4. journal \in World /\ db \in World /\ Payer \in Address
  BY <1>1, InFlight DEF IInv, TypeOK, Payer
<1>5. Supply(journal.bal) \in Nat
  BY <1>4, WorldNumbers
<1>6. Held = GasCost
  BY <1>1 DEF Held
<1> HIDE DEF back, fee
<1>7. ASSUME ~Simulated
      PROVE  Supply(journal.bal) + back <= MaxU256
  <2>1. Supply(journal.bal) + GasCost <= MaxU256
    BY <1>6, <1>7 DEF IInv, Conservation, Backed
  <2>2. QED
    BY <1>3, <1>5, <2>1, NumberAssumption, SMT
<1>8. ASSUME NEW a \in Address, ~Simulated
      PROVE  journal'.bal[a] = db.bal[a] - Paid(a, Payer, fee) + Moved(a)
  <2>1. journal'.bal[a] = journal.bal[a] + Paid(a, Payer, back)
    BY <1>1, <1>3, <1>4, <1>7, <1>8, CreditBalances
  <2>2. journal.bal[a] = db.bal[a] - Paid(a, Payer, GasCost) + Moved(a)
    BY <1>1, <1>8 DEF Ledger
  <2>3. db.bal[a] \in Nat /\ Moved(a) \in Int
    BY <1>1, LedgerNumbers
  <2>4. QED
    BY <1>3, <2>1, <2>2, <2>3, SMT DEF Paid
<1>9. QED
  BY <1>1, <1>2, <1>8 DEF Ledger, fee

(* reward_beneficiary: the sink has the base fee, the beneficiary the tip. *)
LEMMA RewardLedger ==
  ASSUME IInv, Ledger, RewardBeneficiary
  PROVE  Ledger'
<1> DEFINE fee == EffectivePrice(tx, env) * SpentSubRefunded
           base == env.basefee * SpentSubRefunded
           w == RedirectBaseFee(journal)
<1>1. /\ phase = "reward" /\ phase' = "commit" /\ journal' = Credit(w, env.beneficiary, Tip)
      /\ UNCHANGED <<db, tx, env, gas, status>>
  BY DEF RewardBeneficiary
<1>2. /\ Payer' = Payer /\ fee' = fee /\ base' = base /\ Tip' = Tip
      /\ (Simulated' <=> Simulated) /\ \A a : Moved(a)' = Moved(a)
  BY <1>1 DEF Payer, Simulated, Moved, Gains, Values, SpentSubRefunded, Spent, Tip
<1>3. base \in Nat /\ Tip \in Nat /\ fee = base + Tip
  BY <1>1, FeeSplit
<1>4. /\ journal \in World /\ db \in World /\ env.beneficiary \in Address
      /\ env.sink \in Address \cup {None}
  <2>1. journal \in World /\ db \in World /\ env \in Environment
    BY <1>1, InFlight DEF IInv, TypeOK
  <2>2. QED
    BY <2>1 DEF Environment
<1>5. Supply(journal.bal) \in Nat
  BY <1>4, WorldNumbers
<1>6. Held = fee
  BY <1>1 DEF Held
<1>7. \/ w = journal /\ (env.sink = None \/ base = 0)
      \/ w = Credit(journal, env.sink, base) /\ env.sink \in Address
  <2>1. CASE env.sink # None /\ SpentSubRefunded # 0
    BY <1>4, <2>1 DEF RedirectBaseFee
  <2>2. CASE env.sink = None
    BY <2>2 DEF RedirectBaseFee
  <2>3. CASE SpentSubRefunded = 0
    <3>1. env.basefee \in Nat
      BY <1>1, InFlight DEF IInv
    <3>2. QED
      BY <2>3, <3>1, SMT DEF RedirectBaseFee
  <2>4. QED
    BY <2>1, <2>2, <2>3
<1> HIDE DEF fee, base, w
<1>8. ASSUME ~Simulated
      PROVE  Supply(journal.bal) + base + Tip <= MaxU256
  <2>1. Supply(journal.bal) + fee <= MaxU256
    BY <1>6, <1>8 DEF IInv, Conservation, Backed
  <2>2. QED
    BY <1>3, <1>5, <2>1, NumberAssumption, SMT
<1>9. ASSUME ~Simulated
      PROVE  /\ w \in World /\ Supply(w.bal) + Tip <= MaxU256
             /\ \A a \in Address : w.bal[a] = journal.bal[a] + Paid(a, env.sink, base)
  <2>1. CASE w = journal /\ (env.sink = None \/ base = 0)
    <3>1. Supply(w.bal) + Tip <= MaxU256
      BY <1>3, <1>5, <1>8, <1>9, <2>1, NumberAssumption, SMT
    <3>2. ASSUME NEW a \in Address
          PROVE  Paid(a, env.sink, base) = 0 /\ journal.bal[a] \in Nat
      BY <1>4, <2>1, AddressAssumption, WorldNumbers DEF Paid
    <3>3. QED
      BY <1>4, <2>1, <3>1, <3>2, SMT
  <2>2. CASE w = Credit(journal, env.sink, base) /\ env.sink \in Address
    <3>1. Supply(journal.bal) + base <= MaxU256
      BY <1>3, <1>5, <1>8, <1>9, NumberAssumption, SMT
    <3>2. w \in World /\ Supply(w.bal) = Supply(journal.bal) + base
      BY <1>3, <1>4, <2>2, <3>1, CreditWorld
    <3>3. Supply(w.bal) + Tip <= MaxU256
      BY <1>8, <1>9, <3>2
    <3>4. \A a \in Address : w.bal[a] = journal.bal[a] + Paid(a, env.sink, base)
      BY <1>3, <1>4, <2>2, <3>1, CreditBalances, SMT
    <3>5. QED
      BY <3>2, <3>3, <3>4
  <2>3. QED
    BY <1>7, <2>1, <2>2
<1>10. ASSUME NEW a \in Address, ~Simulated
       PROVE  journal'.bal[a] = db.bal[a] - Paid(a, Payer, fee) + Moved(a)
                + Paid(a, env.sink, base) + Paid(a, env.beneficiary, Tip)
  <2>1. /\ journal'.bal[a] = w.bal[a] + Paid(a, env.beneficiary, Tip)
        /\ w.bal[a] = journal.bal[a] + Paid(a, env.sink, base)
    <3>1. /\ w \in World /\ Supply(w.bal) + Tip <= MaxU256 /\ Tip \in Nat
          /\ env.beneficiary \in Address /\ journal' = Credit(w, env.beneficiary, Tip)
      BY <1>1, <1>3, <1>4, <1>9, <1>10
    <3>2. \A x \in Address : journal'.bal[x] = w.bal[x] + Paid(x, env.beneficiary, Tip)
      BY <3>1, CreditBalances, SMT
    <3>3. QED
      BY <1>9, <1>10, <3>2
  <2>2. journal.bal[a] = db.bal[a] - Paid(a, Payer, fee) + Moved(a)
    BY <1>1, <1>10 DEF Ledger, fee
  <2>3. QED
    BY <2>1, <2>2
<1>11. QED
  BY <1>1, <1>2, <1>10 DEF Ledger, fee, base

(* Every step keeps the ledger.                                            *)
LEMMA NextLedger == IInv /\ EInv /\ Ledger /\ [Next]_vars => Ledger'
<1> SUFFICES ASSUME IInv, EInv, Ledger, [Next]_vars PROVE Ledger'
  OBVIOUS
<1>1. ASSUME NEW t \in Txs, NEW e \in Envs, Begin(t, e) PROVE Ledger'
  BY <1>1, NoEntry DEF Begin
<1>2. ASSUME NEW t \in Txs, NEW e \in Envs, RejectStatic(t, e) PROVE Ledger'
  BY <1>2, NoEntry DEF RejectStatic, Discard, Return
<1>3. CASE DeductCaller
  BY <1>3, DeductCallerLedger
<1>4. CASE RejectCaller \/ PanicOnOverflow \/ RejectSponsored \/ Commit
  BY <1>4, NoEntry DEF RejectCaller, PanicOnOverflow, RejectSponsored, Commit, Discard, Return
<1>5. CASE DeductSponsor
  BY <1>5, DeductSponsorLedger
<1>6. ASSUME NEW used \in GasUses, NEW refund \in Refunds,
             CallSucceeds(used, refund)
      PROVE  Ledger'
  BY <1>6, CallSucceedsLedger
<1>7. ASSUME NEW result \in {"revert", "halt"}, NEW used \in GasUses,
             CallFails(result, used)
      PROVE  Ledger'
  BY <1>7, CallFailsLedger
<1>8. CASE Refund
  BY <1>8, SMT DEF Refund, Ledger, Simulated, Payer, GasCost, Moved, Gains, Values
<1>9. CASE ReimburseCaller
  BY <1>9, ReimburseLedger
<1>10. CASE RewardBeneficiary
  BY <1>10, RewardLedger
<1>11. CASE UNCHANGED vars
  <2>1. /\ phase' = phase /\ db' = db /\ journal' = journal /\ checkpoint' = checkpoint
        /\ tx' = tx /\ env' = env /\ idx' = idx
    BY <1>11 DEF vars
  <2>2. /\ Payer' = Payer /\ GasCost' = GasCost /\ (Simulated' <=> Simulated)
        /\ Values(tx)' = Values(tx) /\ \A a : Gains(a)' = Gains(a)
    BY <2>1 DEF Simulated, Payer, GasCost, Gains, Values
  <2>3. \A a : Moved(a)' = Moved(a)
    BY <1>11, <2>2 DEF vars, Moved
  <2>4. SpentSubRefunded' = SpentSubRefunded /\ Tip' = Tip
    BY <1>11 DEF vars, SpentSubRefunded, Spent, Tip
  <2>5. QED
    BY <2>1, <2>2, <2>3, <2>4 DEF Ledger
<1>12. QED
  BY <1>1, <1>2, <1>3, <1>4, <1>5, <1>6, <1>7, <1>8, <1>9, <1>10, <1>11 DEF Next

(* The ledger of every committed transaction is exact, account by account, *)
(* whatever the calls, the prices and the overlaps of caller, callee,      *)
(* sponsor, sink and beneficiary: the payer is out the effective price of  *)
(* the gas spent, the caller the values if and only if every call          *)
(* succeeded, each callee has its values, the sink the base fee and the    *)
(* beneficiary the tip.                                                    *)
THEOREM SettledExactly == Spec => []SettlementIsExact
<1>1. Init => Ledger
  BY DEF Init, Ledger
<1>2. IInv /\ Ledger => SettlementIsExact
  <2>1. SUFFICES ASSUME IInv, Ledger, phase = "commit", ~Simulated, NEW a \in Address
                 PROVE  journal.bal[a] =
                          db.bal[a]
                          - Paid(a, Payer, EffectivePrice(tx, env) * SpentSubRefunded)
                          - Paid(a, tx.caller, IF status = "success" THEN SumOf(Values(tx)) ELSE 0)
                          + (IF status = "success" THEN SumOf(Gains(a)) ELSE 0)
                          + Paid(a, env.sink, env.basefee * SpentSubRefunded)
                          + Paid(a, env.beneficiary, Tip)
    BY DEF SettlementIsExact, Payer
  <2> DEFINE fee == Paid(a, Payer, EffectivePrice(tx, env) * SpentSubRefunded)
             base == Paid(a, env.sink, env.basefee * SpentSubRefunded)
             tip == Paid(a, env.beneficiary, Tip)
             v == SumOf(Values(tx))
             g == SumOf(Gains(a))
             in == IF status = "success" THEN g ELSE 0
             out == Paid(a, tx.caller, IF status = "success" THEN v ELSE 0)
  <2>2. journal.bal[a] = db.bal[a] - fee + Moved(a) + base + tip
    BY <2>1 DEF Ledger
  <2>3. /\ db.bal[a] \in Nat /\ v \in Nat /\ g \in Nat
    BY <2>1, LedgerNumbers
  <2>4. /\ EffectivePrice(tx, env) * SpentSubRefunded \in Nat
        /\ env.basefee * SpentSubRefunded \in Nat /\ Tip \in Nat
    BY <2>1, SpentSplit, FeeSplit
  <2>5. fee \in Nat /\ base \in Nat /\ tip \in Nat
    BY <2>4 DEF Paid
  <2>6. in \in Nat /\ out \in Nat
    BY <2>3 DEF Paid
  <2>7. Moved(a) = in - out
    BY <2>3, SMT DEF Moved, Paid
  <2> HIDE DEF fee, base, tip, in, out
  <2>8. journal.bal[a] = db.bal[a] - fee - out + in + base + tip
    BY <2>2, <2>3, <2>5, <2>6, <2>7, SMT
  <2>9. QED
    BY <2>8 DEF fee, base, tip, in, out
<1>3. QED
  BY <1>1, <1>2, NextLedger, Invariance, EffectInvariance, PTL DEF Spec

=============================================================================
