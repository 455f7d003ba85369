--------------------------- MODULE TreasuryProofs ---------------------------
(***************************************************************************)
(* Theorems of the native token, the fee vault and their admin proxy, for  *)
(* any accounts, word size, shares, calls and batches.                     *)
(*                                                                         *)
(* Every operation of the model is a function from a world to a result.    *)
(* The proofs show of each what Steps says: the books are balanced, and    *)
(* the allowlist changes only for the accounts named; a transaction is a   *)
(* composition of such steps.                                              *)
(***************************************************************************)
EXTENDS Treasury, IteratorsProofs, FiniteSetTheorems, TLAPS

(* Most steps are first-order reasoning, which Zenon does; those with      *)
(* arithmetic, records or sequences name SMT.                              *)
USE Zenon

Amount == 0 .. MaxWord

Balances == [Addr -> Amount]

World ==
  [bal : Balances, marked : BOOLEAN, allow : SUBSET Addr, existed : BOOLEAN,
   touched : BOOLEAN, paid : BOOLEAN, minted : Nat, burned : Nat,
   proxy : [owner : Addr, pending : Addr],
   vault : [owner : Addr, bridge : Addr, other : Addr, minimum : Nat, fee : Nat,
            share : 0 .. FullShare]]

Result == [ok : BOOLEAN, w : World]

(* From the world u to the world v: wei are created and destroyed by mint  *)
(* and burn alone, the allowlist changes for nobody outside S, and the     *)
(* precompile's account stays marked and stays paid.                       *)
Steps(u, v, S) ==
  /\ v \in World
  /\ Total(v.bal) + v.burned + u.minted = Total(u.bal) + u.burned + v.minted
  /\ \A a \in Addr \ S : a \in v.allow <=> a \in u.allow
  /\ v.existed = u.existed /\ (u.marked => v.marked) /\ (u.paid => v.paid)

-----------------------------------------------------------------------------
(* The sum of the balances.                                                *)

Purse(a, n) == {a} \X (1 .. n)

(* A purse of n wei has n elements.                                        *)
LEMMA PurseCardinality ==
  ASSUME NEW a, NEW n \in Nat
  PROVE  IsFiniteSet(Purse(a, n)) /\ Cardinality(Purse(a, n)) = n
<1> DEFINE g == [i \in 1 .. n |-> <<a, i>>]
<1>1. g \in Injection(1 .. n, Purse(a, n))
  BY DEF Injection, IsInjective, Purse
<1>2. \A p \in Purse(a, n) : \E i \in 1 .. n : g[i] = p
  BY SMT DEF Purse
<1>3. g \in Bijection(1 .. n, Purse(a, n))
  BY <1>1, <1>2 DEF Bijection, Surjection, Injection
<1>4. IsFiniteSet(1 .. n) /\ Cardinality(1 .. n) = n
  BY FS_Interval, SMT
<1>5. QED
  BY <1>3, <1>4, FS_Bijection, SMT DEF ExistsBijection

(* The wei of the accounts other than a.                                   *)
Rest(bal, a) == {x \in Wei(bal) : x[1] # a}

(* The total is what one account holds and what the others do.             *)
LEMMA TotalSplit ==
  ASSUME NEW bal \in Balances, NEW a \in Addr
  PROVE  /\ Cardinality(Rest(bal, a)) \in Nat /\ bal[a] \in Nat
         /\ Total(bal) = Cardinality(Rest(bal, a)) + bal[a]
<1>1. IsFiniteSet(Rest(bal, a))
  <2>1. IsFiniteSet(1 .. MaxWord)
    BY FramesAssumption, FS_Interval, SMT
  <2>2. IsFiniteSet(Addr \X (1 .. MaxWord))
    BY <2>1, FramesAssumption, FS_Product
  <2>3. Rest(bal, a) \subseteq Addr \X (1 .. MaxWord)
    BY DEF Rest, Wei
  <2>4. QED
    BY <2>2, <2>3, FS_Subset
<1>2. bal[a] \in Nat /\ bal[a] <= MaxWord
  BY FramesAssumption, SMT DEF Balances, Amount
<1>3. IsFiniteSet(Purse(a, bal[a])) /\ Cardinality(Purse(a, bal[a])) = bal[a]
  BY <1>2, PurseCardinality
<1>4. Wei(bal) = Rest(bal, a) \cup Purse(a, bal[a])
  BY <1>2, FramesAssumption, SMT DEF Wei, Rest, Purse
<1>5. Rest(bal, a) \cap Purse(a, bal[a]) = {}
  BY DEF Rest, Purse
<1>6. Cardinality(Rest(bal, a) \cup Purse(a, bal[a])) =
        Cardinality(Rest(bal, a)) + Cardinality(Purse(a, bal[a])) - Cardinality({})
  BY <1>1, <1>3, <1>5, FS_Union, SMT
<1>7. Cardinality(Rest(bal, a)) \in Nat
  BY <1>1, FS_CardinalityType
<1>8. QED
  BY <1>2, <1>3, <1>4, <1>6, <1>7, FS_EmptySet, SMT DEF Total

(* The total of finitely many words is a number.                           *)
LEMMA TotalType ==
  ASSUME NEW bal \in Balances
  PROVE  Total(bal) \in Nat
<1>1. Mint \in Addr
  BY FramesAssumption
<1>2. QED
  BY <1>1, TotalSplit, SMT

(* A balance that changes changes the total by as much.                    *)
LEMMA TotalUpdate ==
  ASSUME NEW bal \in Balances, NEW a \in Addr, NEW n \in Amount
  PROVE  /\ [bal EXCEPT ![a] = n] \in Balances
         /\ Total([bal EXCEPT ![a] = n]) + bal[a] = Total(bal) + n
<1> DEFINE new == [bal EXCEPT ![a] = n]
<1>1. new \in Balances /\ new[a] = n
  BY DEF Balances
<1>2. Rest(new, a) = Rest(bal, a)
  BY DEF Rest, Wei, Balances
<1>3. /\ Total(new) = Cardinality(Rest(new, a)) + new[a]
      /\ Total(bal) = Cardinality(Rest(bal, a)) + bal[a]
      /\ Cardinality(Rest(bal, a)) \in Nat /\ bal[a] \in Nat /\ new[a] \in Nat
  BY <1>1, TotalSplit
<1> HIDE DEF new
<1>4. QED
  BY <1>1, <1>2, <1>3, SMT DEF new

(* What is moved is neither created nor destroyed.                         *)
Moved(bal, from, to, value) ==
  [a \in Addr |-> bal[a] - (IF a = from THEN value ELSE 0) + (IF a = to THEN value ELSE 0)]

(* A transfer that is covered and fits a word keeps the total.             *)
LEMMA TotalMoved ==
  ASSUME NEW bal \in Balances, NEW from \in Addr, NEW to \in Addr, NEW value \in Amount,
         bal[from] >= value, from # to => bal[to] + value <= MaxWord
  PROVE  /\ Moved(bal, from, to, value) \in Balances
         /\ Total(Moved(bal, from, to, value)) = Total(bal)
<1>1. MaxWord \in Nat /\ value \in Nat /\ value <= MaxWord
  BY FramesAssumption, SMT DEF Amount
<1>2. \A a \in Addr : bal[a] \in Nat /\ bal[a] <= MaxWord
  BY <1>1, SMT DEF Balances, Amount
<1>3. CASE from = to
  <2>1. Moved(bal, from, to, value) = bal
    <3>1. \A a \in Addr : bal[a] = bal[a] - (IF a = from THEN value ELSE 0)
                                   + (IF a = to THEN value ELSE 0)
      BY <1>1, <1>2, <1>3, SMT
    <3>2. bal = [a \in Addr |-> bal[a]]
      BY DEF Balances
    <3>3. QED
      BY <3>1, <3>2 DEF Moved
  <2>2. QED
    BY <2>1
<1>4. CASE from # to
  <2> DEFINE one == [bal EXCEPT ![from] = bal[from] - value]
             two == [one EXCEPT ![to] = bal[to] + value]
  <2>1. bal[from] - value \in Amount /\ bal[to] + value \in Amount
    BY <1>1, <1>2, <1>4, SMT DEF Amount
  <2>2. one \in Balances /\ Total(one) + bal[from] = Total(bal) + (bal[from] - value)
    BY <2>1, TotalUpdate
  <2>3. one[to] = bal[to]
    BY <1>4 DEF Balances
  <2> HIDE DEF one
  <2>4. two \in Balances /\ Total(two) + one[to] = Total(one) + (bal[to] + value)
    BY <2>1, <2>2, TotalUpdate
  <2>5. Moved(bal, from, to, value) = two
    <3>1. one = [a \in Addr |-> IF a = from THEN bal[from] - value ELSE bal[a]]
      BY DEF one, Balances
    <3>2. two = [a \in Addr |-> IF a = to THEN bal[to] + value ELSE one[a]]
      BY <2>2 DEF Balances
    <3>3. \A a \in Addr : two[a] = IF a = to THEN bal[to] + value
                                   ELSE IF a = from THEN bal[from] - value ELSE bal[a]
      BY <3>1, <3>2
    <3> HIDE DEF two
    <3>4. \A a \in Addr : two[a] = bal[a] - (IF a = from THEN value ELSE 0)
                                          + (IF a = to THEN value ELSE 0)
      BY <1>1, <1>2, <1>4, <3>3, SMT
    <3>5. two = [a \in Addr |-> two[a]]
      BY <2>4 DEF Balances
    <3>6. QED
      BY <3>4, <3>5 DEF Moved
  <2>6. Total(bal) \in Nat /\ Total(one) \in Nat /\ Total(two) \in Nat
    BY <2>2, <2>4, TotalType
  <2> HIDE DEF two
  <2>7. Total(two) = Total(bal)
    BY <1>1, <1>2, <2>2, <2>3, <2>4, <2>6, SMT
  <2>8. QED
    BY <2>4, <2>5, <2>7
<1>5. QED
  BY <1>3, <1>4

-----------------------------------------------------------------------------
(* Steps.                                                                  *)

(* The numbers of a world.                                                 *)
LEMMA WorldNumbers ==
  ASSUME NEW v \in World
  PROVE  /\ v.bal \in Balances /\ Total(v.bal) \in Nat /\ v.minted \in Nat /\ v.burned \in Nat
         /\ \A a \in Addr : v.bal[a] \in Nat /\ v.bal[a] <= MaxWord
<1>1. v.bal \in Balances /\ v.minted \in Nat /\ v.burned \in Nat
  BY DEF World
<1>2. \A a \in Addr : v.bal[a] \in Nat /\ v.bal[a] <= MaxWord
  BY <1>1, FramesAssumption, SMT DEF Balances, Amount
<1>3. QED
  BY <1>1, <1>2, TotalType

(* Nothing happens.                                                        *)
LEMMA StepsNone ==
  ASSUME NEW u \in World, NEW S
  PROVE  Steps(u, u, S)
BY WorldNumbers DEF Steps

(* One step after another.                                                 *)
LEMMA StepsThen ==
  ASSUME NEW u \in World, NEW v, NEW x, NEW S, NEW T,
         Steps(u, v, S), Steps(v, x, T)
  PROVE  Steps(u, x, S \cup T)
<1>1. v \in World /\ x \in World
  BY DEF Steps
<1>2. Total(x.bal) + x.burned + u.minted = Total(u.bal) + u.burned + x.minted
  <2> DEFINE tu == Total(u.bal)
             tv == Total(v.bal)
             tx == Total(x.bal)
  <2>1. /\ tu \in Nat /\ tv \in Nat /\ tx \in Nat
        /\ u.minted \in Nat /\ v.minted \in Nat /\ x.minted \in Nat
        /\ u.burned \in Nat /\ v.burned \in Nat /\ x.burned \in Nat
    BY <1>1, WorldNumbers
  <2>2. /\ tv + v.burned + u.minted = tu + u.burned + v.minted
        /\ tx + x.burned + v.minted = tv + v.burned + x.minted
    BY DEF Steps
  <2> HIDE DEF tu, tv, tx
  <2>3. tx + x.burned + u.minted = tu + u.burned + x.minted
    BY <2>1, <2>2, SMT
  <2>4. QED
    BY <2>3 DEF tu, tx
<1>3. \A a \in Addr \ (S \cup T) : a \in x.allow <=> a \in u.allow
  BY DEF Steps
<1>4. x.existed = u.existed /\ (u.marked => x.marked) /\ (u.paid => x.paid)
  BY DEF Steps
<1>5. QED
  BY <1>1, <1>2, <1>3, <1>4 DEF Steps

(* A world in which a few fields are new.                                  *)
LEMMA TouchSteps ==
  ASSUME NEW u \in World, NEW a
  PROVE  /\ Steps(u, Touch(u, a), {})
         /\ Touch(u, a).bal = u.bal /\ Touch(u, a).marked = u.marked
         /\ Touch(u, a).allow = u.allow /\ Touch(u, a).vault = u.vault
         /\ Touch(u, a).existed = u.existed /\ Touch(u, a).proxy = u.proxy
         /\ Touch(u, a).paid = u.paid
<1> DEFINE b == u.touched \/ a = Mint
           v == [u EXCEPT !.touched = b]
<1>1. b \in BOOLEAN
  OBVIOUS
<1>2. Touch(u, a) = v
  BY DEF Touch
<1> HIDE DEF b
<1>3. /\ v \in World /\ v.bal = u.bal /\ v.marked = u.marked /\ v.allow = u.allow
      /\ v.vault = u.vault /\ v.existed = u.existed /\ v.minted = u.minted
      /\ v.burned = u.burned /\ v.proxy = u.proxy /\ v.paid = u.paid
  BY <1>1 DEF World
<1> HIDE DEF v
<1>4. Steps(u, v, {})
  BY <1>3, WorldNumbers DEF Steps
<1>5. QED
  BY <1>2, <1>3, <1>4

(* A transfer that succeeds moves the value; one that fails does nothing.  *)
LEMMA TransferSteps ==
  ASSUME NEW u \in World, NEW from \in Addr, NEW to \in Addr, NEW value \in Amount,
         NEW r, r = Transfer(u, from, to, value)
  PROVE  /\ r \in Result /\ Steps(u, r.w, {})
         /\ r.w.marked = u.marked /\ r.w.allow = u.allow
         /\ r.w.vault = u.vault /\ r.w.proxy = u.proxy
         /\ ~r.ok => r.w = u
         /\ r.ok => /\ r.w.bal = Moved(u.bal, from, to, value) /\ u.bal[from] >= value
                    /\ to = Mint /\ value > 0 => r.w.paid
<1> DEFINE can == u.bal[from] >= value /\ (from # to => u.bal[to] + value <= MaxWord)
           m == Moved(u.bal, from, to, value)
           p == u.paid \/ (to = Mint /\ value > 0)
           v == [u EXCEPT !.bal = m, !.paid = p]
           x == Touch(v, from)
           y == Touch(x, to)
<1>1. CASE ~can
  <2>1. r = [ok |-> FALSE, w |-> u]
    BY <1>1 DEF Transfer, Revert
  <2>2. r \in Result /\ r.w = u /\ r.ok = FALSE
    BY <2>1, SMT DEF Result
  <2>3. QED
    BY <2>2, StepsNone
<1>2. CASE can
  <2>1. m \in Balances /\ Total(m) = Total(u.bal)
    BY <1>2, WorldNumbers, TotalMoved
  <2>2. Move(u, from, to, value) = v
    BY DEF Move, Moved
  <2>3. r = [ok |-> TRUE, w |-> y] /\ p \in BOOLEAN
    BY <1>2, <2>2 DEF Transfer, Ok
  <2> HIDE DEF m, p
  <2>4. /\ v \in World /\ v.bal = m /\ v.marked = u.marked /\ v.allow = u.allow
        /\ v.vault = u.vault /\ v.existed = u.existed /\ v.minted = u.minted
        /\ v.burned = u.burned /\ v.proxy = u.proxy /\ v.paid = p
    BY <2>1, <2>3 DEF World
  <2> HIDE DEF v
  <2>5. Steps(u, v, {})
    BY <2>1, <2>4, WorldNumbers DEF Steps, p
  <2>6. /\ Steps(v, x, {}) /\ x.bal = v.bal /\ x.marked = v.marked /\ x.allow = v.allow
        /\ x.vault = v.vault /\ x.proxy = v.proxy /\ x \in World
    BY <2>4, TouchSteps DEF Steps
  <2> HIDE DEF x
  <2>7. /\ Steps(x, y, {}) /\ y.bal = x.bal /\ y.marked = x.marked /\ y.allow = x.allow
        /\ y.vault = x.vault /\ y.proxy = x.proxy /\ y \in World
    BY <2>6, TouchSteps DEF Steps
  <2> HIDE DEF y
  <2>8. Steps(u, x, {})
    BY <2>5, <2>6, StepsThen, SMT
  <2>9. Steps(u, y, {})
    BY <2>7, <2>8, StepsThen, SMT
  <2>10. r \in Result /\ r.ok = TRUE /\ r.w = y
    BY <2>3, <2>7, SMT DEF Result
  <2>11. QED
    <3>1. to = Mint /\ value > 0 => y.paid
      BY <2>4, <2>6, <2>7 DEF Steps, p
    <3>2. QED
      BY <1>2, <2>4, <2>6, <2>7, <2>9, <2>10, <3>1 DEF m
<1>3. QED
  BY <1>1, <1>2

-----------------------------------------------------------------------------
(* The precompile.                                                         *)

(* What an operation of the precompile leaves alone.                       *)
Apart(u, v) == v.vault = u.vault /\ v.proxy = u.proxy /\ v.existed = u.existed

(* ensure_account_created moves no wei and marks the account where it      *)
(* must.                                                                   *)
LEMMA CreatedSteps ==
  ASSUME NEW u \in World, NEW a, NEW c, c = ensure_account_created(u, a)
  PROVE  /\ Steps(u, c, {}) /\ Apart(u, c) /\ c.bal = u.bal /\ c.allow = u.allow
         /\ c.marked <=> (u.marked \/ (a = Mint /\ ~u.existed))
<1> DEFINE v == [u EXCEPT !.marked = TRUE]
<1>1. CASE a = Mint /\ ~u.existed
  <2>1. c = Touch(v, a)
    BY <1>1 DEF ensure_account_created
  <2>2. /\ v \in World /\ v.bal = u.bal /\ v.marked = TRUE /\ v.allow = u.allow
        /\ v.vault = u.vault /\ v.existed = u.existed /\ v.minted = u.minted
        /\ v.burned = u.burned /\ v.proxy = u.proxy /\ v.paid = u.paid
    BY DEF World
  <2> HIDE DEF v
  <2>3. Steps(u, v, {})
    BY <2>2, WorldNumbers DEF Steps
  <2>4. /\ Steps(v, c, {}) /\ c.bal = v.bal /\ c.marked = v.marked /\ c.allow = v.allow
        /\ c.vault = v.vault /\ c.proxy = v.proxy /\ c.existed = v.existed
    BY <2>1, <2>2, TouchSteps, SMT
  <2>5. Steps(u, c, {})
    BY <2>3, <2>4, StepsThen, SMT
  <2>6. QED
    BY <1>1, <2>2, <2>4, <2>5 DEF Apart
<1>2. CASE ~(a = Mint /\ ~u.existed)
  <2>1. c = u
    BY <1>2 DEF ensure_account_created
  <2>2. QED
    BY <1>2, <2>1, StepsNone DEF Apart
<1>3. QED
  BY <1>1, <1>2

(* add_balance counts what it mints and touches no other balance; on       *)
(* overflow it changes nothing.                                            *)
LEMMA AddSteps ==
  ASSUME NEW u \in World, NEW a \in Addr, NEW amount \in Amount,
         NEW r, r = add_balance(u, a, amount)
  PROVE  /\ r \in Result /\ Steps(u, r.w, {}) /\ Apart(u, r.w)
         /\ r.w.allow = u.allow /\ r.w.marked = u.marked
         /\ \A b \in Addr \ {a} : r.w.bal[b] = u.bal[b]
<1>1. CASE ~(u.bal[a] + amount <= MaxWord)
  <2>1. r = [ok |-> FALSE, w |-> u]
    BY <1>1 DEF add_balance, Revert
  <2>2. r \in Result /\ r.w = u
    BY <2>1, SMT DEF Result
  <2>3. QED
    BY <2>2, StepsNone DEF Apart
<1>2. CASE u.bal[a] + amount <= MaxWord
  <2> DEFINE n == u.bal[a] + amount
             m == u.minted + amount
             b == [u.bal EXCEPT ![a] = n]
             v == [u EXCEPT !.bal = b, !.minted = m]
  <2>1. /\ u.bal \in Balances /\ Total(u.bal) \in Nat /\ u.minted \in Nat /\ u.burned \in Nat
        /\ u.bal[a] \in Nat /\ amount \in Nat
    BY WorldNumbers, FramesAssumption, SMT DEF Amount
  <2>2. n \in Amount /\ m \in Nat
    BY <1>2, <2>1, FramesAssumption, SMT DEF Amount
  <2>3. b \in Balances /\ Total(b) + u.bal[a] = Total(u.bal) + n
    BY <2>1, <2>2, TotalUpdate
  <2>4. \A c \in Addr \ {a} : b[c] = u.bal[c]
    BY <2>1 DEF Balances
  <2>5. r = [ok |-> TRUE, w |-> v]
    BY <1>2 DEF add_balance, Ok
  <2>6. Total(b) = Total(u.bal) + amount
    <3>1. Total(b) \in Nat
      BY <2>3, TotalType
    <3> HIDE DEF b
    <3>2. QED
      BY <2>1, <2>3, <3>1, SMT
  <2>7. m = u.minted + amount
    OBVIOUS
  <2> HIDE DEF n, m, b
  <2>8. /\ v \in World /\ v.bal = b /\ v.minted = m /\ v.burned = u.burned
        /\ v.marked = u.marked /\ v.allow = u.allow /\ v.vault = u.vault
        /\ v.existed = u.existed /\ v.proxy = u.proxy /\ v.paid = u.paid
    BY <2>2, <2>3 DEF World
  <2> HIDE DEF v
  <2>9. Total(v.bal) + v.burned + u.minted = Total(u.bal) + u.burned + v.minted
    BY <2>1, <2>6, <2>7, <2>8, SMT
  <2>10. Steps(u, v, {})
    BY <2>8, <2>9 DEF Steps
  <2>11. r \in Result /\ r.w = v
    BY <2>5, <2>8, SMT DEF Result
  <2>12. QED
    BY <2>4, <2>8, <2>10, <2>11 DEF Apart
<1>3. QED
  BY <1>1, <1>2

(* sub_balance counts what it burns and touches no other balance;          *)
(* uncovered it changes nothing.                                           *)
LEMMA SubSteps ==
  ASSUME NEW u \in World, NEW a \in Addr, NEW amount \in Amount,
         NEW r, r = sub_balance(u, a, amount)
  PROVE  /\ r \in Result /\ Steps(u, r.w, {}) /\ Apart(u, r.w)
         /\ r.w.allow = u.allow /\ r.w.marked = u.marked
         /\ \A b \in Addr \ {a} : r.w.bal[b] = u.bal[b]
<1>1. CASE ~(u.bal[a] >= amount)
  <2>1. r = [ok |-> FALSE, w |-> u]
    BY <1>1 DEF sub_balance, Revert
  <2>2. r \in Result /\ r.w = u
    BY <2>1, SMT DEF Result
  <2>3. QED
    BY <2>2, StepsNone DEF Apart
<1>2. CASE u.bal[a] >= amount
  <2> DEFINE n == u.bal[a] - amount
             m == u.burned + amount
             b == [u.bal EXCEPT ![a] = n]
             v == [u EXCEPT !.bal = b, !.burned = m]
  <2>1. /\ u.bal \in Balances /\ Total(u.bal) \in Nat /\ u.minted \in Nat /\ u.burned \in Nat
        /\ u.bal[a] \in Nat /\ u.bal[a] <= MaxWord /\ amount \in Nat
    BY WorldNumbers, FramesAssumption, SMT DEF Amount
  <2>2. n \in Amount /\ m \in Nat
    BY <1>2, <2>1, FramesAssumption, SMT DEF Amount
  <2>3. b \in Balances /\ Total(b) + u.bal[a] = Total(u.bal) + n
    BY <2>1, <2>2, TotalUpdate
  <2>4. \A c \in Addr \ {a} : b[c] = u.bal[c]
    BY <2>1 DEF Balances
  <2>5. r = [ok |-> TRUE, w |-> v]
    BY <1>2 DEF sub_balance, Ok
  <2>6. Total(b) + amount = Total(u.bal)
    <3>1. Total(b) \in Nat
      BY <2>3, TotalType
    <3>2. n + amount = u.bal[a] /\ n \in Nat
      BY <1>2, <2>1, SMT
    <3> DEFINE x == u.bal[a]
               y == Total(u.bal)
               z == Total(b)
    <3>3. z + x = y + n /\ n + amount = x /\ x \in Nat /\ y \in Nat /\ z \in Nat
      BY <2>1, <2>3, <3>1, <3>2
    <3> HIDE DEF b, n, x, y, z
    <3>4. z + amount = y
      BY <2>1, <3>2, <3>3, SMT
    <3>5. QED
      BY <3>4 DEF y, z
  <2>7. m = u.burned + amount /\ Total(b) \in Nat
    BY <2>3, TotalType
  <2> HIDE DEF n, m, b
  <2>8. /\ v \in World /\ v.bal = b /\ v.burned = m /\ v.minted = u.minted
        /\ v.marked = u.marked /\ v.allow = u.allow /\ v.vault = u.vault
        /\ v.existed = u.existed /\ v.proxy = u.proxy /\ v.paid = u.paid
    BY <2>2, <2>3 DEF World
  <2> HIDE DEF v
  <2>9. Total(v.bal) + v.burned + u.minted = Total(u.bal) + u.burned + v.minted
    BY <2>1, <2>6, <2>7, <2>8, SMT
  <2>10. Steps(u, v, {})
    BY <2>8, <2>9 DEF Steps
  <2>11. r \in Result /\ r.w = v
    BY <2>5, <2>8, SMT DEF Result
  <2>12. QED
    BY <2>4, <2>8, <2>10, <2>11 DEF Apart
<1>3. QED
  BY <1>1, <1>2

(* Touching an account moves nothing.                                      *)
LEMMA TouchedSteps ==
  ASSUME NEW u \in World, NEW q \in Result, NEW a, NEW S, Steps(u, q.w, S),
         NEW r, r = Touched(q, a)
  PROVE  /\ r \in Result /\ Steps(u, r.w, S) /\ Apart(q.w, r.w)
         /\ r.w.allow = q.w.allow /\ r.w.marked = q.w.marked /\ r.w.bal = q.w.bal
<1>1. q.w \in World
  BY DEF Result
<1>2. CASE ~q.ok
  BY <1>2 DEF Touched, Apart
<1>3. CASE q.ok
  <2> DEFINE v == Touch(q.w, a)
  <2>1. r = [ok |-> TRUE, w |-> v]
    BY <1>3 DEF Touched, Ok
  <2>2. /\ Steps(q.w, v, {}) /\ v.bal = q.w.bal /\ v.marked = q.w.marked
        /\ v.allow = q.w.allow /\ v.vault = q.w.vault /\ v.existed = q.w.existed
        /\ v.proxy = q.w.proxy /\ v \in World
    BY <1>1, TouchSteps DEF Steps
  <2> HIDE DEF v
  <2>3. Steps(u, v, S)
    BY <2>2, StepsThen, SMT
  <2>4. r \in Result /\ r.w = v
    BY <2>1, <2>2, SMT DEF Result
  <2>5. QED
    BY <2>2, <2>3, <2>4 DEF Apart
<1>4. QED
  BY <1>2, <1>3

(* set_allowlisted changes the entry of one account.                       *)
LEMMA SetAllowlistedSteps ==
  ASSUME NEW u \in World, NEW a \in Addr, NEW allowed \in BOOLEAN,
         NEW v, v = set_allowlisted(u, a, allowed)
  PROVE  /\ Steps(u, v, {a}) /\ Apart(u, v) /\ v.bal = u.bal
         /\ v.marked <=> (u.marked \/ ~u.existed)
<1> DEFINE c == ensure_account_created(u, Mint)
           l == IF allowed THEN c.allow \cup {a} ELSE c.allow \ {a}
           x == [c EXCEPT !.allow = l]
<1>1. /\ Steps(u, c, {}) /\ Apart(u, c) /\ c.bal = u.bal
      /\ c.marked <=> (u.marked \/ ~u.existed)
  BY CreatedSteps
<1>2. c \in World
  BY <1>1 DEF Steps
<1>3. v = Touch(x, Mint)
  BY DEF set_allowlisted
<1> HIDE DEF c
<1>4. l \in SUBSET Addr /\ \A b \in Addr \ {a} : b \in l <=> b \in c.allow
  BY <1>2 DEF World
<1> HIDE DEF l
<1>5. /\ x \in World /\ x.allow = l /\ x.bal = c.bal /\ x.marked = c.marked
      /\ x.vault = c.vault /\ x.existed = c.existed /\ x.proxy = c.proxy
      /\ x.minted = c.minted /\ x.burned = c.burned /\ x.paid = c.paid
  BY <1>2, <1>4 DEF World
<1> HIDE DEF x
<1>6. Steps(c, x, {a})
  BY <1>2, <1>4, <1>5, WorldNumbers DEF Steps
<1>7. /\ Steps(x, v, {}) /\ v.bal = x.bal /\ v.marked = x.marked
      /\ v.vault = x.vault /\ v.existed = x.existed /\ v.proxy = x.proxy
  BY <1>3, <1>5, TouchSteps, SMT
<1>8. Steps(u, x, {a})
  BY <1>1, <1>6, StepsThen, SMT
<1>9. Steps(u, v, {a})
  BY <1>7, <1>8, StepsThen, SMT
<1>10. QED
  BY <1>1, <1>5, <1>7, <1>9 DEF Apart

(* The accounts whose place on the list a call of the precompile may       *)
(* change.                                                                 *)
Named(caller, data) ==
  IF caller = Proxy /\ data.fn \in {"addToAllowList", "removeFromAllowList"}
  THEN {data.who} ELSE {}

(* The account of the precompile has code and nonce, or was paid.          *)
Held(v) == v.marked \/ v.paid

(* After a call of the precompile it is held, unless the admin minted or   *)
(* burned elsewhere.                                                       *)
Elsewhere(u, v, caller) ==
  caller = Proxy /\ v.bal[Mint] = u.bal[Mint] /\ v.allow = u.allow

(* mint and burn have this form.                                           *)
LEMMA BalanceCallSteps ==
  ASSUME NEW u \in World, NEW caller, NEW a \in Addr, NEW amount \in Amount,
         NEW c, c = ensure_account_created(LookedUp(u, caller), a),
         NEW q, q = add_balance(c, a, amount) \/ q = sub_balance(c, a, amount),
         NEW r, r = Touched(q, a)
  PROVE  /\ r \in Result /\ Steps(u, r.w, {}) /\ Apart(u, r.w) /\ r.w.allow = u.allow
         /\ (u.existed => Held(u)) => Held(r.w) \/ Elsewhere(u, r.w, caller)
<1> DEFINE l == LookedUp(u, caller)
<1>1. /\ Steps(u, l, {}) /\ Apart(u, l) /\ l.bal = u.bal /\ l.allow = u.allow
      /\ l.marked <=> (u.marked \/ (caller # Proxy /\ ~u.existed))
  BY CreatedSteps, StepsNone, SMT DEF LookedUp, Apart
<1>2. l \in World
  BY <1>1 DEF Steps
<1> HIDE DEF l
<1>3. /\ Steps(l, c, {}) /\ Apart(l, c) /\ c.bal = l.bal /\ c.allow = l.allow
      /\ c.marked <=> (l.marked \/ (a = Mint /\ ~l.existed))
  BY <1>2, CreatedSteps DEF l
<1>4. c \in World
  BY <1>3 DEF Steps
<1>5. /\ q \in Result /\ Steps(c, q.w, {}) /\ Apart(c, q.w)
      /\ q.w.allow = c.allow /\ q.w.marked = c.marked
      /\ \A b \in Addr \ {a} : q.w.bal[b] = c.bal[b]
  BY <1>4, AddSteps, SubSteps, SMT
<1>6. Steps(u, c, {})
  BY <1>1, <1>3, StepsThen, SMT
<1>7. Steps(u, q.w, {})
  BY <1>5, <1>6, StepsThen, SMT
<1>8. /\ r \in Result /\ Steps(u, r.w, {}) /\ Apart(q.w, r.w)
      /\ r.w.allow = q.w.allow /\ r.w.marked = q.w.marked /\ r.w.bal = q.w.bal
  BY <1>5, <1>7, TouchedSteps, SMT
<1>9. Apart(u, r.w) /\ r.w.allow = u.allow
  BY <1>1, <1>3, <1>5, <1>8, SMT DEF Apart
<1>10. ASSUME u.existed => Held(u) PROVE Held(r.w) \/ Elsewhere(u, r.w, caller)
  <2>1. CASE a = Mint
    BY <1>1, <1>3, <1>5, <1>8, <1>10, <2>1 DEF Apart, Held, Steps
  <2>2. CASE a # Mint /\ caller # Proxy
    BY <1>1, <1>3, <1>5, <1>8, <1>10, <2>2 DEF Apart, Held, Steps
  <2>3. CASE a # Mint /\ caller = Proxy
    <3>1. Mint \in Addr \ {a}
      BY <2>3, FramesAssumption
    <3>2. r.w.bal[Mint] = u.bal[Mint]
      BY <1>1, <1>3, <1>5, <1>8, <3>1
    <3>3. QED
      BY <1>9, <2>3, <3>2 DEF Elsewhere
  <2>4. QED
    BY <2>1, <2>2, <2>3
<1>11. QED
  BY <1>8, <1>9, <1>10

(* Precompile::call.                                                       *)
LEMMA MintCallSteps ==
  ASSUME NEW u \in World, NEW caller, NEW data \in Calldata,
         NEW r, r = MintCall(u, caller, data)
  PROVE  /\ r \in Result /\ Steps(u, r.w, Named(caller, data)) /\ Apart(u, r.w)
         /\ r.ok /\ (u.existed => Held(u)) => Held(r.w) \/ Elsewhere(u, r.w, caller)
<1> DEFINE a == data.who
           c == ensure_account_created(LookedUp(u, caller), a)
<1>1. a \in Addr /\ data.amount \in Amount
  BY DEF Calldata, Amount
<1>2. CASE data.fn = "mint" /\ Authorized(u, caller)
  <2>1. r = Touched(add_balance(c, a, data.amount), a)
    BY <1>2 DEF MintCall
  <2>2. Named(caller, data) = {}
    BY <1>2 DEF Named
  <2> HIDE DEF a, c
  <2>3. QED
    BY <1>1, <2>1, <2>2, BalanceCallSteps, SMT DEF c
<1>3. CASE data.fn = "burn" /\ Authorized(u, caller)
  <2>1. r = Touched(sub_balance(c, a, data.amount), a)
    BY <1>3 DEF MintCall
  <2>2. Named(caller, data) = {}
    BY <1>3 DEF Named
  <2> HIDE DEF a, c
  <2>3. QED
    BY <1>1, <2>1, <2>2, BalanceCallSteps, SMT DEF c
<1>4. ASSUME caller = Proxy, NEW allowed \in BOOLEAN, r = Ok(set_allowlisted(u, a, allowed)),
             data.fn \in {"addToAllowList", "removeFromAllowList"}
      PROVE  /\ r \in Result /\ Steps(u, r.w, Named(caller, data)) /\ Apart(u, r.w)
             /\ (u.existed => Held(u)) => Held(r.w)
  <2> DEFINE v == set_allowlisted(u, a, allowed)
  <2>1. /\ Steps(u, v, {a}) /\ Apart(u, v)
        /\ v.marked <=> (u.marked \/ ~u.existed)
    BY <1>1, SetAllowlistedSteps
  <2>2. v \in World /\ r = [ok |-> TRUE, w |-> v]
    BY <1>4, <2>1 DEF Steps, Ok
  <2> HIDE DEF v
  <2>3. r \in Result /\ r.w = v
    BY <2>2, SMT DEF Result
  <2>4. Named(caller, data) = {a}
    BY <1>4 DEF Named
  <2>5. QED
    BY <2>1, <2>3, <2>4 DEF Held, Steps
<1>5. CASE data.fn = "addToAllowList" /\ caller = Proxy
  <2>1. r = Ok(set_allowlisted(u, a, TRUE))
    BY <1>5 DEF MintCall
  <2>2. QED
    BY <1>4, <1>5, <2>1
<1>6. CASE data.fn = "removeFromAllowList" /\ caller = Proxy
  <2>1. r = Ok(set_allowlisted(u, a, FALSE))
    BY <1>6 DEF MintCall
  <2>2. QED
    BY <1>4, <1>6, <2>1
<1>7. CASE data.fn = "allowlist"
  <2> DEFINE v == ensure_account_created(u, Mint)
  <2>1. r = [ok |-> TRUE, w |-> v]
    BY <1>7 DEF MintCall, Ok
  <2>2. /\ Steps(u, v, {}) /\ Apart(u, v)
        /\ v.marked <=> (u.marked \/ ~u.existed)
    BY CreatedSteps
  <2>3. v \in World
    BY <2>2 DEF Steps
  <2> HIDE DEF v
  <2>4. r \in Result /\ r.w = v
    BY <2>1, <2>3, SMT DEF Result
  <2>5. Named(caller, data) = {}
    BY <1>7 DEF Named
  <2>6. QED
    BY <2>2, <2>4, <2>5 DEF Held, Steps
<1>8. CASE /\ ~(data.fn = "mint" /\ Authorized(u, caller))
           /\ ~(data.fn = "burn" /\ Authorized(u, caller))
           /\ ~(data.fn = "addToAllowList" /\ caller = Proxy)
           /\ ~(data.fn = "removeFromAllowList" /\ caller = Proxy)
           /\ data.fn # "allowlist"
  <2>1. r = [ok |-> FALSE, w |-> u]
    BY <1>8 DEF MintCall, Revert
  <2>2. r \in Result /\ r.w = u /\ ~r.ok
    BY <2>1, SMT DEF Result
  <2>3. QED
    BY <2>2, StepsNone DEF Apart
<1>9. QED
  BY <1>2, <1>3, <1>5, <1>6, <1>7, <1>8

-----------------------------------------------------------------------------
(* The vault.                                                              *)

(* The bridge's part of n, rounded down.                                   *)
LEMMA ShareOf ==
  ASSUME NEW n \in Nat, NEW s \in 0 .. FullShare, NEW q, q = (n * s) \div FullShare
  PROVE  /\ q \in Nat /\ q <= n
         /\ q * FullShare <= n * s /\ (q + 1) * FullShare > n * s
<1>1. FullShare \in Nat /\ FullShare > 0 /\ s \in Nat /\ s <= FullShare
  BY ShareAssumption, SMT
<1>2. n * s \in Nat /\ n * s <= n * FullShare
  <2>1. n * FullShare = n * s + n * (FullShare - s) /\ n * (FullShare - s) \in Nat
    BY <1>1, SMT
  <2>2. n * s \in Nat
    BY <1>1, SMT
  <2>3. QED
    BY <1>1, <2>1, <2>2, SMT
<1> DEFINE p == n * s
           m == p % FullShare
<1>3. p \in Nat
  BY <1>2
<1> HIDE DEF p
<1>4. m \in 0 .. (FullShare - 1) /\ q \in Int /\ p = FullShare * q + m
  BY <1>1, <1>3, SMT DEF p
<1>5. QED
  BY <1>1, <1>2, <1>3, <1>4, SMT

(* What transfers and the contracts do to the precompile: its list stays,  *)
(* and value they bring its account is on record.                          *)
Quiet(u, v) ==
  /\ Steps(u, v, {}) /\ v.allow = u.allow
  /\ v.bal[Mint] <= u.bal[Mint] \/ v.paid

(* Nothing happens, quietly.                                               *)
LEMMA QuietNone ==
  ASSUME NEW u \in World
  PROVE  Quiet(u, u)
<1>1. u.bal[Mint] <= u.bal[Mint]
  BY WorldNumbers, FramesAssumption, SMT
<1>2. QED
  BY <1>1, StepsNone DEF Quiet

(* One quiet step after another.                                           *)
LEMMA QuietThen ==
  ASSUME NEW u \in World, NEW v, NEW x, Quiet(u, v), Quiet(v, x)
  PROVE  Quiet(u, x)
<1>1. Steps(u, x, {})
  BY StepsThen, SMT DEF Quiet
<1>2. v \in World /\ x \in World /\ (v.paid => x.paid)
  BY DEF Quiet, Steps
<1>3. u.bal[Mint] \in Nat /\ v.bal[Mint] \in Nat /\ x.bal[Mint] \in Nat
  BY <1>2, WorldNumbers, FramesAssumption
<1>4. QED
  BY <1>1, <1>2, <1>3, SMT DEF Quiet

(* A transfer is quiet.                                                    *)
LEMMA TransferQuiet ==
  ASSUME NEW u \in World, NEW from \in Addr, NEW to \in Addr, NEW value \in Amount,
         NEW r, r = Transfer(u, from, to, value)
  PROVE  Quiet(u, r.w)
<1>1. /\ r \in Result /\ Steps(u, r.w, {}) /\ r.w.allow = u.allow
      /\ ~r.ok => r.w = u
      /\ r.ok => /\ r.w.bal = Moved(u.bal, from, to, value) /\ u.bal[from] >= value
                 /\ to = Mint /\ value > 0 => r.w.paid
  BY TransferSteps, SMT
<1>2. Mint \in Addr /\ value \in Nat /\ u.bal[Mint] \in Nat
  BY WorldNumbers, FramesAssumption, SMT DEF Amount
<1>3. Moved(u.bal, from, to, value)[Mint] =
        u.bal[Mint] - (IF Mint = from THEN value ELSE 0) + (IF Mint = to THEN value ELSE 0)
  BY <1>2, SMT DEF Moved
<1>4. r.w.bal[Mint] <= u.bal[Mint] \/ r.w.paid
  BY <1>1, <1>2, <1>3, SMT
<1>5. QED
  BY <1>1, <1>4 DEF Quiet

(* The vault pays a recipient.                                             *)
LEMMA SendSteps ==
  ASSUME NEW u \in World, NEW to \in Addr, NEW value \in Amount, NEW h,
         NEW r, r = Send(u, h, to, value)
  PROVE  /\ r \in Result /\ Quiet(u, r.w)
         /\ r.w.vault = u.vault /\ r.w.proxy = u.proxy
         /\ ~r.ok => r.w = u
         /\ r.ok => r.w.bal = Moved(u.bal, Vault, to, value) /\ u.bal[Vault] >= value
<1>1. CASE to = Mint /\ MintInstalled(h)
  <2>1. r = [ok |-> FALSE, w |-> u]
    BY <1>1 DEF Send, Revert
  <2>2. r \in Result /\ r.w = u /\ ~r.ok
    BY <2>1, SMT DEF Result
  <2>3. QED
    BY <2>2, QuietNone
<1>2. CASE ~(to = Mint /\ MintInstalled(h))
  <2>1. r = Transfer(u, Vault, to, value) /\ Vault \in Addr
    BY <1>2, FramesAssumption DEF Send
  <2>2. /\ r \in Result /\ r.w.vault = u.vault /\ r.w.proxy = u.proxy
        /\ ~r.ok => r.w = u
        /\ r.ok => r.w.bal = Moved(u.bal, Vault, to, value) /\ u.bal[Vault] >= value
    BY <2>1, TransferSteps, SMT
  <2>3. Quiet(u, r.w)
    BY <2>1, TransferQuiet
  <2>4. QED
    BY <2>2, <2>3
<1>3. QED
  BY <1>1, <1>2

(* The amounts of a distribution.                                          *)
LEMMA Amounts ==
  ASSUME NEW u \in World
  PROVE  LET b == BridgeAmount(u)
             n == u.bal[Vault]
         IN  /\ b \in Amount /\ OtherAmount(u) \in Amount
             /\ n \in Nat /\ OtherAmount(u) = n - b /\ b <= n
             /\ b * FullShare <= n * u.vault.share
             /\ (b + 1) * FullShare > n * u.vault.share
<1> DEFINE n == u.bal[Vault]
           s == u.vault.share
           b == BridgeAmount(u)
<1>1. n \in Nat /\ n <= MaxWord /\ MaxWord \in Nat
  BY WorldNumbers, FramesAssumption
<1>2. s \in 0 .. FullShare
  BY DEF World
<1>3. b = (n * s) \div FullShare
  BY DEF BridgeAmount
<1>4. OtherAmount(u) = n - b
  BY DEF OtherAmount
<1> HIDE DEF n, s, b
<1>5. b \in Nat /\ b <= n /\ b * FullShare <= n * s /\ (b + 1) * FullShare > n * s
  BY <1>1, <1>2, <1>3, ShareOf
<1>6. b \in Amount /\ n - b \in Amount
  BY <1>1, <1>5, SMT DEF Amount
<1>7. QED
  BY <1>1, <1>4, <1>5, <1>6 DEF n, s, b

(* distribute: it pays the other amount, then the bridge's, or nothing.    *)
LEMMA DistributeSteps ==
  ASSUME NEW u \in World, NEW h, NEW value, NEW r, r = distribute(u, h, value)
  PROVE  /\ r \in Result /\ Quiet(u, r.w) /\ r.w.proxy = u.proxy
         /\ r.ok =>
              /\ BridgeAmount(u) >= u.vault.minimum
              /\ u.vault.bridge # Zero
              /\ OtherAmount(u) # 0 => u.vault.other # Zero
              /\ r.w.bal = Moved(IF OtherAmount(u) = 0 THEN u.bal
                                 ELSE Moved(u.bal, Vault, u.vault.other, OtherAmount(u)),
                                 Vault, u.vault.bridge, BridgeAmount(u))
<1> DEFINE b == BridgeAmount(u)
           o == OtherAmount(u)
           paid == IF o = 0 THEN Ok(u)
                   ELSE IF u.vault.other = Zero THEN Revert(u)
                   ELSE Send(u, h, u.vault.other, o)
           refused == \/ u.vault.bridge = Zero \/ value < u.vault.fee
                      \/ u.bal[Vault] * u.vault.share > MaxWord
                      \/ b < u.vault.minimum \/ ~paid.ok
<1>1. b \in Amount /\ o \in Amount
  BY Amounts
<1>2. /\ u.vault.bridge \in Addr /\ u.vault.other \in Addr /\ u.vault.minimum \in Nat
  BY DEF World
<1>3. r = IF refused THEN Revert(u) ELSE Send(paid.w, h, u.vault.bridge, b)
  BY DEF distribute
<1> HIDE DEF b, o
<1>4. /\ paid \in Result /\ Quiet(u, paid.w) /\ paid.w.proxy = u.proxy
      /\ paid.ok => /\ o # 0 => u.vault.other # Zero
                    /\ paid.w.bal = IF o = 0 THEN u.bal ELSE Moved(u.bal, Vault, u.vault.other, o)
  <2>1. CASE o = 0
    <3>1. paid = [ok |-> TRUE, w |-> u]
      BY <2>1 DEF Ok
    <3> HIDE DEF paid
    <3>2. paid \in Result /\ paid.w = u
      BY <3>1 DEF Result
    <3>3. QED
      BY <2>1, <3>2, QuietNone
  <2>2. CASE o # 0 /\ u.vault.other = Zero
    <3>1. paid = [ok |-> FALSE, w |-> u]
      BY <2>2 DEF Revert
    <3> HIDE DEF paid
    <3>2. paid \in Result /\ paid.w = u /\ ~paid.ok
      BY <3>1 DEF Result
    <3>3. QED
      BY <3>2, QuietNone
  <2>3. CASE o # 0 /\ u.vault.other # Zero
    <3>1. paid = Send(u, h, u.vault.other, o)
      BY <2>3
    <3> HIDE DEF paid
    <3>2. QED
      BY <1>1, <1>2, <2>3, <3>1, SendSteps, SMT
  <2>4. QED
    BY <2>1, <2>2, <2>3
<1> HIDE DEF paid
<1>5. CASE refused
  <2>1. r = [ok |-> FALSE, w |-> u]
    BY <1>3, <1>5 DEF Revert
  <2>2. r \in Result /\ r.w = u /\ ~r.ok
    BY <2>1, SMT DEF Result
  <2>3. QED
    BY <2>2, QuietNone
<1>6. CASE ~refused
  <2>1. r = Send(paid.w, h, u.vault.bridge, b) /\ paid.ok /\ u.vault.bridge # Zero
        /\ ~(b < u.vault.minimum)
    BY <1>3, <1>6
  <2>2. paid.w \in World
    BY <1>4 DEF Result
  <2>3. /\ r \in Result /\ Quiet(paid.w, r.w) /\ r.w.proxy = paid.w.proxy
        /\ r.ok => r.w.bal = Moved(paid.w.bal, Vault, u.vault.bridge, b)
    <3> DEFINE to == u.vault.bridge
    <3>1. to \in Addr /\ b \in Amount /\ r = Send(paid.w, h, to, b)
      BY <1>1, <1>2, <2>1
    <3> HIDE DEF to, b
    <3>2. /\ r \in Result /\ Quiet(paid.w, r.w) /\ r.w.proxy = paid.w.proxy
          /\ r.ok => r.w.bal = Moved(paid.w.bal, Vault, to, b)
      BY <2>2, <3>1, SendSteps, SMT
    <3>3. QED
      BY <3>2 DEF to
  <2>4. Quiet(u, r.w)
    BY <1>4, <2>3, QuietThen
  <2>5. b >= u.vault.minimum
    BY <1>1, <1>2, <2>1, FramesAssumption, SMT DEF Amount
  <2>6. QED
    BY <1>4, <2>1, <2>3, <2>4, <2>5 DEF b, o
<1>7. QED
  BY <1>5, <1>6

(* The owner sets a field of the vault.                                    *)
LEMMA VaultSetSteps ==
  ASSUME NEW u \in World, NEW field, NEW new, NEW r, r = VaultSet(u, field, new),
         \/ field \in {"owner", "bridge", "other"} /\ new \in Addr
         \/ field \in {"minimum", "fee"} /\ new \in Nat
         \/ field = "share" /\ new \in 0 .. FullShare
  PROVE  r \in Result /\ Quiet(u, r.w)
<1> DEFINE n == [u.vault EXCEPT ![field] = new]
           v == [u EXCEPT !.vault = n]
<1>1. r = [ok |-> TRUE, w |-> v]
  BY DEF VaultSet, Ok
<1>2. n \in [owner : Addr, bridge : Addr, other : Addr, minimum : Nat, fee : Nat,
            share : 0 .. FullShare]
  <2>1. u.vault \in [owner : Addr, bridge : Addr, other : Addr, minimum : Nat, fee : Nat,
                     share : 0 .. FullShare]
    BY DEF World
  <2>2. QED
    BY <2>1
<1> HIDE DEF n
<1>3. /\ v \in World /\ v.bal = u.bal /\ v.marked = u.marked /\ v.allow = u.allow
      /\ v.existed = u.existed /\ v.minted = u.minted /\ v.burned = u.burned
      /\ v.paid = u.paid
  BY <1>2 DEF World
<1> HIDE DEF v
<1>4. r \in Result /\ r.w = v
  BY <1>1, <1>3, SMT DEF Result
<1>5. Steps(u, v, {})
  BY <1>3, WorldNumbers DEF Steps
<1>6. v.bal[Mint] <= u.bal[Mint]
  BY <1>3, WorldNumbers, FramesAssumption, SMT
<1>7. QED
  BY <1>3, <1>4, <1>5, <1>6 DEF Quiet

(* Every function of the vault is quiet.                                   *)
LEMMA VaultCallSteps ==
  ASSUME NEW u \in World, NEW h, NEW caller, NEW value, NEW data \in Calldata,
         NEW r, r = VaultCall(u, h, caller, value, data)
  PROVE  r \in Result /\ Quiet(u, r.w)
<1> DEFINE owned == caller = u.vault.owner /\ value = 0
<1>1. data.who \in Addr /\ data.amount \in Nat
  BY FramesAssumption, SMT DEF Calldata
<1>2. CASE data.fn = "distribute"
  <2>1. r = distribute(u, h, value)
    BY <1>2 DEF VaultCall
  <2>2. QED
    BY <2>1, DistributeSteps
<1>3. ASSUME r = Ok(u) \/ r = Revert(u) PROVE r \in Result /\ Quiet(u, r.w)
  <2>1. CASE r = Ok(u)
    BY <2>1, QuietNone, SMT DEF Ok, Result
  <2>2. CASE r = Revert(u)
    BY <2>2, QuietNone, SMT DEF Revert, Result
  <2>3. QED
    BY <1>3, <2>1, <2>2
<1>4. CASE data.fn = "receive"
  BY <1>3, <1>4 DEF VaultCall
<1>5. CASE data.fn = "setOwner" /\ owned /\ data.who # Zero
  <2>1. r = VaultSet(u, "owner", data.who)
    BY <1>5 DEF VaultCall
  <2>2. QED
    BY <1>1, <2>1, VaultSetSteps
<1>6. CASE data.fn = "setBridgeRecipient" /\ owned /\ data.who # Zero
  <2>1. r = VaultSet(u, "bridge", data.who)
    BY <1>6 DEF VaultCall
  <2>2. QED
    BY <1>1, <2>1, VaultSetSteps
<1>7. CASE data.fn = "setOtherRecipient" /\ owned /\ data.who # Zero
  <2>1. r = VaultSet(u, "other", data.who)
    BY <1>7 DEF VaultCall
  <2>2. QED
    BY <1>1, <2>1, VaultSetSteps
<1>8. CASE data.fn = "setMinimumAmount" /\ owned
  <2>1. r = VaultSet(u, "minimum", data.amount)
    BY <1>8 DEF VaultCall
  <2>2. QED
    BY <1>1, <2>1, VaultSetSteps
<1>9. CASE data.fn = "setCallFee" /\ owned
  <2>1. r = VaultSet(u, "fee", data.amount)
    BY <1>9 DEF VaultCall
  <2>2. QED
    BY <1>1, <2>1, VaultSetSteps
<1>10. CASE data.fn = "setBridgeShare" /\ owned /\ data.amount <= FullShare
  <2>1. r = VaultSet(u, "share", data.amount)
    BY <1>10 DEF VaultCall
  <2>2. data.amount \in 0 .. FullShare
    BY <1>1, <1>10, ShareAssumption, SMT
  <2>3. QED
    BY <2>1, <2>2, VaultSetSteps
<1>11. CASE /\ data.fn \notin {"distribute", "receive"}
            /\ ~(data.fn = "setOwner" /\ owned /\ data.who # Zero)
            /\ ~(data.fn = "setBridgeRecipient" /\ owned /\ data.who # Zero)
            /\ ~(data.fn = "setOtherRecipient" /\ owned /\ data.who # Zero)
            /\ ~(data.fn = "setMinimumAmount" /\ owned)
            /\ ~(data.fn = "setCallFee" /\ owned)
            /\ ~(data.fn = "setBridgeShare" /\ owned /\ data.amount <= FullShare)
  <2>1. r = Revert(u)
    BY <1>11 DEF VaultCall
  <2>2. QED
    BY <1>3, <2>1
<1>12. QED
  BY <1>2, <1>4, <1>5, <1>6, <1>7, <1>8, <1>9, <1>10, <1>11

-----------------------------------------------------------------------------
(* The proxy, and calls in general.                                        *)

(* The ownership of the proxy changes no balance and no list.              *)
LEMMA OwnershipSteps ==
  ASSUME NEW u \in World, NEW caller \in Addr, NEW data \in Calldata,
         NEW r, r = OwnershipCall(u, caller, data)
  PROVE  r \in Result /\ Quiet(u, r.w)
<1>1. CASE r = Revert(u)
  <2>1. r \in Result /\ r.w = u
    BY <1>1, SMT DEF Revert, Result
  <2>2. QED
    BY <2>1, QuietNone
<1>2. ASSUME NEW n \in [owner : Addr, pending : Addr], r = Ok([u EXCEPT !.proxy = n])
      PROVE  r \in Result /\ Quiet(u, r.w)
  <2> DEFINE v == [u EXCEPT !.proxy = n]
  <2>1. /\ v \in World /\ v.bal = u.bal /\ v.marked = u.marked /\ v.allow = u.allow
        /\ v.existed = u.existed /\ v.minted = u.minted /\ v.burned = u.burned
        /\ v.paid = u.paid
    BY DEF World
  <2>2. r = [ok |-> TRUE, w |-> v]
    BY <1>2 DEF Ok
  <2> HIDE DEF v
  <2>3. r \in Result /\ r.w = v
    BY <2>1, <2>2, SMT DEF Result
  <2>4. Steps(u, v, {})
    BY <2>1, WorldNumbers DEF Steps
  <2>5. v.bal[Mint] <= u.bal[Mint]
    BY <2>1, WorldNumbers, FramesAssumption, SMT
  <2>6. QED
    BY <2>1, <2>3, <2>4, <2>5 DEF Quiet
<1>3. u.proxy \in [owner : Addr, pending : Addr] /\ data.who \in Addr /\ Zero \in Addr
  BY FramesAssumption DEF World, Calldata
<1>4. \/ r = Revert(u)
      \/ r = Ok([u EXCEPT !.proxy.pending = data.who])
      \/ r = Ok([u EXCEPT !.proxy = [owner |-> caller, pending |-> Zero]])
      \/ r = Ok([u EXCEPT !.proxy.pending = Zero])
  BY DEF OwnershipCall
<1>5. ASSUME NEW a \in Addr, r = Ok([u EXCEPT !.proxy.pending = a])
      PROVE  r \in Result /\ Quiet(u, r.w)
  <2> DEFINE n == [u.proxy EXCEPT !.pending = a]
  <2>1. n \in [owner : Addr, pending : Addr]
    BY <1>3
  <2>2. [u EXCEPT !.proxy.pending = a] = [u EXCEPT !.proxy = n]
    BY DEF World
  <2> HIDE DEF n
  <2>3. QED
    BY <1>2, <1>5, <2>1, <2>2
<1>6. [owner |-> caller, pending |-> Zero] \in [owner : Addr, pending : Addr]
  BY <1>3
<1>7. QED
  BY <1>1, <1>2, <1>3, <1>4, <1>5, <1>6

(* An account of the precompile with a balance or a list is held.          *)
Secured(v) == v.bal[Mint] > 0 \/ v.allow # {} => Held(v)

(* Within a transaction also one that existed at its beginning.            *)
Safe(v) == Secured(v) /\ (v.existed => Held(v))

(* Quiet steps keep a safe world safe.                                     *)
LEMMA QuietSafe ==
  ASSUME NEW u \in World, NEW v, Quiet(u, v), Safe(u)
  PROVE  Safe(v)
<1>1. v \in World
  BY DEF Quiet, Steps
<1>2. u.bal[Mint] \in Nat /\ v.bal[Mint] \in Nat
  BY <1>1, WorldNumbers, FramesAssumption
<1>3. v.bal[Mint] > 0 => u.bal[Mint] > 0 \/ v.paid
  BY <1>2, SMT DEF Quiet
<1>4. v.allow = u.allow /\ v.existed = u.existed /\ (Held(u) => Held(v))
  BY DEF Quiet, Steps, Held
<1>5. QED
  BY <1>3, <1>4 DEF Safe, Secured, Held

(* What a call may change on the list.                                     *)
Changes(caller, to, data) == IF to = Mint THEN Named(caller, data) ELSE {}

(* The code that a call reaches, after the value moved.                    *)
LEMMA DispatchQuiet ==
  ASSUME NEW u \in World, NEW h, NEW caller \in Addr, NEW to, NEW value, NEW data \in Calldata,
         to # Mint, NEW r, r = Dispatch(u, h, caller, to, value, data)
  PROVE  r \in Result /\ Quiet(u, r.w)
<1>1. CASE to = Vault
  <2>1. r = VaultCall(u, h, caller, value, data)
    BY <1>1, FramesAssumption DEF Dispatch
  <2>2. QED
    BY <2>1, VaultCallSteps
<1>2. ASSUME r = Ok(u) \/ r = Revert(u) PROVE r \in Result /\ Quiet(u, r.w)
  <2>1. CASE r = Ok(u)
    BY <2>1, QuietNone, SMT DEF Ok, Result
  <2>2. CASE r = Revert(u)
    BY <2>2, QuietNone, SMT DEF Revert, Result
  <2>3. QED
    BY <1>2, <2>1, <2>2
<1>3. CASE to = Proxy
  <2>1. r = OwnershipCall(u, caller, data) \/ r = Ok(u) \/ r = Revert(u)
    BY <1>3, FramesAssumption DEF Dispatch
  <2>2. QED
    BY <1>2, <2>1, OwnershipSteps
<1>4. CASE to \notin {Vault, Proxy}
  <2>1. r = Ok(u)
    BY <1>4 DEF Dispatch
  <2>2. QED
    BY <1>2, <2>1
<1>5. QED
  BY <1>1, <1>3, <1>4

(* A call with value, whatever its target does.                            *)
LEMMA CallSteps ==
  ASSUME NEW u \in World, NEW h, NEW caller \in Addr, NEW to \in Addr, NEW value \in Amount,
         NEW data \in Calldata, NEW r, r = Call(u, h, caller, to, value, data)
  PROVE  /\ r \in Result /\ Steps(u, r.w, Changes(caller, to, data))
         /\ ~r.ok => r.w = u
         /\ Safe(u) => Safe(r.w)
<1> DEFINE moved == Transfer(u, caller, to, value)
           m == moved.w
           d == Dispatch(m, h, caller, to, value, data)
<1>1. /\ moved \in Result /\ Steps(u, m, {}) /\ Quiet(u, m)
      /\ ~moved.ok => m = u
  <2>1. /\ moved \in Result /\ Steps(u, m, {})
        /\ ~moved.ok => m = u
    BY TransferSteps, SMT
  <2>2. QED
    BY <2>1, TransferQuiet
<1>2. m \in World
  BY <1>1 DEF Steps
<1>3. r = IF moved.ok THEN IF d.ok THEN d ELSE Revert(u) ELSE moved
  BY DEF Call, Frame
<1>4. ASSUME r = Revert(u) \/ (r = moved /\ ~moved.ok)
      PROVE  /\ r \in Result /\ Steps(u, r.w, Changes(caller, to, data))
             /\ r.w = u
  <2>1. CASE r = Revert(u)
    BY <2>1, StepsNone, SMT DEF Revert, Result
  <2>2. CASE r = moved /\ ~moved.ok
    BY <1>1, <2>2, StepsNone
  <2>3. QED
    BY <1>4, <2>1, <2>2
<1>5. CASE ~(moved.ok /\ d.ok)
  <2>1. r = Revert(u) \/ (r = moved /\ ~moved.ok)
    BY <1>3, <1>5
  <2> HIDE DEF moved
  <2>2. r \in Result /\ Steps(u, r.w, Changes(caller, to, data)) /\ r.w = u
    BY <1>4, <2>1
  <2>3. QED
    BY <2>2
<1>6. CASE moved.ok /\ d.ok /\ to # Mint
  <2>1. r = d /\ Changes(caller, to, data) = {}
    BY <1>3, <1>6 DEF Changes
  <2>2. Quiet(u, m)
    BY <1>1
  <2>3. d \in Result /\ Quiet(m, d.w)
    <3> HIDE DEF m
    <3>1. QED
      BY <1>2, <1>6, DispatchQuiet
  <2> HIDE DEF d, m, moved
  <2>4. Quiet(u, d.w)
    BY <2>2, <2>3, QuietThen
  <2>5. Steps(u, d.w, {})
    BY <2>4 DEF Quiet
  <2>6. QED
    BY <1>6, <2>1, <2>3, <2>4, <2>5, QuietSafe
<1>7. CASE moved.ok /\ d.ok /\ to = Mint /\ ~MintInstalled(h)
  <2>1. r = [ok |-> TRUE, w |-> m]
    BY <1>3, <1>7, FramesAssumption DEF Dispatch, Ok
  <2> HIDE DEF m, d, moved
  <2>2. r \in Result /\ r.w = m /\ r.ok
    BY <1>2, <2>1, SMT DEF Result
  <2>3. Steps(u, m, Changes(caller, to, data))
    <3> DEFINE S == Changes(caller, to, data)
    <3>1. Steps(m, m, S)
      BY <1>2, StepsNone
    <3> HIDE DEF S
    <3>2. Steps(u, m, {} \cup S)
      BY <1>1, <3>1, StepsThen
    <3>3. {} \cup S = S
      OBVIOUS
    <3>4. QED
      BY <3>2, <3>3 DEF S
  <2>4. QED
    BY <1>1, <2>2, <2>3, QuietSafe
<1>8. CASE moved.ok /\ d.ok /\ to = Mint /\ MintInstalled(h)
  <2>1. r = d /\ d = MintCall(m, caller, data) /\ Changes(caller, to, data) = Named(caller, data)
    BY <1>3, <1>8, FramesAssumption DEF Dispatch, Changes
  <2> HIDE DEF m, d, moved
  <2>2. /\ d \in Result /\ Steps(m, d.w, Named(caller, data)) /\ Apart(m, d.w)
        /\ d.ok /\ (m.existed => Held(m)) => Held(d.w) \/ Elsewhere(m, d.w, caller)
    BY <1>2, <2>1, MintCallSteps
  <2>3. Steps(u, d.w, Named(caller, data))
    <3> DEFINE S == Named(caller, data)
    <3> HIDE DEF S
    <3>1. Steps(u, d.w, {} \cup S)
      BY <1>1, <2>2, StepsThen DEF S
    <3>2. {} \cup S = S
      OBVIOUS
    <3>3. QED
      BY <3>1, <3>2 DEF S
  <2>4. ASSUME Safe(u) PROVE Safe(d.w)
    <3>1. Safe(m)
      BY <1>1, <2>4, QuietSafe
    <3>2. Held(d.w) \/ Elsewhere(m, d.w, caller)
      BY <1>8, <2>2, <3>1 DEF Safe
    <3>3. d.w.existed = m.existed /\ (Held(m) => Held(d.w))
      BY <2>2 DEF Steps, Held
    <3>4. QED
      BY <3>1, <3>2, <3>3 DEF Safe, Secured, Elsewhere
  <2>5. QED
    BY <1>8, <2>1, <2>2, <2>3, <2>4
<1>9. QED
  BY <1>5, <1>6, <1>7, <1>8

(* The calls that the proxy forwards.                                      *)
Forwards == [to : Addr, value : Amount, data : Calldata]

(* The accounts whose place on the list a batch may change.                *)
Granted(calls) == {a \in Addr : Grants(calls, a)}

(* One call that the proxy forwards.                                       *)
LEMMA ForwardSteps ==
  ASSUME NEW u \in World, NEW h, NEW calls \in Seq(Forwards), NEW i \in 1 .. Len(calls),
         NEW r, r = Forward(u, h, calls[i])
  PROVE  /\ r \in Result /\ Steps(u, r.w, Granted(calls))
         /\ Safe(u) => Safe(r.w)
<1> DEFINE c == calls[i]
           S == Changes(Proxy, c.to, c.data)
<1>1. c \in Forwards
  BY SMT
<1>2. /\ c.to \in Addr /\ c.value \in Amount /\ c.data \in Calldata /\ c.data.who \in Addr
      /\ Proxy \in Addr
  BY <1>1, FramesAssumption DEF Forwards, Calldata
<1>3. S \subseteq Granted(calls)
  <2>1. ASSUME NEW a \in S PROVE a \in Granted(calls)
    <3>1. c.to = Mint /\ a \in Named(Proxy, c.data)
      BY DEF Changes
    <3>2. c.data.fn \in {"addToAllowList", "removeFromAllowList"} /\ a = c.data.who
      BY <3>1 DEF Named
    <3>3. QED
      BY <1>2, <3>1, <3>2 DEF Granted, Grants
  <2>2. QED
    BY <2>1
<1>4. r = Call(u, h, Proxy, c.to, c.value, c.data)
  BY DEF Forward
<1> HIDE DEF c
<1>5. /\ r \in Result /\ Steps(u, r.w, S)
      /\ Safe(u) => Safe(r.w)
  <2>1. PICK to \in Addr, value \in Amount, data \in Calldata :
          to = c.to /\ value = c.value /\ data = c.data
    BY <1>2
  <2>2. r = Call(u, h, Proxy, to, value, data)
    BY <1>4, <2>1
  <2>3. /\ r \in Result /\ Steps(u, r.w, Changes(Proxy, to, data))
        /\ Safe(u) => Safe(r.w)
    BY <1>2, <2>2, CallSteps, SMT
  <2>4. QED
    BY <2>1, <2>3
<1>6. Steps(u, r.w, Granted(calls))
  <2> HIDE DEF S
  <2>1. QED
    BY <1>3, <1>5 DEF Steps
<1>7. QED
  BY <1>5, <1>6

(* execute, executeBatch and executeWithValue.                             *)
LEMMA ExecuteSteps ==
  ASSUME NEW u \in World, NEW h, NEW caller, NEW calls \in Seq(Forwards),
         NEW r, r = Execute(u, h, caller, calls)
  PROVE  /\ r \in Result /\ Steps(u, r.w, Granted(calls))
         /\ caller # u.proxy.owner => r.w = u
         /\ Safe(u) => Safe(r.w)
<1> DEFINE n == Len(calls)
           f == [i \in 1 .. n |-> [x \in Result |->
                  IF x.ok THEN Forward(x.w, h, calls[i]) ELSE x]]
           E(s) == [i \in 0 .. n |-> IF i = 0 THEN Ok(u)
                                     ELSE IF s[i - 1].ok THEN Forward(s[i - 1].w, h, calls[i])
                                     ELSE s[i - 1]]
           done == CHOOSE s : s = E(s)
           Fine(x) == x \in Result /\ Steps(u, x.w, Granted(calls)) /\ (Safe(u) => Safe(x.w))
<1>1. n \in Nat
  BY SMT
<1>2. CASE caller # u.proxy.owner
  <2>1. r = Revert(u)
    BY <1>2 DEF Execute
  <2>2. r \in Result /\ r.w = u
    BY <2>1, SMT DEF Revert, Result
  <2>3. QED
    BY <2>2, StepsNone
<1>3. CASE caller = u.proxy.owner
  <2>1. r = IF done[n].ok THEN done[n] ELSE Revert(u)
    BY <1>3 DEF Execute, Frame
  <2>2. ASSUME NEW x \in Result, NEW i \in 1 .. n
        PROVE  (IF x.ok THEN Forward(x.w, h, calls[i]) ELSE x) \in Result
    <3>1. x.w \in World
      BY DEF Result
    <3>2. Forward(x.w, h, calls[i]) \in Result
      BY <3>1, ForwardSteps
    <3>3. QED
      BY <3>2
  <2>3. f \in [1 .. n -> [Result -> Result]]
    BY <2>2
  <2>4. Ok(u) \in Result /\ Ok(u).w = u
    BY DEF Ok, Result
  <2>5. PICK s \in [0 .. n -> Result] : Follows(s, n, Ok(u), f)
    <3> HIDE DEF f, n
    <3>1. QED
      BY <1>1, <2>3, <2>4, Recursion
  <2>6. s = E(s)
    <3>1. ASSUME NEW i \in 1 .. n
          PROVE  s[i] = IF s[i - 1].ok THEN Forward(s[i - 1].w, h, calls[i]) ELSE s[i - 1]
      <4>1. i - 1 \in 0 .. n
        BY <1>1, SMT
      <4>2. s[i - 1] \in Result /\ s[i] = f[i][s[i - 1]]
        BY <2>5, <4>1 DEF Follows
      <4>3. QED
        BY <4>2
    <3>2. \A i \in 0 .. n : s[i] = E(s)[i]
      <4> TAKE i \in 0 .. n
      <4>1. i = 0 \/ i \in 1 .. n
        BY <1>1, SMT
      <4>2. QED
        BY <2>5, <3>1, <4>1 DEF Follows
    <3>3. QED
      BY <3>2
  <2>7. done = E(done)
    <3> HIDE DEF E
    <3>1. QED
      BY <2>6
  <2> HIDE DEF done
  <2>8. /\ done[0] = Ok(u)
        /\ \A i \in 1 .. n : done[i] = IF done[i - 1].ok
                                      THEN Forward(done[i - 1].w, h, calls[i]) ELSE done[i - 1]
    <3>1. \A i \in 0 .. n : done[i] = IF i = 0 THEN Ok(u)
                                      ELSE IF done[i - 1].ok
                                      THEN Forward(done[i - 1].w, h, calls[i]) ELSE done[i - 1]
      BY <2>7
    <3>2. 0 \in 0 .. n /\ \A i \in 1 .. n : i \in 0 .. n /\ i # 0
      BY <1>1, SMT
    <3>3. QED
      BY <3>1, <3>2
  <2>9. Fine(done[0])
    BY <2>4, <2>8, StepsNone
  <2>10. ASSUME NEW x, NEW i \in 1 .. n, Fine(x)
         PROVE  Fine(IF x.ok THEN Forward(x.w, h, calls[i]) ELSE x)
    <3> DEFINE y == Forward(x.w, h, calls[i])
               G == Granted(calls)
    <3>1. x.w \in World /\ Steps(u, x.w, G)
      BY <2>10 DEF Result
    <3>2. /\ y \in Result /\ Steps(x.w, y.w, G)
          /\ Safe(x.w) => Safe(y.w)
      BY <3>1, ForwardSteps
    <3> HIDE DEF y, G
    <3>3. Steps(u, y.w, G \cup G)
      BY <3>1, <3>2, StepsThen
    <3>4. G \cup G = G
      OBVIOUS
    <3>5. Fine(y)
      BY <2>10, <3>2, <3>3, <3>4 DEF G
    <3>6. QED
      BY <2>10, <3>5 DEF y
  <2> DEFINE B == {i \in 0 .. n : Fine(done[i])}
  <2> HIDE DEF Fine
  <2>11. ASSUME NEW i \in 0 .. n, i < n, i \in B PROVE i + 1 \in B
    <3>1. i + 1 \in 1 .. n /\ i + 1 \in 0 .. n /\ (i + 1) - 1 = i
      <4>1. n \in Nat /\ i < n
        BY <1>1, <2>11
      <4> HIDE DEF n
      <4>2. QED
        BY <4>1, SMT
    <3>2. done[i + 1] = IF done[(i + 1) - 1].ok
                        THEN Forward(done[(i + 1) - 1].w, h, calls[i + 1])
                        ELSE done[(i + 1) - 1]
      BY <2>8, <3>1
    <3>3. Fine(done[i])
      BY <2>11
    <3>4. Fine(done[i + 1])
      BY <2>10, <3>1, <3>2, <3>3
    <3>5. QED
      BY <3>1, <3>4
  <2>12. 0 \in B
    BY <1>1, <2>9, SMT
  <2>13. n \in B
    <3>1. \A i \in 0 .. n : i < n /\ i \in B => i + 1 \in B
      BY <2>11
    <3> HIDE DEF B, n
    <3>2. \A i \in 0 .. n : i \in B
      BY <1>1, <2>12, <3>1, IntervalInductive
    <3>3. QED
      BY <1>1, <3>2, SMT
  <2>14. Fine(done[n])
    BY <2>13
  <2>15. Fine(Revert(u))
    <3>1. Revert(u) \in Result /\ Revert(u).w = u
      BY DEF Revert, Result
    <3>2. QED
      BY <3>1, StepsNone DEF Fine
  <2>16. Fine(r)
    BY <2>1, <2>14, <2>15
  <2>17. QED
    BY <1>3, <2>16 DEF Fine
<1>4. QED
  BY <1>2, <1>3

-----------------------------------------------------------------------------
(* Transactions.                                                           *)

(* A transaction begins with what the last one left.                       *)
LEMMA BeginSteps ==
  ASSUME NEW u \in World, NEW v, v = Begin(u)
  PROVE  /\ v \in World /\ v.bal = u.bal /\ v.allow = u.allow /\ v.marked = u.marked
         /\ v.minted = u.minted /\ v.burned = u.burned
         /\ v.proxy = u.proxy /\ v.vault = u.vault /\ v.paid = u.paid /\ ~v.touched
         /\ v.existed => u.marked \/ u.bal[Mint] > 0
<1> DEFINE e == MintExists(u)
<1>1. u.bal[Mint] \in Nat /\ u.marked \in BOOLEAN
  BY WorldNumbers, FramesAssumption DEF World
<1>2. e \in BOOLEAN /\ (e => u.marked \/ u.bal[Mint] > 0)
  BY <1>1 DEF MintExists
<1>3. v = [u EXCEPT !.existed = e, !.touched = FALSE]
  BY DEF Begin
<1> HIDE DEF e
<1>4. /\ v \in World /\ v.bal = u.bal /\ v.allow = u.allow /\ v.marked = u.marked
      /\ v.minted = u.minted /\ v.burned = u.burned
      /\ v.proxy = u.proxy /\ v.vault = u.vault /\ v.paid = u.paid /\ v.touched = FALSE
      /\ v.existed = e
  BY <1>2, <1>3 DEF World
<1>5. QED
  BY <1>2, <1>4

(* Clearing moves nothing; it does nothing at all, or takes the list of an *)
(* account that is not marked and holds nothing.                           *)
LEMMA ClearSteps ==
  ASSUME NEW u \in World, NEW v, v = Clear(u)
  PROVE  /\ v \in World /\ v.bal = u.bal /\ v.marked = u.marked /\ v.existed = u.existed
         /\ v.minted = u.minted /\ v.burned = u.burned
         /\ v.proxy = u.proxy /\ v.vault = u.vault
         /\ ~u.touched => v = u
         /\ v = u \/ (~u.marked /\ v.bal[Mint] = 0 /\ v.allow = {})
<1>1. CASE ~(u.touched /\ ~MintExists(u))
  BY <1>1 DEF Clear
<1>2. CASE u.touched /\ ~MintExists(u)
  <2>1. v = [u EXCEPT !.allow = {}, !.paid = FALSE]
    BY <1>2 DEF Clear
  <2>2. /\ v \in World /\ v.bal = u.bal /\ v.marked = u.marked /\ v.existed = u.existed
        /\ v.minted = u.minted /\ v.burned = u.burned
        /\ v.proxy = u.proxy /\ v.vault = u.vault /\ v.allow = {}
    BY <2>1 DEF World
  <2>3. u.bal[Mint] = 0
    BY <1>2, WorldNumbers, FramesAssumption, SMT DEF MintExists
  <2>4. QED
    BY <1>2, <2>2, <2>3 DEF MintExists
<1>3. QED
  BY <1>1, <1>2

(* The invariant of the theorems: a world at every block.                  *)
IInv == w \in World /\ height \in Nat /\ SupplyIsAccounted

(* The frame of a transaction, from the world at its beginning.            *)
LEMMA DirectFrame ==
  ASSUME IInv, NEW u \in User, NEW to \in Addr, NEW value \in Values, NEW data \in Calldata,
         Direct(u, to, value, data)
  PROVE  \E r \in Result :
           /\ Steps(Begin(w), r.w, {}) /\ w' = Clear(r.w)
           /\ Safe(Begin(w)) => Safe(r.w)
<1> DEFINE v == Begin(w)
           r == Call(v, height, u, to, value, data)
<1>1. w' = Clear(r.w)
  BY DEF Direct, Transact
<1>2. v \in World
  BY BeginSteps DEF IInv
<1>3. u \in Addr /\ u # Proxy /\ value \in Amount
  BY TreasuryAssumption DEF Amount
<1>4. Changes(u, to, data) = {}
  BY <1>3 DEF Changes, Named
<1> HIDE DEF v
<1>5. /\ r \in Result /\ Steps(v, r.w, {})
      /\ Safe(v) => Safe(r.w)
  <2>1. /\ r \in Result /\ Steps(v, r.w, Changes(u, to, data))
        /\ Safe(v) => Safe(r.w)
    BY <1>2, <1>3, CallSteps, SMT
  <2>2. QED
    BY <1>3, <1>4, <2>1
<1> HIDE DEF r
<1>6. QED
  BY <1>1, <1>5 DEF v

(* The same for a transaction to the proxy; of anyone but its owner it     *)
(* reverts.                                                                *)
LEMMA ForwardedFrame ==
  ASSUME IInv, NEW u, NEW calls \in Batches, Forwarded(u, calls)
  PROVE  \E r \in Result :
           /\ Steps(Begin(w), r.w, Granted(calls)) /\ w' = Clear(r.w)
           /\ u # w.proxy.owner => r.w = Begin(w)
           /\ Safe(Begin(w)) => Safe(r.w)
<1> DEFINE v == Begin(w)
           r == Execute(v, height, u, calls)
<1>1. w' = Clear(r.w)
  BY DEF Forwarded, Transact
<1>2. v \in World /\ v.proxy = w.proxy
  BY BeginSteps DEF IInv
<1>3. calls \in Seq(Forwards)
  BY TreasuryAssumption DEF Forwards, Amount
<1> HIDE DEF v
<1>4. /\ r \in Result /\ Steps(v, r.w, Granted(calls))
      /\ u # v.proxy.owner => r.w = v
      /\ Safe(v) => Safe(r.w)
  BY <1>2, <1>3, ExecuteSteps
<1> HIDE DEF r
<1>5. QED
  BY <1>1, <1>2, <1>4 DEF v

(* A transaction keeps the books.                                          *)
LEMMA BooksKept ==
  ASSUME IInv, NEW S, NEW r \in Result, Steps(Begin(w), r.w, S), w' = Clear(r.w)
  PROVE  w' \in World /\ SupplyIsAccounted'
<1> DEFINE v == Begin(w)
           t == Total(w.bal)
           x == Total(r.w.bal)
           g == Total(GenesisBalances)
<1>1. r.w \in World /\ w \in World
  BY DEF Result, IInv
<1>2. v.bal = w.bal /\ v.minted = w.minted /\ v.burned = w.burned
  BY <1>1, BeginSteps
<1>3. /\ w' \in World /\ w'.bal = r.w.bal /\ w'.minted = r.w.minted /\ w'.burned = r.w.burned
  BY <1>1, ClearSteps, SMT
<1>4. x + r.w.burned + w.minted = t + w.burned + r.w.minted
  BY <1>2 DEF Steps
<1>5. t + w.burned = g + w.minted
  BY DEF IInv, SupplyIsAccounted
<1>6. /\ t \in Nat /\ x \in Nat /\ w.minted \in Nat /\ w.burned \in Nat
      /\ r.w.minted \in Nat /\ r.w.burned \in Nat
  BY <1>1, WorldNumbers
<1>7. g \in Nat
  <2>1. GenesisBalances \in Balances
    BY TreasuryAssumption, FramesAssumption, SMT DEF GenesisBalances, Balances, Amount
  <2>2. QED
    BY <2>1, TotalType
<1>8. x + r.w.burned = g + r.w.minted
  <2> DEFINE rb == r.w.burned
             rm == r.w.minted
             wb == w.burned
             wm == w.minted
  <2>1. x + rb + wm = t + wb + rm /\ t + wb = g + wm
    BY <1>4, <1>5
  <2>2. /\ t \in Nat /\ x \in Nat /\ g \in Nat
        /\ rb \in Nat /\ rm \in Nat /\ wb \in Nat /\ wm \in Nat
    BY <1>6, <1>7
  <2> HIDE DEF t, x, g, rb, rm, wb, wm
  <2>3. x + rb = g + rm
    BY <2>1, <2>2, SMT
  <2>4. QED
    BY <2>3 DEF rb, rm
<1> HIDE DEF t, x, g
<1>9. Total(w'.bal) + w'.burned = g + w'.minted
  BY <1>3, <1>8 DEF x
<1>10. QED
  BY <1>3, <1>9 DEF SupplyIsAccounted, g, Total, Wei

(* The books are balanced at genesis.                                      *)
LEMMA InitIInv ==
  ASSUME Init
  PROVE  IInv
<1>1. PICK a \in Vaults, owner \in User :
        w = [bal |-> GenesisBalances, marked |-> FALSE, allow |-> {}, existed |-> FALSE,
             touched |-> FALSE, paid |-> FALSE, minted |-> 0, burned |-> 0,
             proxy |-> [owner |-> owner, pending |-> Zero],
             vault |-> NewVault(Proxy, a.minimum, a.fee, a.share, a.other)]
  BY DEF Init
<1>2. GenesisBalances \in Balances
  BY TreasuryAssumption, FramesAssumption, SMT DEF GenesisBalances, Balances, Amount
<1> DEFINE n == NewVault(Proxy, a.minimum, a.fee, a.share, a.other)
           p == [owner |-> owner, pending |-> Zero]
<1>3. n \in [owner : Addr, bridge : Addr, other : Addr, minimum : Nat, fee : Nat,
            share : 0 .. FullShare]
  <2>1. /\ a.minimum \in Nat /\ a.fee \in Nat /\ a.share \in 0 .. FullShare /\ a.other \in Addr
        /\ Proxy \in Addr /\ Zero \in Addr
    BY TreasuryAssumption, FramesAssumption
  <2>2. (IF a.share = 0 THEN FullShare ELSE a.share) \in 0 .. FullShare
    BY <2>1, ShareAssumption, SMT
  <2>3. QED
    BY <2>1, <2>2 DEF NewVault
<1>4. p \in [owner : Addr, pending : Addr]
  BY TreasuryAssumption, FramesAssumption
<1> HIDE DEF n, p
<1>5. w = [bal |-> GenesisBalances, marked |-> FALSE, allow |-> {}, existed |-> FALSE,
           touched |-> FALSE, paid |-> FALSE, minted |-> 0, burned |-> 0, proxy |-> p, vault |-> n]
  BY <1>1 DEF n, p
<1>6. w \in World /\ w.bal = GenesisBalances /\ w.minted = 0 /\ w.burned = 0
  BY <1>2, <1>3, <1>4, <1>5 DEF World
<1>7. Total(GenesisBalances) \in Nat
  BY <1>2, TotalType
<1>8. SupplyIsAccounted
  BY <1>6, <1>7 DEF SupplyIsAccounted
<1>9. height \in Nat
  BY DEF Init
<1>10. QED
  BY <1>6, <1>8, <1>9 DEF IInv

(* Every transaction and every block keep the books balanced.              *)
LEMMA NextIInv ==
  ASSUME IInv, [Next]_vars
  PROVE  IInv'
<1>1. ASSUME NEW u \in User, NEW c \in Calls, NEW value \in Values,
             Direct(u, c.to, value, c.data)
      PROVE  IInv'
  <2>1. c.to \in Addr /\ c.data \in Calldata
    BY TreasuryAssumption
  <2>2. PICK r \in Result : Steps(Begin(w), r.w, {}) /\ w' = Clear(r.w)
    BY <1>1, <2>1, DirectFrame
  <2>3. w' \in World /\ SupplyIsAccounted'
    BY <2>2, BooksKept
  <2>4. height' = height
    BY <1>1 DEF Direct, Transact
  <2>5. QED
    BY <2>3, <2>4 DEF IInv
<1>2. ASSUME NEW u \in User, NEW calls \in Batches, Forwarded(u, calls) PROVE IInv'
  <2>1. PICK r \in Result : Steps(Begin(w), r.w, Granted(calls)) /\ w' = Clear(r.w)
    BY <1>2, ForwardedFrame
  <2>2. w' \in World /\ SupplyIsAccounted'
    BY <2>1, BooksKept
  <2>3. height' = height
    BY <1>2 DEF Forwarded, Transact
  <2>4. QED
    BY <2>2, <2>3 DEF IInv
<1>3. CASE NextBlock
  <2>1. w' = w /\ height' \in Nat
    BY <1>3, TreasuryAssumption, SMT DEF NextBlock, IInv
  <2>2. QED
    BY <2>1 DEF IInv, SupplyIsAccounted, Total, Wei
<1>4. CASE UNCHANGED vars
  BY <1>4 DEF vars, IInv, SupplyIsAccounted, Total, Wei
<1>5. QED
  BY <1>1, <1>2, <1>3, <1>4 DEF Next

-----------------------------------------------------------------------------
(* The theorems.                                                           *)

(* The world keeps its type and its books balanced in every state.         *)
THEOREM Invariance == Spec => []IInv
<1>1. Init => IInv
  BY InitIInv
<1>2. IInv /\ [Next]_vars => IInv'
  BY NextIInv
<1>3. QED
  BY <1>1, <1>2, PTL DEF Spec

(* Balances are those of genesis, plus what mint created and minus what    *)
(* burn destroyed, through every transfer, revert, batch and distribution. *)
THEOREM SupplyAccounted == Spec => []SupplyIsAccounted
<1>1. IInv => SupplyIsAccounted
  BY DEF IInv
<1>2. QED
  BY <1>1, Invariance, PTL

(* What AllowlistByOwnerOrEmptied says of an account.                      *)
Accounted(a) == (a \in w'.allow) # (a \in w.allow) => GrantedByOwner(a) \/ Emptied

(* A transaction from the world v it begins with: it leaves an account     *)
(* that has a list held, and takes the list only with an account that was  *)
(* paid and never marked.                                                  *)
LEMMA AllowlistOutcome ==
  ASSUME IInv, Secured(w), NEW S, NEW r \in Result, w' = Clear(r.w),
         Steps(Begin(w), r.w, S), Safe(Begin(w)) => Safe(r.w)
  PROVE  /\ Secured(w)'
         /\ \A a \in Addr \ S : (a \in w'.allow) # (a \in w.allow) => Emptied
<1> DEFINE v == Begin(w)
<1>1. w \in World /\ r.w \in World
  BY DEF IInv, Result
<1>2. /\ v \in World /\ v.allow = w.allow /\ v.marked = w.marked /\ v.bal = w.bal
      /\ v.paid = w.paid /\ (v.existed => w.marked \/ w.bal[Mint] > 0)
  BY <1>1, BeginSteps
<1> HIDE DEF v
<1>3. Safe(r.w)
  BY <1>2 DEF Safe, Secured, Held, v
<1>4. Steps(v, r.w, S)
  BY DEF v
<1>5. /\ w'.bal = r.w.bal
      /\ w' = r.w \/ (~r.w.marked /\ w'.bal[Mint] = 0 /\ w'.allow = {})
  BY <1>1, ClearSteps
<1>6. CASE w' = r.w
  <2>1. Secured(w)'
    BY <1>3, <1>6 DEF Safe, Secured, Held
  <2>2. \A a \in Addr \ S : a \in w'.allow <=> a \in w.allow
    BY <1>2, <1>4, <1>6 DEF Steps
  <2>3. QED
    BY <2>1, <2>2, SMT
<1>7. CASE ~r.w.marked /\ w'.bal[Mint] = 0 /\ w'.allow = {}
  <2>1. ~(w'.bal[Mint] > 0)
    BY <1>7, SMT
  <2>2. Secured(w)'
    BY <1>7, <2>1 DEF Secured
  <2>3. ASSUME NEW a \in Addr, (a \in w'.allow) # (a \in w.allow) PROVE Emptied
    <3>1. w.allow # {}
      BY <1>7, <2>3
    <3>2. ~w.marked
      BY <1>2, <1>4, <1>7 DEF Steps
    <3>3. QED
      BY <1>7, <3>1, <3>2 DEF Secured, Held, Emptied
  <2>4. QED
    BY <2>2, <2>3
<1>8. QED
  BY <1>5, <1>6, <1>7

(* Every step accounts for the changes of the allowlist.                   *)
LEMMA AllowlistStep ==
  ASSUME IInv, Secured(w), [Next]_vars
  PROVE  Secured(w)' /\ \A a \in Addr : Accounted(a)
<1>1. ASSUME NEW u \in User, NEW c \in Calls, NEW value \in Values,
             Direct(u, c.to, value, c.data)
      PROVE  Secured(w)' /\ \A a \in Addr : Accounted(a)
  <2>1. c.to \in Addr /\ c.data \in Calldata
    BY TreasuryAssumption
  <2>2. PICK r \in Result : /\ Steps(Begin(w), r.w, {}) /\ w' = Clear(r.w)
                            /\ Safe(Begin(w)) => Safe(r.w)
    BY <1>1, <2>1, DirectFrame
  <2>3. /\ Secured(w)'
        /\ \A a \in Addr \ {} : (a \in w'.allow) # (a \in w.allow) => Emptied
    BY <2>2, AllowlistOutcome
  <2>4. QED
    BY <2>3 DEF Accounted
<1>2. ASSUME NEW u \in User, NEW calls \in Batches, Forwarded(u, calls)
      PROVE  Secured(w)' /\ \A a \in Addr : Accounted(a)
  <2>1. PICK r \in Result : /\ Steps(Begin(w), r.w, Granted(calls)) /\ w' = Clear(r.w)
                            /\ u # w.proxy.owner => r.w = Begin(w)
                            /\ Safe(Begin(w)) => Safe(r.w)
    BY <1>2, ForwardedFrame
  <2>2. /\ Secured(w)'
        /\ \A a \in Addr \ Granted(calls) : (a \in w'.allow) # (a \in w.allow) => Emptied
    BY <2>1, AllowlistOutcome
  <2>3. CASE u # w.proxy.owner
    <3>1. w \in World /\ r.w \in World /\ r.w.allow = w.allow /\ ~r.w.touched
      BY <2>1, <2>3, BeginSteps DEF IInv, Result
    <3>2. w' = r.w
      BY <2>1, <3>1, ClearSteps
    <3>3. QED
      BY <2>2, <3>1, <3>2 DEF Accounted
  <2>4. CASE u = w.proxy.owner
    <3>1. ASSUME NEW a \in Addr PROVE Accounted(a)
      <4>1. CASE a \in Granted(calls)
        BY <1>2, <2>4, <4>1 DEF Granted, Accounted, GrantedByOwner
      <4>2. CASE a \notin Granted(calls)
        BY <2>2, <4>2 DEF Accounted
      <4>3. QED
        BY <4>1, <4>2
    <3>2. QED
      BY <2>2, <3>1
  <2>5. QED
    BY <2>3, <2>4
<1>3. CASE UNCHANGED w
  BY <1>3 DEF Secured, Held, Accounted
<1>4. QED
  BY <1>1, <1>2, <1>3 DEF Next, NextBlock, vars

(* Whatever the height of activation, the calls and the batches: nobody    *)
(* but the proxy's owner changes the allowlist, and for nobody else than   *)
(* the batch names, except that all of it goes when an account that was    *)
(* paid while it had neither code nor nonce is emptied.                    *)
THEOREM AllowlistOwned == Spec => AllowlistByOwnerOrEmptied
<1>1. Init => IInv /\ Secured(w)
  <2> SUFFICES ASSUME Init PROVE IInv /\ Secured(w)
    OBVIOUS
  <2>1. IInv
    BY InitIInv
  <2>2. w.allow = {} /\ w.bal = GenesisBalances
    BY SMT DEF Init
  <2>3. GenesisBalances[Mint] = 0
    BY TreasuryAssumption, FramesAssumption DEF GenesisBalances
  <2>4. QED
    BY <2>1, <2>2, <2>3, SMT DEF Secured
<1>2. IInv /\ Secured(w) /\ [Next]_vars => (IInv /\ Secured(w))'
  BY NextIInv, AllowlistStep
<1>3. IInv /\ Secured(w) /\ [Next]_vars =>
        [\A a \in Addr :
           (a \in w'.allow) # (a \in w.allow) => GrantedByOwner(a) \/ Emptied]_vars
  BY AllowlistStep DEF Accounted
<1>4. QED
  BY <1>1, <1>2, <1>3, PTL DEF Spec, AllowlistByOwnerOrEmptied

-----------------------------------------------------------------------------
(* Distributions.                                                          *)

(* A call of distribute by a user that changes a balance has succeeded.    *)
LEMMA DistributedFrame ==
  ASSUME IInv, NEW u \in User, NEW value \in Values,
         Direct(u, Vault, value, Distribute), w'.bal # w.bal
  PROVE  \E m \in World :
           /\ m.bal = Moved(w.bal, u, Vault, value) /\ m.vault = w.vault
           /\ BridgeAmount(m) >= m.vault.minimum
           /\ w'.bal = Moved(IF OtherAmount(m) = 0 THEN m.bal
                             ELSE Moved(m.bal, Vault, m.vault.other, OtherAmount(m)),
                             Vault, m.vault.bridge, BridgeAmount(m))
<1> DEFINE v == Begin(w)
           moved == Transfer(v, u, Vault, value)
           paid == distribute(moved.w, height, value)
           r == Call(v, height, u, Vault, value, Distribute)
<1>1. v \in World /\ v.bal = w.bal /\ v.vault = w.vault
  BY BeginSteps DEF IInv
<1>2. u \in Addr /\ value \in Amount /\ Vault \in Addr /\ Vault # Mint
  BY TreasuryAssumption, FramesAssumption DEF Amount
<1>3. w' = Clear(r.w)
  BY DEF Direct, Transact
<1>4. Dispatch(moved.w, height, u, Vault, value, Distribute) = paid
  BY <1>2, FramesAssumption DEF Dispatch, VaultCall, Distribute
<1>5. r = IF moved.ok THEN Frame(v, paid) ELSE moved
  BY <1>4 DEF Call
<1> HIDE DEF v, moved, paid, r
<1>6. /\ moved \in Result /\ moved.w.vault = v.vault /\ (~moved.ok => moved.w = v)
      /\ moved.ok => moved.w.bal = Moved(v.bal, u, Vault, value)
  BY <1>1, <1>2, TransferSteps, SMT DEF moved
<1>7. moved.w \in World /\ moved.ok \in BOOLEAN
  BY <1>6 DEF Result
<1>8. paid \in Result
  BY <1>7, DistributeSteps DEF paid
<1>9. ASSUME r.w = v PROVE FALSE
  BY <1>1, <1>3, <1>9, ClearSteps
<1>10. moved.ok
  BY <1>5, <1>6, <1>9
<1>11. paid.ok /\ r = paid
  BY <1>5, <1>9, <1>10 DEF Frame, Revert
<1>12. w'.bal = paid.w.bal
  BY <1>3, <1>8, <1>11, ClearSteps DEF Result
<1> DEFINE m == moved.w
<1>13. m \in World /\ paid = distribute(m, height, value)
  BY <1>7 DEF paid
<1>14. m.bal = Moved(w.bal, u, Vault, value) /\ m.vault = w.vault
  BY <1>1, <1>6, <1>10
<1> HIDE DEF m
<1>15. /\ BridgeAmount(m) >= m.vault.minimum
       /\ paid.w.bal = Moved(IF OtherAmount(m) = 0 THEN m.bal
                             ELSE Moved(m.bal, Vault, m.vault.other, OtherAmount(m)),
                             Vault, m.vault.bridge, BridgeAmount(m))
  BY <1>11, <1>13, DistributeSteps
<1>16. QED
  BY <1>12, <1>13, <1>14, <1>15

(* Two payments from the vault of all it has, as distribute makes them.    *)
Paying(bal, bridge, other, b, o, new) ==
  /\ bal \in Balances /\ bridge \in Addr /\ other \in Addr
  /\ bridge # other /\ bridge # Vault /\ other # Vault
  /\ b \in Nat /\ o \in Nat /\ bal[Vault] = b + o
  /\ new = Moved(IF o = 0 THEN bal ELSE Moved(bal, Vault, other, o), Vault, bridge, b)

(* What two payments from the vault leave, account by account.             *)
LEMMA Payments ==
  ASSUME NEW bal, NEW bridge, NEW other, NEW b, NEW o, NEW new,
         Paying(bal, bridge, other, b, o, new)
  PROVE  new[Vault] = 0 /\ new[bridge] = bal[bridge] + b /\ new[other] = bal[other] + o
<1> DEFINE mid == IF o = 0 THEN bal ELSE Moved(bal, Vault, other, o)
<1>0. /\ bal \in Balances /\ bridge \in Addr /\ other \in Addr
      /\ bridge # other /\ bridge # Vault /\ other # Vault
      /\ b \in Nat /\ o \in Nat /\ bal[Vault] = b + o
  BY DEF Paying
<1>1. /\ Vault \in Addr
      /\ bal[Vault] \in Nat /\ bal[bridge] \in Nat /\ bal[other] \in Nat
  BY <1>0, FramesAssumption, SMT DEF Balances, Amount
<1>2. mid[Vault] = b /\ mid[bridge] = bal[bridge] /\ mid[other] = bal[other] + o
  <2>1. CASE o = 0
    BY <1>0, <1>1, <2>1, SMT
  <2>2. CASE o # 0
    <3>1. mid = Moved(bal, Vault, other, o)
      BY <2>2
    <3>2. /\ mid[Vault] = bal[Vault] - o + 0 /\ mid[bridge] = bal[bridge] - 0 + 0
          /\ mid[other] = bal[other] - 0 + o
      BY <1>0, <1>1, <3>1 DEF Balances, Moved
    <3>3. QED
      BY <1>0, <1>1, <3>2, SMT
  <2>3. QED
    BY <2>1, <2>2
<1>3. mid \in [Addr -> Int]
  BY <1>0, <1>1, FramesAssumption, SMT DEF Balances, Amount, Moved
<1>4. new = Moved(mid, Vault, bridge, b)
  BY DEF Paying
<1> HIDE DEF mid
<1>5. /\ new[Vault] = mid[Vault] - b + 0 /\ new[bridge] = mid[bridge] - 0 + b
      /\ new[other] = mid[other] - 0 + 0
  BY <1>0, <1>1, <1>3, <1>4 DEF Moved
<1>6. QED
  BY <1>0, <1>1, <1>2, <1>5, SMT

(* What a distribution that succeeded paid, and to whom.                   *)
LEMMA DistributionStep ==
  ASSUME IInv, NEW u \in User, NEW value \in Values,
         Direct(u, Vault, value, Distribute), w'.bal # w.bal,
         w.vault.bridge # w.vault.other, Vault \notin {w.vault.bridge, w.vault.other}
  PROVE  LET total == w.bal[Vault] + value
             bridge == Gain(w.vault.bridge, u, value)
         IN /\ w'.bal[Vault] = 0
            /\ bridge * FullShare <= total * w.vault.share
            /\ (bridge + 1) * FullShare > total * w.vault.share
            /\ bridge >= w.vault.minimum
            /\ Gain(w.vault.other, u, value) = total - bridge
<1>1. PICK m \in World :
        /\ m.bal = Moved(w.bal, u, Vault, value) /\ m.vault = w.vault
        /\ BridgeAmount(m) >= m.vault.minimum
        /\ w'.bal = Moved(IF OtherAmount(m) = 0 THEN m.bal
                          ELSE Moved(m.bal, Vault, m.vault.other, OtherAmount(m)),
                          Vault, m.vault.bridge, BridgeAmount(m))
  BY DistributedFrame
<1>2. PICK b, o, n, x, y :
        /\ b = BridgeAmount(m) /\ o = OtherAmount(m) /\ n = m.bal[Vault]
        /\ x = w.vault.bridge /\ y = w.vault.other
  OBVIOUS
<1>3. /\ b \in Nat /\ o \in Nat /\ n \in Nat /\ o = n - b /\ n = b + o
      /\ b * FullShare <= n * w.vault.share
      /\ (b + 1) * FullShare > n * w.vault.share
  <2>1. /\ BridgeAmount(m) \in Amount /\ OtherAmount(m) \in Amount
        /\ m.bal[Vault] \in Nat /\ OtherAmount(m) = m.bal[Vault] - BridgeAmount(m)
        /\ BridgeAmount(m) * FullShare <= m.bal[Vault] * m.vault.share
        /\ (BridgeAmount(m) + 1) * FullShare > m.bal[Vault] * m.vault.share
    BY Amounts
  <2>2. /\ b \in Amount /\ o \in Amount /\ n \in Nat /\ o = n - b
        /\ b * FullShare <= n * m.vault.share
        /\ (b + 1) * FullShare > n * m.vault.share
    BY <1>2, <2>1
  <2>3. m.vault.share = w.vault.share
    BY <1>1
  <2>4. n = b + o
    BY <2>2, FramesAssumption, SMT DEF Amount
  <2>5. b \in Nat /\ o \in Nat
    BY <2>2, FramesAssumption, SMT DEF Amount
  <2>6. QED
    BY <2>2, <2>3, <2>4, <2>5
<1>4. /\ x \in Addr /\ y \in Addr /\ Vault \in Addr /\ u \in Addr /\ u # Vault
      /\ x # y /\ x # Vault /\ y # Vault /\ value \in Nat
      /\ m.bal \in Balances /\ w.bal \in Balances
  <2>1. w.vault.bridge \in Addr /\ w.vault.other \in Addr /\ w.bal \in Balances
    BY DEF IInv, World
  <2>2. x \in Addr /\ y \in Addr /\ x # y /\ x # Vault /\ y # Vault
    BY <1>2, <2>1
  <2>3. Vault \in Addr /\ u \in Addr /\ u # Vault /\ value \in Nat
    BY TreasuryAssumption, FramesAssumption, SMT
  <2>4. m.bal \in Balances
    BY DEF World
  <2>5. QED
    BY <2>1, <2>2, <2>3, <2>4
<1>5. w'.bal = Moved(IF o = 0 THEN m.bal ELSE Moved(m.bal, Vault, y, o), Vault, x, b)
  BY <1>1, <1>2
<1>6. /\ w'.bal[Vault] = 0 /\ w'.bal[x] = m.bal[x] + b /\ w'.bal[y] = m.bal[y] + o
  <2>1. PICK new, old : new = w'.bal /\ old = m.bal
    OBVIOUS
  <2>2. /\ new = Moved(IF o = 0 THEN old ELSE Moved(old, Vault, y, o), Vault, x, b)
        /\ old \in Balances /\ old[Vault] = b + o
    BY <1>2, <1>3, <1>4, <1>5, <2>1
  <2>3. new[Vault] = 0 /\ new[x] = old[x] + b /\ new[y] = old[y] + o
    <3>1. /\ x \in Addr /\ y \in Addr /\ x # y /\ x # Vault /\ y # Vault
          /\ b \in Nat /\ o \in Nat
      BY <1>3, <1>4
    <3>2. QED
      <4>1. Paying(old, x, y, b, o, new)
        BY <2>2, <3>1 DEF Paying
      <4>2. QED
        BY <4>1, Payments, SMT
  <2>4. QED
    BY <2>1, <2>3
<1>7. /\ n = w.bal[Vault] + value
      /\ m.bal[x] = w.bal[x] - (IF x = u THEN value ELSE 0)
      /\ m.bal[y] = w.bal[y] - (IF y = u THEN value ELSE 0)
      /\ w.bal[x] \in Nat /\ w.bal[y] \in Nat
  <2>1. w.bal[x] \in Nat /\ w.bal[y] \in Nat /\ w.bal[Vault] \in Nat
    BY <1>4, SMT DEF Balances, Amount
  <2>2. /\ m.bal[Vault] = w.bal[Vault] - 0 + value
        /\ m.bal[x] = w.bal[x] - (IF x = u THEN value ELSE 0) + 0
        /\ m.bal[y] = w.bal[y] - (IF y = u THEN value ELSE 0) + 0
    BY <1>1, <1>4 DEF Moved
  <2>3. n = w.bal[Vault] - 0 + value /\ value \in Nat
    BY <1>2, <1>4, <2>2
  <2>4. n = w.bal[Vault] + value
    BY <2>1, <2>3, SMT
  <2>5. /\ m.bal[x] = w.bal[x] - (IF x = u THEN value ELSE 0)
        /\ m.bal[y] = w.bal[y] - (IF y = u THEN value ELSE 0)
    BY <2>1, <2>2, <2>3, SMT
  <2>6. QED
    BY <2>1, <2>4, <2>5
<1>8. Gain(x, u, value) = b /\ Gain(y, u, value) = o
  <2>1. value \in Nat /\ b \in Nat /\ o \in Nat
    BY <1>3, <1>4
  <2>2. Gain(x, u, value) = b
    BY <1>6, <1>7, <2>1, SMT DEF Gain
  <2>3. Gain(y, u, value) = o
    BY <1>6, <1>7, <2>1, SMT DEF Gain
  <2>4. QED
    BY <2>2, <2>3
<1>9. b >= w.vault.minimum
  BY <1>1, <1>2
<1>10. QED
  BY <1>2, <1>3, <1>6, <1>7, <1>8, <1>9

(* A distribution that succeeds empties the vault, gives the bridge its    *)
(* share of all of it rounded down, the caller's payment included, and the *)
(* other recipient the rest; neither falls short of the other by rounding. *)
THEOREM DistributionsExact == Spec => DistributionIsExact
<1>1. IInv =>
        [\A u \in User, value \in Values :
           (/\ Direct(u, Vault, value, Distribute)
            /\ w'.bal # w.bal
            /\ w.vault.bridge # w.vault.other
            /\ Vault \notin {w.vault.bridge, w.vault.other}) =>
                LET total == w.bal[Vault] + value
                    bridge == Gain(w.vault.bridge, u, value)
                IN /\ w'.bal[Vault] = 0
                   /\ bridge * FullShare <= total * w.vault.share
                   /\ (bridge + 1) * FullShare > total * w.vault.share
                   /\ bridge >= w.vault.minimum
                   /\ w.vault.other # Zero =>
                        Gain(w.vault.other, u, value) = total - bridge]_vars
  BY DistributionStep
<1>2. QED
  BY <1>1, Invariance, PTL DEF DistributionIsExact

=============================================================================
