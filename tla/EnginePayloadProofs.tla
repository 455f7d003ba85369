------------------------- MODULE EnginePayloadProofs -------------------------
(***************************************************************************)
(* Theorems of the round trip of a block through the Engine API, for any   *)
(* transactions, roots, requests, forks and numbers of blocks.             *)
(*                                                                         *)
(* The invariant follows a block from the job to the answer.  What is      *)
(* built is Honest: its header is what the execution on its parent, with   *)
(* the zero root, gives.  What is sent is an envelope of an honest block.  *)
(* What the node knows is closed under parents, and executes again to what *)
(* its header says.                                                        *)
(***************************************************************************)
EXTENDS EnginePayload, IteratorsProofs, TLAPS

(* Most steps are first-order reasoning, which Zenon does; those with      *)
(* arithmetic, records or sequences name SMT.                              *)
USE Zenon

Executes == {t \in Decodable : t.executes}

Context(parent, root) ==
  [parent |-> parent, root |-> root, withdrawals |-> <<>>, slot_number |-> None]

(* The execution of a block without withdrawals.                           *)
Run(b, root) == Execute(b.parent.state, Context(b.parent, root), b.timestamp, b.txs)

(* The block of a header that says what an execution gave.                 *)
Header(b, r) ==
  [parent |-> b.parent, number |-> b.parent.number + 1, timestamp |-> b.timestamp,
   gas_limit |-> b.gas_limit, txs |-> b.txs, state |-> r.state, receipts |-> r.receipts,
   gas_used |-> r.gas_used, withdrawals |-> <<>>, root |-> ZeroRoot,
   requests |-> IF b.timestamp < Prague THEN None ELSE r.requests, slot_number |-> None]

Honest(b) ==
  /\ b = Header(b, Run(b, ZeroRoot))
  /\ b.txs \in Seq(Executes) /\ b.timestamp \in Nat
  /\ b.parent.number \in Nat /\ b.parent.state \in Seq(Entry)

Numbered(b) == b.number \in Nat /\ b.timestamp \in Nat /\ b.state \in Seq(Entry)

KnownInv ==
  /\ head \in known
  /\ \A b \in known :
       Numbered(b) /\ (b.number > 0 => b.parent \in known /\ b.number = b.parent.number + 1)

Fetched(data, b) ==
  \E version \in 1 .. 6, root \in Roots : data = ExecutionData(version, BuiltPayload(b), root)

PhaseInv ==
  /\ node \in [dev : BOOLEAN, system_contracts : BOOLEAN]
  /\ pool \in Seq(PoolTxs)
  /\ phase \in {"idle", "requested", "built", "sent"}
  /\ phase \in {"requested", "built"} =>
       /\ job.parent = head /\ job.attributes.root \in Roots
       /\ job.attributes.transactions \in Batches \cup {None}
       /\ job.attributes.timestamp \in Nat
       /\ node.dev => job.attributes.timestamp >= head.timestamp
  /\ phase = "built" =>
       /\ built = BuiltPayload(built.block) /\ Honest(built.block)
       /\ built.block.parent = head
       /\ built.block.timestamp = job.attributes.timestamp
  /\ phase = "sent" =>
       LET b == sent.payload.block_hash
       IN  /\ Honest(b)
           /\ ~node.dev => Fetched(sent, b)
           /\ node.dev => /\ sent = block_to_payload(b)
                          /\ b.parent = head /\ b.timestamp >= head.timestamp
  /\ answer.status \in {"none", "INVALID", "SYNCING", "VALID"}
  /\ answer.status # "none" => phase = "sent"

IInv ==
  KnownInv /\ PhaseInv /\ ReexecutionAgrees /\ BuiltBlockReturns /\ OnlyRootSubstituted

-----------------------------------------------------------------------------
(* The execution of transactions.                                          *)

Commit == [r \in Executor |-> [t \in Decodable |-> commit_transaction(r, t)]]

(* A transaction that decodes has one of the two types.                    *)
LEMMA TxFields ==
  ASSUME NEW t \in Decodable
  PROVE  t.kind \in {"eth", "ev"} /\ t.gas \in Nat /\ t.logs \in SUBSET Logs
BY DEF Decodable, Transaction

(* What commit_transaction writes to the executor, field by field.         *)
LEMMA CommitFields ==
  ASSUME NEW r \in Executor, NEW t \in Decodable
  PROVE  /\ commit_transaction(r, t) \in Executor
         /\ commit_transaction(r, t).state = Append(r.state, <<"tx", t>>)
         /\ commit_transaction(r, t).gas_used = r.gas_used + t.gas
         /\ commit_transaction(r, t).requests = r.requests
         /\ commit_transaction(r, t).receipts
              = Append(r.receipts, build_receipt(t, r.gas_used + t.gas))
<1> DEFINE x == Append(r.state, <<"tx", t>>)
           y == r.gas_used + t.gas
           z == Append(r.receipts, build_receipt(t, r.gas_used + t.gas))
<1>1. /\ r.state \in Seq(Entry) /\ r.receipts \in Seq(Receipt) /\ r.gas_used \in Nat
      /\ r.requests \in SUBSET Logs
  BY DEF Executor
<1>2. y \in Nat
  BY <1>1, TxFields, SMT
<1>3. <<"tx", t>> \in Entry
  BY DEF Entry
<1>4. x \in Seq(Entry)
  BY <1>1, <1>3, SMT
<1>5. build_receipt(t, y) \in Receipt
  BY <1>2, TxFields DEF build_receipt, Receipt
<1>6. z \in Seq(Receipt)
  BY <1>1, <1>5, SMT
<1>7. commit_transaction(r, t) = [r EXCEPT !.state = x, !.gas_used = y, !.receipts = z]
  BY DEF commit_transaction
<1> HIDE DEF x, y, z
<1>8. LET c == [r EXCEPT !.state = x, !.gas_used = y, !.receipts = z]
      IN  /\ c \in Executor /\ c.state = x /\ c.gas_used = y /\ c.receipts = z
          /\ c.requests = r.requests
  BY <1>2, <1>4, <1>6 DEF Executor
<1>9. QED
  BY <1>7, <1>8 DEF x, y, z

(* One more transaction is executed.                                       *)
LEMMA LoopStep ==
  ASSUME NEW r \in Executor
  PROVE  /\ Fold(<<>>, r, Commit) = r
         /\ \A v \in Seq(Decodable) : Fold(v, r, Commit) \in Executor
         /\ \A v \in Seq(Decodable), t \in Decodable :
              Fold(Append(v, t), r, Commit) = commit_transaction(Fold(v, r, Commit), t)
<1>1. Commit \in [Executor -> [Decodable -> Executor]]
  BY CommitFields DEF Commit
<1>2. \A x \in Executor, t \in Decodable : Commit[x][t] = commit_transaction(x, t)
  BY DEF Commit
<1>3. /\ Fold(<<>>, r, Commit) = r
      /\ \A v \in Seq(Decodable) : Fold(v, r, Commit) \in Executor
      /\ \A v \in Seq(Decodable), t \in Decodable :
           Fold(Append(v, t), r, Commit) = Commit[Fold(v, r, Commit)][t]
  <2>1. FoldLaws(Executor, Decodable, r, Commit)
    BY <1>1, FoldAppend
  <2>2. QED
    BY <2>1 DEF FoldLaws
<1>4. ASSUME NEW v \in Seq(Decodable), NEW t \in Decodable
      PROVE  Fold(Append(v, t), r, Commit) = commit_transaction(Fold(v, r, Commit), t)
  <2>1. /\ Fold(v, r, Commit) \in Executor
        /\ Fold(Append(v, t), r, Commit) = Commit[Fold(v, r, Commit)][t]
    BY <1>3
  <2>2. QED
    BY <1>2, <2>1
<1>5. QED
  BY <1>3, <1>4

(* Receipts, gas and requests do not depend on the state.                  *)
SameRest(x, y) ==
  x.receipts = y.receipts /\ x.gas_used = y.gas_used /\ x.requests = y.requests

(* The same transactions leave the same receipts, gas and requests,        *)
(* whatever state they start from.                                         *)
LEMMA LoopRest ==
  ASSUME NEW x \in Executor, NEW y \in Executor, SameRest(x, y)
  PROVE  \A v \in Seq(Decodable) : SameRest(Fold(v, x, Commit), Fold(v, y, Commit))
<1> DEFINE X(v) == Fold(v, x, Commit)
           Y(v) == Fold(v, y, Commit)
           B == {v \in Seq(Decodable) : SameRest(X(v), Y(v))}
<1>1. <<>> \in B
  <2>1. <<>> \in Seq(Decodable)
    BY SMT
  <2>2. X(<<>>) = x /\ Y(<<>>) = y
    BY LoopStep
  <2>3. QED
    BY <2>1, <2>2
<1>2. ASSUME NEW v \in Seq(Decodable), NEW t \in Decodable, v \in B PROVE Append(v, t) \in B
  <2>1. X(v) \in Executor /\ Y(v) \in Executor
    BY LoopStep
  <2>2. /\ X(Append(v, t)) = commit_transaction(X(v), t)
        /\ Y(Append(v, t)) = commit_transaction(Y(v), t)
    BY LoopStep
  <2>3. Append(v, t) \in Seq(Decodable)
    BY SMT
  <2>4. SameRest(X(v), Y(v))
    BY <1>2
  <2> HIDE DEF X, Y
  <2>5. SameRest(commit_transaction(X(v), t), commit_transaction(Y(v), t))
    <3> DEFINE p == X(v)
               q == Y(v)
    <3>1. /\ p \in Executor /\ q \in Executor /\ p.receipts = q.receipts
          /\ p.gas_used = q.gas_used /\ p.requests = q.requests
      BY <2>1, <2>4 DEF SameRest
    <3> HIDE DEF p, q
    <3>2. /\ commit_transaction(p, t).receipts = commit_transaction(q, t).receipts
          /\ commit_transaction(p, t).gas_used = commit_transaction(q, t).gas_used
          /\ commit_transaction(p, t).requests = commit_transaction(q, t).requests
      <4>1. /\ commit_transaction(p, t).gas_used = p.gas_used + t.gas
            /\ commit_transaction(p, t).requests = p.requests
            /\ commit_transaction(p, t).receipts
                 = Append(p.receipts, build_receipt(t, p.gas_used + t.gas))
        BY <3>1, CommitFields
      <4>2. /\ commit_transaction(q, t).gas_used = q.gas_used + t.gas
            /\ commit_transaction(q, t).requests = q.requests
            /\ commit_transaction(q, t).receipts
                 = Append(q.receipts, build_receipt(t, q.gas_used + t.gas))
        BY <3>1, CommitFields
      <4>3. QED
        BY <3>1, <4>1, <4>2
    <3>3. QED
      BY <3>2 DEF SameRest, p, q
  <2>6. QED
    BY <2>2, <2>3, <2>5
<1> HIDE DEF B
<1>3. \A v \in Seq(Decodable) : v \in B
  BY <1>1, <1>2, SeqInductive
<1>4. QED
  BY <1>3 DEF B

(* What is in the state before a transaction stays.                        *)
Before(s, t) == Len(s) <= Len(t) /\ \A k \in 1 .. Len(s) : t[k] = s[k]

(* What was written before the transactions stays before them.             *)
LEMMA LoopBefore ==
  ASSUME NEW x \in Executor
  PROVE  \A v \in Seq(Decodable) : Before(x.state, Fold(v, x, Commit).state)
<1> DEFINE X(v) == Fold(v, x, Commit)
           B == {v \in Seq(Decodable) : Before(x.state, X(v).state)}
<1>0. x.state \in Seq(Entry)
  BY DEF Executor
<1>1. <<>> \in B
  <2>1. <<>> \in Seq(Decodable)
    BY SMT
  <2>2. X(<<>>) = x
    BY LoopStep
  <2>3. Before(x.state, x.state)
    BY <1>0, SMT DEF Before
  <2>4. QED
    BY <2>1, <2>2, <2>3
<1>2. ASSUME NEW v \in Seq(Decodable), NEW t \in Decodable, v \in B PROVE Append(v, t) \in B
  <2>1. X(v) \in Executor /\ X(Append(v, t)) = commit_transaction(X(v), t)
    BY LoopStep
  <2>2. Append(v, t) \in Seq(Decodable)
    BY SMT
  <2>3. Before(x.state, X(v).state)
    BY <1>2
  <2> HIDE DEF X
  <2>4. X(v).state \in Seq(Entry) /\ X(Append(v, t)).state = Append(X(v).state, <<"tx", t>>)
    BY <2>1, CommitFields DEF Executor
  <2>5. ASSUME NEW s \in Seq(Entry), NEW u \in Seq(Entry), NEW e, Before(s, u)
        PROVE  Before(s, Append(u, e))
    BY <2>5, SMT DEF Before
  <2>6. Before(x.state, X(Append(v, t)).state)
    BY <1>0, <2>3, <2>4, <2>5
  <2>7. QED
    BY <2>2, <2>6
<1> HIDE DEF B
<1>3. \A v \in Seq(Decodable) : v \in B
  BY <1>1, <1>2, SeqInductive
<1>4. QED
  BY <1>3 DEF B

(* What the system contracts write first.                                  *)
Start(parent, root, timestamp, state) ==
  apply_pre_execution_changes(NewExecutor(state), Context(parent, root), timestamp)

NodeOK == node \in [dev : BOOLEAN, system_contracts : BOOLEAN]

(* What apply_pre_execution_changes writes.                                *)
LEMMA StartFields ==
  ASSUME NEW state \in Seq(Entry), NEW parent, parent.number \in Nat,
         NEW root \in Roots \cup {None}, NEW timestamp
  PROVE  LET start == Start(parent, root, timestamp, state)
             hash == ParentHash(parent, timestamp)
         IN  /\ start \in Executor
             /\ start.receipts = <<>> /\ start.gas_used = 0 /\ start.requests = {}
             /\ hash \in Seq(Entry)
             /\ start.state = IF node.system_contracts
                              THEN Append(state \o hash, <<"root", root>>) ELSE state
<1> DEFINE hash == ParentHash(parent, timestamp)
           x == Append(state \o hash, <<"root", root>>)
           r == NewExecutor(state)
<1>1. <<"parent", parent.number>> \in Entry /\ <<"root", root>> \in Entry
  BY DEF Entry
<1>2. hash \in Seq(Entry)
  <2>1. << <<"parent", parent.number>> >> \in Seq(Entry) /\ <<>> \in Seq(Entry)
    BY <1>1, SMT
  <2>2. QED
    BY <2>1 DEF ParentHash
<1> HIDE DEF hash
<1>3. x \in Seq(Entry)
  BY <1>1, <1>2, SMT
<1>4. /\ r \in Executor /\ r.receipts = <<>> /\ r.gas_used = 0 /\ r.requests = {}
      /\ r.state = state
  BY SMT DEF NewExecutor, Executor
<1>5. Start(parent, root, timestamp, state) =
        IF node.system_contracts THEN [r EXCEPT !.state = x] ELSE r
  BY <1>4 DEF Start, apply_pre_execution_changes, Context, hash
<1> HIDE DEF x, r
<1>6. LET s == [r EXCEPT !.state = x]
      IN  /\ s \in Executor /\ s.receipts = <<>> /\ s.gas_used = 0 /\ s.requests = {}
          /\ s.state = x
  BY <1>3, <1>4 DEF Executor
<1>7. QED
  BY <1>2, <1>4, <1>5, <1>6 DEF x, hash

(* A block whose execution is defined.                                     *)
Executable(b) ==
  b.txs \in Seq(Executes) /\ b.parent.number \in Nat /\ b.parent.state \in Seq(Entry)

(* The requests of an execution.                                           *)
Requests(timestamp, receipts) ==
  IF timestamp >= Prague /\ node.system_contracts
  THEN UNION {x.logs : x \in ToSet(receipts)} ELSE {}

(* An execution commits each transaction after the pre-execution changes,  *)
(* then collects the requests.                                             *)
LEMMA RunFields ==
  ASSUME NEW b, Executable(b), NEW root \in Roots \cup {None}
  PROVE  LET r == Fold(b.txs, Start(b.parent, root, b.timestamp, b.parent.state), Commit)
         IN  /\ r \in Executor
             /\ Run(b, root).state = r.state
             /\ Run(b, root).receipts = r.receipts
             /\ Run(b, root).gas_used = r.gas_used
             /\ Run(b, root).requests = Requests(b.timestamp, r.receipts)
<1> DEFINE s == Start(b.parent, root, b.timestamp, b.parent.state)
           r == Fold(b.txs, s, Commit)
           ctx == Context(b.parent, root)
<1>1. s \in Executor
  BY StartFields DEF Executable
<1>2. b.txs \in Seq(Decodable)
  <2>1. Executes \subseteq Decodable
    BY DEF Executes
  <2>2. b.txs \in Seq(Executes)
    BY DEF Executable
  <2>3. QED
    BY <2>1, <2>2, SeqMonotonic
<1>3. r \in Executor
  BY <1>1, <1>2, LoopStep
<1>4. Run(b, root) = finish(r, ctx, b.timestamp)
  BY DEF Run, Execute, Start, Commit
<1> HIDE DEF r
<1>5. r.state \in Seq(Entry) /\ r.state \o <<>> = r.state
  BY <1>3, SMT DEF Executor
<1>6. ctx.withdrawals = <<>>
  BY DEF Context
<1>7. finish(r, ctx, b.timestamp) =
        [r EXCEPT !.requests = Requests(b.timestamp, r.receipts), !.state = r.state]
  BY <1>5, <1>6 DEF finish, Requests
<1>8. LET f == [r EXCEPT !.requests = Requests(b.timestamp, r.receipts), !.state = r.state]
      IN  /\ f.state = r.state /\ f.receipts = r.receipts /\ f.gas_used = r.gas_used
          /\ f.requests = Requests(b.timestamp, r.receipts)
  BY <1>3 DEF Executor
<1>9. QED
  BY <1>3, <1>4, <1>7, <1>8 DEF r

(* The root an execution is given makes no difference to receipts, gas and *)
(* requests, and none at all without the beacon-roots contract; with it,   *)
(* the state tells it.                                                     *)
LEMMA RunRoot ==
  ASSUME NEW b, Executable(b), NEW one \in Roots \cup {None}, NEW other \in Roots \cup {None}
  PROVE  /\ SameRest(Run(b, one), Run(b, other))
         /\ ~node.system_contracts => Run(b, one).state = Run(b, other).state
         /\ node.system_contracts /\ Run(b, one).state = Run(b, other).state => one = other
<1> DEFINE S(root) == Start(b.parent, root, b.timestamp, b.parent.state)
           R(root) == Fold(b.txs, S(root), Commit)
           hash == ParentHash(b.parent, b.timestamp)
<1>1. b.parent.state \in Seq(Entry) /\ b.parent.number \in Nat
  BY DEF Executable
<1>2. \A root \in {one, other} :
        /\ S(root) \in Executor /\ S(root).receipts = <<>> /\ S(root).gas_used = 0
        /\ S(root).requests = {}
        /\ S(root).state =
             IF node.system_contracts
             THEN Append(b.parent.state \o hash, <<"root", root>>) ELSE b.parent.state
        /\ hash \in Seq(Entry)
  BY <1>1, StartFields, SMT
<1>3. b.txs \in Seq(Decodable)
  <2>1. Executes \subseteq Decodable
    BY DEF Executes
  <2>2. b.txs \in Seq(Executes)
    BY DEF Executable
  <2>3. QED
    BY <2>1, <2>2, SeqMonotonic
<1>4. \A root \in {one, other} :
        /\ Run(b, root).state = R(root).state /\ Run(b, root).receipts = R(root).receipts
        /\ Run(b, root).gas_used = R(root).gas_used
        /\ Run(b, root).requests = Requests(b.timestamp, R(root).receipts)
  BY RunFields
<1>5. SameRest(R(one), R(other))
  <2>1. SameRest(S(one), S(other))
    BY <1>2 DEF SameRest
  <2>2. S(one) \in Executor /\ S(other) \in Executor
    BY <1>2
  <2> HIDE DEF S
  <2>3. QED
    BY <1>3, <2>1, <2>2, LoopRest
<1>6. \A root \in {one, other} : Before(S(root).state, R(root).state)
  BY <1>2, <1>3, LoopBefore
<1>7. ~node.system_contracts => S(one) = S(other)
  <2>1. ASSUME NEW x \in Executor, NEW y \in Executor, SameRest(x, y), x.state = y.state
        PROVE  x = y
    BY <2>1, SMT DEF Executor, SameRest
  <2>2. SameRest(S(one), S(other)) /\ S(one) \in Executor /\ S(other) \in Executor
    BY <1>2 DEF SameRest
  <2>3. ~node.system_contracts => S(one).state = S(other).state
    BY <1>2
  <2> HIDE DEF S
  <2>4. QED
    BY <2>1, <2>2, <2>3
<1>8. ASSUME node.system_contracts, R(one).state = R(other).state PROVE one = other
  <2> DEFINE s == b.parent.state
             x(root) == Append(s \o hash, <<"root", root>>)
             k == Len(s \o hash) + 1
  <2>1. (\A root \in {one, other} : S(root).state = x(root)) /\ hash \in Seq(Entry)
    BY <1>2, <1>8
  <2> HIDE DEF s, S, hash
  <2>2. s \o hash \in Seq(Entry) /\ Len(s \o hash) \in Nat
    <3>1. s \in Seq(Entry)
      BY <1>1 DEF s
    <3>2. QED
      BY <2>1, <3>1, SMT
  <2>3. \A root \in {one, other} : Len(x(root)) = k /\ x(root)[k] = <<"root", root>>
    BY <2>2, SMT
  <2>4. k \in 1 .. k
    BY <2>2, SMT
  <2> HIDE DEF x, k, R
  <2>5. \A root \in {one, other} : R(root).state[k] = <<"root", root>>
    BY <1>6, <2>1, <2>3, <2>4 DEF Before
  <2>6. <<"root", one>> = <<"root", other>>
    BY <1>8, <2>5, SMT
  <2>7. QED
    BY <2>6
<1> HIDE DEF R
<1>9. SameRest(Run(b, one), Run(b, other))
  BY <1>4, <1>5 DEF SameRest
<1>10. ~node.system_contracts => Run(b, one).state = Run(b, other).state
  BY <1>4, <1>7 DEF R
<1>11. QED
  BY <1>4, <1>8, <1>9, <1>10

-----------------------------------------------------------------------------
(* The blocks of the node.                                                 *)

(* A block executes again to what its header says.                         *)
Reexecutes(b) ==
  LET r == Execute(b.parent.state, context_for_block(b), b.timestamp, b.txs)
  IN  /\ r.state = b.state /\ r.receipts = b.receipts /\ r.gas_used = b.gas_used
      /\ b.requests \in {None, r.requests}

(* The contracts of genesis are there for good.                            *)
LEMMA SameNode ==
  ASSUME node' = node, NEW b
  PROVE  (Honest(b)' <=> Honest(b)) /\ (Reexecutes(b)' <=> Reexecutes(b))
<1>1. Honest(b)' <=> Honest(b)
  BY SMT DEF Honest, Header, Run, Execute, apply_pre_execution_changes, finish
<1>2. Reexecutes(b)' <=> Reexecutes(b)
  BY DEF Reexecutes, Execute, apply_pre_execution_changes, finish
<1>3. QED
  BY <1>1, <1>2

(* The blocks below a known block are known, down to genesis.              *)
Lineage(b, S) ==
  /\ b \in S /\ S \subseteq known
  /\ \A c \in S : c.number > 0 => c.parent \in S

(* A block that the node knows has its ancestors in the node.              *)
LEMMA AncestorsKnown ==
  ASSUME KnownInv, NEW b \in known
  PROVE  Lineage(b, Ancestors(b))
<1> DEFINE m == b.number
           f == [n \in 1 .. m |-> [x \in known |-> IF x.number > 0 THEN x.parent ELSE x]]
           E(s) == [n \in 0 .. m |-> IF n = 0 THEN b ELSE s[n - 1].parent]
           p == CHOOSE s : s = E(s)
<1>1. /\ \A c \in known : /\ c.number \in Nat
                          /\ c.number > 0 => c.parent \in known /\ c.number = c.parent.number + 1
      /\ m \in Nat
  BY DEF KnownInv, Numbered
<1>2. Ancestors(b) = {p[n] : n \in 0 .. m}
  BY DEF Ancestors
<1> HIDE DEF m
<1>3. f \in [1 .. m -> [known -> known]]
  BY <1>1
<1>4. PICK s \in [0 .. m -> known] : Follows(s, m, b, f)
  <2> HIDE DEF f
  <2>1. QED
    BY <1>1, <1>3, Recursion
<1> DEFINE Down(c) == {n \in 0 .. m : c[n] \in known /\ c[n].number = m - n}
<1>5. ASSUME NEW c, NEW n \in 0 .. m, n < m, n \in Down(c), c[n + 1] = c[n].parent
      PROVE  n + 1 \in Down(c)
  <2>1. n + 1 \in 0 .. m /\ m - n > 0
    BY <1>1, <1>5, SMT
  <2>2. c[n] \in known /\ c[n].number = m - n
    BY <1>5
  <2>3. c[n + 1] \in known /\ c[n].number = c[n + 1].number + 1
    BY <1>1, <1>5, <2>1, <2>2
  <2>4. c[n + 1].number \in Nat
    BY <1>1, <2>3
  <2>5. c[n + 1].number = m - (n + 1)
    BY <1>1, <2>2, <2>3, <2>4, SMT
  <2>6. QED
    BY <2>1, <2>3, <2>5
<1>6. ASSUME NEW c, c[0] = b PROVE 0 \in Down(c)
  BY <1>1, <1>6, SMT DEF m
<1> HIDE DEF Down
<1>7. \A n \in 0 .. m : n \in Down(s)
  <2>1. 0 \in Down(s)
    BY <1>4, <1>6 DEF Follows
  <2>2. ASSUME NEW n \in 0 .. m, n < m, n \in Down(s) PROVE n + 1 \in Down(s)
    <3>1. n + 1 \in 1 .. m /\ (n + 1) - 1 = n /\ m - n > 0
      <4>1. m \in Nat /\ n < m
        BY <1>1, <2>2
      <4>2. QED
        BY <4>1, SMT
    <3>2. s[n] \in known /\ s[n].number > 0
      BY <2>2, <3>1 DEF Down
    <3>3. s[n + 1] = f[n + 1][s[(n + 1) - 1]]
      BY <1>4, <3>1 DEF Follows
    <3>4. s[n + 1] = s[n].parent
      BY <3>1, <3>2, <3>3
    <3>5. QED
      BY <1>5, <2>2, <3>4
  <2>3. \A n \in 0 .. m : n < m /\ n \in Down(s) => n + 1 \in Down(s)
    BY <2>2
  <2>4. QED
    BY <1>1, <2>1, <2>3, IntervalInductive
<1>8. s = E(s)
  <2>1. ASSUME NEW n \in 1 .. m PROVE s[n] = s[n - 1].parent
    <3>1. n - 1 \in 0 .. m /\ m - (n - 1) > 0
      BY <1>1, SMT
    <3>2. s[n - 1] \in known /\ s[n] = f[n][s[n - 1]] /\ s[n - 1].number > 0
      BY <1>4, <1>7, <3>1 DEF Follows, Down
    <3>3. QED
      BY <3>2
  <2>2. \A n \in 0 .. m : s[n] = E(s)[n]
    <3> TAKE n \in 0 .. m
    <3>1. n = 0 \/ n \in 1 .. m
      BY <1>1, SMT
    <3>2. QED
      BY <1>4, <2>1, <3>1 DEF Follows
  <2>3. QED
    BY <2>2
<1>9. p = E(p)
  <2> HIDE DEF E
  <2>1. QED
    BY <1>8
<1> HIDE DEF p
<1>10. p[0] = b /\ \A n \in 1 .. m : p[n] = p[n - 1].parent
  <2>1. \A n \in 0 .. m : p[n] = IF n = 0 THEN b ELSE p[n - 1].parent
    BY <1>9
  <2>2. 0 \in 0 .. m /\ \A n \in 1 .. m : n \in 0 .. m /\ n # 0
    BY <1>1, SMT
  <2>3. QED
    BY <2>1, <2>2
<1>11. \A n \in 0 .. m : n < m => p[n + 1] = p[n].parent
  <2>1. ASSUME NEW n \in 0 .. m, n < m PROVE p[n + 1] = p[n].parent
    <3>1. n + 1 \in 1 .. m /\ (n + 1) - 1 = n
      BY <1>1, <2>1, SMT
    <3>2. p[n + 1] = p[(n + 1) - 1].parent
      BY <1>10, <3>1
    <3>3. QED
      BY <3>1, <3>2
  <2>2. QED
    BY <2>1
<1>12. \A n \in 0 .. m : n \in Down(p)
  <2>1. \A n \in 0 .. m : n < m /\ n \in Down(p) => n + 1 \in Down(p)
    BY <1>5, <1>11
  <2>2. QED
    BY <1>1, <1>6, <1>10, <2>1, IntervalInductive
<1>13. ASSUME NEW n \in 0 .. m, p[n].number > 0 PROVE n < m /\ n + 1 \in 0 .. m
  <2>1. p[n].number = m - n
    BY <1>12 DEF Down
  <2>2. QED
    BY <1>1, <1>13, <2>1, SMT
<1>14. b \in Ancestors(b)
  <2>1. 0 \in 0 .. m
    BY <1>1, SMT
  <2>2. QED
    BY <1>2, <1>10, <2>1
<1>15. Ancestors(b) \subseteq known
  BY <1>2, <1>12 DEF Down
<1>16. ASSUME NEW c \in Ancestors(b), c.number > 0 PROVE c.parent \in Ancestors(b)
  <2>1. PICK n \in 0 .. m : c = p[n]
    BY <1>2
  <2>2. n + 1 \in 0 .. m /\ c.parent = p[n + 1]
    BY <1>11, <1>13, <1>16, <2>1
  <2>3. QED
    BY <1>2, <2>2
<1>17. QED
  BY <1>14, <1>15, <1>16 DEF Lineage

-----------------------------------------------------------------------------
(* What is sent for a block.                                               *)

(* The payload names the block b and has its fields.                       *)
Carries(data, b) ==
  LET p == data.payload
  IN  /\ p.block_hash = b /\ p.parent = b.parent /\ p.number = b.number
      /\ p.timestamp = b.timestamp /\ p.gas_limit = b.gas_limit /\ p.txs = b.txs
      /\ p.state = b.state /\ p.receipts = b.receipts /\ p.gas_used = b.gas_used

(* The version decides on the others.                                      *)
OfVersion(data, version, root) ==
  /\ data.payload.withdrawals = (IF version = 1 THEN None ELSE <<>>)
  /\ data.payload.slot_number = (IF version = 6 THEN 0 ELSE None)
  /\ data.root = (IF version < 3 THEN None ELSE root)
  /\ data.requests = (IF version < 4 THEN None ELSE {})

(* The fields of a block that was built by executing it.                   *)
LEMMA HonestFields ==
  ASSUME NEW b, Honest(b)
  PROVE  /\ b.number = b.parent.number + 1 /\ b.withdrawals = <<>> /\ b.root = ZeroRoot
         /\ b.slot_number = None
         /\ b.state = Run(b, ZeroRoot).state /\ b.receipts = Run(b, ZeroRoot).receipts
         /\ b.gas_used = Run(b, ZeroRoot).gas_used
         /\ b.requests = IF b.timestamp < Prague THEN None ELSE Run(b, ZeroRoot).requests
         /\ Executable(b) /\ b.timestamp \in Nat
<1> DEFINE r == Run(b, ZeroRoot)
<1>1. b = Header(b, r)
  BY DEF Honest
<1> HIDE DEF r
<1>2. LET h == Header(b, r)
      IN  /\ h.number = b.parent.number + 1 /\ h.withdrawals = <<>> /\ h.root = ZeroRoot
          /\ h.slot_number = None /\ h.state = r.state /\ h.receipts = r.receipts
          /\ h.gas_used = r.gas_used
          /\ h.requests = IF b.timestamp < Prague THEN None ELSE r.requests
  BY DEF Header
<1>3. Executable(b) /\ b.timestamp \in Nat
  BY DEF Honest, Executable
<1>4. QED
  BY <1>1, <1>2, <1>3 DEF r

(* The fields of the payload that getPayload hands out.                    *)
LEMMA FetchedFields ==
  ASSUME NEW b, Honest(b), NEW version \in 1 .. 6, NEW root,
         NEW data, data = ExecutionData(version, BuiltPayload(b), root)
  PROVE  Carries(data, b) /\ OfVersion(data, version, root)
<1> DEFINE p == BuiltPayload(b)
           v(w) == from_block_unchecked(b, w)
           e == Envelope(version, p)
<1>1. b.withdrawals = <<>> /\ b.slot_number = None
  BY HonestFields
<1>2. p.block = b /\ p.requests = None
  BY DEF BuiltPayload
<1>3. ASSUME NEW w
      PROVE  /\ v(w).block_hash = b /\ v(w).parent = b.parent /\ v(w).number = b.number
             /\ v(w).timestamp = b.timestamp /\ v(w).gas_limit = b.gas_limit /\ v(w).txs = b.txs
             /\ v(w).state = b.state /\ v(w).receipts = b.receipts /\ v(w).gas_used = b.gas_used
             /\ v(w).withdrawals = w /\ v(w).slot_number = None
  BY DEF from_block_unchecked
<1>4. /\ data.payload = e.execution_payload
      /\ data.root = (IF version < 3 THEN None ELSE root)
      /\ data.requests = (IF version < 4 THEN None ELSE e.execution_requests)
  BY DEF ExecutionData
<1> HIDE DEF v, p
<1>5. CASE version = 1
  <2>1. e.execution_payload = v(None)
    BY <1>2, <1>5, SMT DEF Envelope, into_v1, v
  <2>2. QED
    BY <1>3, <1>4, <1>5, <2>1, SMT DEF Carries, OfVersion
<1>6. CASE version \in {2, 3}
  <2>1. e.execution_payload = v(<<>>)
    BY <1>1, <1>2, <1>6, SMT DEF Envelope, into_v2, try_into_v3, v
  <2>2. QED
    BY <1>3, <1>4, <1>6, <2>1, SMT DEF Carries, OfVersion
<1>7. try_into_v4(p) =
        [execution_payload |-> v(<<>>), block_value |-> p.fees, execution_requests |-> {}]
  BY <1>1, <1>2 DEF into_v2, try_into_v3, try_into_v4, v
<1>8. CASE version \in {4, 5}
  <2>1. e.execution_payload = v(<<>>) /\ e.execution_requests = {}
    BY <1>7, <1>8, SMT DEF Envelope, try_into_v5
  <2>2. QED
    BY <1>3, <1>4, <1>8, <2>1, SMT DEF Carries, OfVersion
<1>9. CASE version = 6
  <2> DEFINE x == [v(<<>>) EXCEPT !.slot_number = 0]
  <2>1. e.execution_payload = x /\ e.execution_requests = {}
    BY <1>1, <1>2, <1>7, <1>9, SMT DEF Envelope, try_into_v5, try_into_v6
  <2>2. /\ x.block_hash = b /\ x.parent = b.parent /\ x.number = b.number
        /\ x.timestamp = b.timestamp /\ x.gas_limit = b.gas_limit /\ x.txs = b.txs
        /\ x.state = b.state /\ x.receipts = b.receipts /\ x.gas_used = b.gas_used
        /\ x.withdrawals = <<>> /\ x.slot_number = 0
    BY <1>3 DEF v, from_block_unchecked
  <2> HIDE DEF x
  <2>3. QED
    BY <1>4, <1>9, <2>1, <2>2, SMT DEF Carries, OfVersion
<1>10. QED
  BY <1>5, <1>6, <1>8, <1>9, SMT

(* What a dev node sends itself has the fields of the block.               *)
LEMMA LocalFields ==
  ASSUME NEW b, Honest(b), NEW data, data = block_to_payload(b)
  PROVE  /\ Carries(data, b) /\ data.payload.withdrawals = <<>>
         /\ data.payload.slot_number = None /\ data.root = ZeroRoot /\ data.requests = b.requests
<1>1. b.withdrawals = <<>> /\ b.root = ZeroRoot
  BY HonestFields
<1>2. QED
  BY <1>1 DEF block_to_payload, from_block_unchecked, Carries

-----------------------------------------------------------------------------
(* What comes of a payload.                                                *)

(* From Prague on a block has requests, if only the empty ones.            *)
LEMMA HonestRequests ==
  ASSUME NEW b, Honest(b)
  PROVE  b.requests = None <=> b.timestamp < Prague
<1> DEFINE r == Fold(b.txs, Start(b.parent, ZeroRoot, b.timestamp, b.parent.state), Commit)
           q == Requests(b.timestamp, r.receipts)
<1>1. /\ b.requests = IF b.timestamp < Prague THEN None ELSE Run(b, ZeroRoot).requests
      /\ Executable(b)
  BY HonestFields
<1>2. r \in Executor /\ Run(b, ZeroRoot).requests = q
  BY <1>1, RunFields, InputAssumption
<1> HIDE DEF r
<1>3. \A x \in ToSet(r.receipts) : x.logs \subseteq Logs
  <2>1. r.receipts \in Seq(Receipt)
    BY <1>2 DEF Executor
  <2>2. \A x \in ToSet(r.receipts) : x \in Receipt
    BY <2>1, SMT DEF ToSet
  <2>3. QED
    BY <2>2 DEF Receipt
<1>4. q \in SUBSET Logs
  BY <1>3 DEF Requests
<1>5. q # None
  BY <1>4, InputAssumption
<1>6. QED
  BY <1>1, <1>2, <1>5

(* Both conversions give the block of the payload, the first only if it is *)
(* the one that the payload names.                                         *)
LEMMA Converted ==
  ASSUME NEW b, Honest(b), NEW data, Carries(data, b)
  PROVE  /\ convert_payload_to_block(data).block = Assembled(data)
         /\ convert_payload_to_block(data).error = "none" <=> Assembled(data) = b
         /\ ensure_well_formed_payload(data).block = Assembled(data)
         /\ ensure_well_formed_payload(data).error = "none"
<1> DEFINE c == Assembled(data)
           inner(types) == inner_ensure_well_formed_payload(data, types)
<1>1. data.payload.txs = b.txs /\ data.payload.block_hash = b /\ c.txs = b.txs
  BY DEF Carries, Assembled
<1>2. b.txs \in Seq(Executes)
  BY DEF Honest
<1>3. \A t \in ToSet(b.txs) : t \in Decodable
  BY <1>2, SMT DEF ToSet, Executes
<1>4. \A t \in ToSet(data.payload.txs) : t.kind \in {"eth", "ev"} /\ t.kind # "undecodable"
  BY <1>1, <1>3, TxFields
<1>5. \A types : inner(types).block = c
  BY DEF inner_ensure_well_formed_payload
<1>6. inner({"eth", "ev"}).error = "none" <=> c = b
  BY <1>1, <1>4 DEF inner_ensure_well_formed_payload
<1>7. inner({"eth"}).error \in {"none", "unexpected tx type", "block hash"}
  BY <1>4 DEF inner_ensure_well_formed_payload
<1>8. ASSUME inner({"eth"}).error = "none" PROVE convert_sealed_block(c) = c
  <2> DEFINE eth == [i \in DOMAIN b.txs |-> [b.txs[i] EXCEPT !.kind = "eth"]]
  <2>1. \A t \in ToSet(b.txs) : t.kind = "eth"
    BY <1>1, <1>8 DEF inner_ensure_well_formed_payload
  <2>2. ASSUME NEW i \in DOMAIN b.txs PROVE [b.txs[i] EXCEPT !.kind = "eth"] = b.txs[i]
    <3>1. b.txs[i] \in Decodable /\ b.txs[i].kind = "eth"
      BY <1>3, <2>1 DEF ToSet
    <3>2. QED
      BY <3>1 DEF Decodable, Transaction
  <2>3. eth = b.txs
    <3>1. b.txs \in [1 .. Len(b.txs) -> Executes] /\ DOMAIN b.txs = 1 .. Len(b.txs)
      BY <1>2, SMT
    <3>2. b.txs = [i \in DOMAIN b.txs |-> b.txs[i]]
      BY <3>1
    <3>3. QED
      BY <2>2, <3>2
  <2>4. convert_sealed_block(c) = [c EXCEPT !.txs = eth]
    BY <1>1 DEF convert_sealed_block
  <2> HIDE DEF eth
  <2>5. [c EXCEPT !.txs = c.txs] = c
    BY DEF Assembled
  <2>6. QED
    BY <1>1, <2>3, <2>4, <2>5
<1>9. ensure_well_formed_payload(data).block = c /\ ensure_well_formed_payload(data).error = "none"
  <2> HIDE DEF c
  <2>1. parse_evolve_payload(data) = c
    BY DEF c, parse_evolve_payload
  <2> HIDE DEF inner
  <2> DEFINE bypass == \/ inner({"eth"}).error = "block hash"
                       \/ inner({"eth"}).error = "unexpected tx type"
  <2>2. /\ ensure_well_formed_payload(data).error =
             IF bypass THEN "none" ELSE inner({"eth"}).error
        /\ ensure_well_formed_payload(data).block =
             IF bypass THEN c ELSE convert_sealed_block(c)
    BY <1>5, <2>1 DEF inner, ensure_well_formed_payload, is_unknown_tx_type_error
  <2>3. CASE inner({"eth"}).error = "none"
    <3>1. convert_sealed_block(c) = c
      BY <1>8, <2>3 DEF inner, c
    <3>2. QED
      BY <2>2, <2>3, <3>1
  <2>4. CASE inner({"eth"}).error \in {"unexpected tx type", "block hash"}
    BY <2>2, <2>4
  <2>5. inner({"eth"}).error \in {"none", "unexpected tx type", "block hash"}
    BY <1>7 DEF inner
  <2>6. QED
    BY <2>3, <2>4, <2>5
<1>10. QED
  BY <1>5, <1>6, <1>9 DEF convert_payload_to_block

(* The payload has the fields of the fork of its timestamp.                *)
Proper(data) ==
  /\ data.payload.withdrawals = <<>> /\ data.payload.slot_number = None
  /\ data.root \in Roots
  /\ data.requests = None <=> data.payload.timestamp < Prague

(* The block of a payload executes as the named block does with the root   *)
(* of the payload.                                                         *)
LEMMA AssembledFields ==
  ASSUME NEW b, Honest(b), NEW data, Carries(data, b), Proper(data),
         NEW c, c = Assembled(data)
  PROVE  /\ c.parent = b.parent /\ c.number = b.parent.number + 1 /\ c.timestamp = b.timestamp
         /\ c.txs = b.txs /\ c.state = b.state /\ c.receipts = b.receipts
         /\ c.gas_used = b.gas_used /\ c.requests = data.requests /\ c.gas_limit = b.gas_limit
         /\ context_for_payload(data) = Context(b.parent, data.root)
         /\ context_for_block(c) = Context(b.parent, data.root)
         /\ data.requests = b.requests => c = [b EXCEPT !.root = data.root]
         /\ c = b <=> data.root = ZeroRoot /\ data.requests = b.requests
<1>1. /\ c.parent = b.parent /\ c.number = b.number /\ c.timestamp = b.timestamp
      /\ c.txs = b.txs /\ c.state = b.state /\ c.receipts = b.receipts
      /\ c.gas_used = b.gas_used /\ c.requests = data.requests /\ c.gas_limit = b.gas_limit
      /\ c.withdrawals = <<>> /\ c.slot_number = None /\ c.root = data.root
  BY DEF Assembled, Carries, Proper
<1>2. /\ b.number = b.parent.number + 1 /\ b.withdrawals = <<>> /\ b.root = ZeroRoot
      /\ b.slot_number = None
  BY HonestFields
<1>3. context_for_payload(data) = Context(b.parent, data.root)
  BY DEF context_for_payload, Context, Carries, Proper
<1>4. context_for_block(c) = Context(b.parent, data.root)
  BY <1>1 DEF context_for_block, Context
<1> DEFINE Blk(parent, number, ts, gl, txs, state, receipts, gu, root, req) ==
             [parent |-> parent, number |-> number, timestamp |-> ts, gas_limit |-> gl,
              txs |-> txs, state |-> state, receipts |-> receipts, gas_used |-> gu,
              withdrawals |-> <<>>, root |-> root, requests |-> req, slot_number |-> None]
           A(root, req) == Blk(b.parent, b.number, b.timestamp, b.gas_limit, b.txs, b.state,
                               b.receipts, b.gas_used, root, req)
<1>5. c = A(data.root, data.requests)
  BY <1>2 DEF Assembled, Carries, Proper
<1>6. b = A(ZeroRoot, b.requests)
  <2> DEFINE r == Run(b, ZeroRoot)
             q == IF b.timestamp < Prague THEN None ELSE r.requests
  <2>1. b = Header(b, r)
    BY DEF Honest
  <2> HIDE DEF r
  <2>2. b = Blk(b.parent, b.parent.number + 1, b.timestamp, b.gas_limit, b.txs, r.state,
                r.receipts, r.gas_used, ZeroRoot, q)
    BY <2>1 DEF Header
  <2>3. r.state = b.state /\ r.receipts = b.receipts /\ r.gas_used = b.gas_used /\ q = b.requests
    BY HonestFields DEF r
  <2> HIDE DEF q, Blk
  <2>4. QED
    BY <1>2, <2>2, <2>3
<1>7. [A(ZeroRoot, b.requests) EXCEPT !.root = data.root] = A(data.root, b.requests)
  BY SMT
<1> HIDE DEF A
<1>8. data.requests = b.requests => c = [b EXCEPT !.root = data.root]
  BY <1>5, <1>6, <1>7
<1>9. c = b <=> data.root = ZeroRoot /\ data.requests = b.requests
  BY <1>1, <1>2, <1>5, <1>6
<1>10. QED
  BY <1>1, <1>2, <1>3, <1>4, <1>8, <1>9

(* The consensus takes the gas limit of the block.                         *)
Bounded(b) == GasLimitInBounds(b.gas_limit, b.parent.gas_limit)

(* When the block of a payload is valid, and what it then is.              *)
LEMMA Imported ==
  ASSUME NEW b, Honest(b), NEW data, Carries(data, b), Proper(data),
         NEW c, c = Assembled(data)
  PROVE  /\ Valid(c, data) <=> /\ b.timestamp >= b.parent.timestamp /\ Bounded(b)
                              /\ Run(b, data.root).state = b.state
                              /\ data.requests = b.requests
         /\ Valid(c, data) => /\ c = [b EXCEPT !.root = data.root]
                             /\ Reexecutes(c) /\ Numbered(c)
                             /\ c.parent = b.parent /\ c.number = b.parent.number + 1
         /\ Valid(c, data) /\ node.system_contracts => c = b
         /\ Valid(c, data) /\ c = b <=> /\ b.timestamp >= b.parent.timestamp /\ Bounded(b)
                                       /\ data.root = ZeroRoot /\ data.requests = b.requests
<1> DEFINE r == Run(b, data.root)
           z == Run(b, ZeroRoot)
<1>1. /\ c.parent = b.parent /\ c.number = b.parent.number + 1 /\ c.timestamp = b.timestamp
      /\ c.txs = b.txs /\ c.state = b.state /\ c.receipts = b.receipts
      /\ c.gas_used = b.gas_used /\ c.requests = data.requests /\ c.gas_limit = b.gas_limit
      /\ context_for_payload(data) = Context(b.parent, data.root)
      /\ context_for_block(c) = Context(b.parent, data.root)
      /\ data.requests = b.requests => c = [b EXCEPT !.root = data.root]
      /\ c = b <=> data.root = ZeroRoot /\ data.requests = b.requests
  BY AssembledFields, SMT
<1>2. /\ b.state = z.state /\ b.receipts = z.receipts /\ b.gas_used = z.gas_used
      /\ b.requests = IF b.timestamp < Prague THEN None ELSE z.requests
      /\ Executable(b) /\ b.timestamp \in Nat
  BY HonestFields
<1>3. data.root \in Roots /\ ZeroRoot \in Roots
  BY InputAssumption DEF Proper
<1>4. /\ r.receipts = z.receipts /\ r.gas_used = z.gas_used /\ r.requests = z.requests
      /\ node.system_contracts /\ r.state = z.state => data.root = ZeroRoot
  BY <1>2, <1>3, RunRoot, SMT DEF SameRest
<1>5. r = Execute(c.parent.state, context_for_payload(data), c.timestamp, data.payload.txs)
  BY <1>1 DEF Run, Carries
<1>6. r = Execute(c.parent.state, context_for_block(c), c.timestamp, c.txs)
  BY <1>1 DEF Run
<1>7. \A t \in ToSet(b.txs) : t \in Decodable /\ t.executes
  <2>1. b.txs \in Seq(Executes)
    BY DEF Honest
  <2>2. QED
    BY <2>1, SMT DEF Executes, ToSet
<1>8. data.payload.txs = b.txs /\ data.payload.timestamp = b.timestamp
  BY DEF Carries
<1>9. z.state \in Seq(Entry)
  BY <1>2, <1>3, RunFields DEF Executor
<1>10. data.requests \in {None, z.requests} <=> data.requests = b.requests
  BY <1>2, <1>8, HonestRequests DEF Proper
<1> HIDE DEF r, z
<1>11. Valid(c, data) <=>
         /\ b.timestamp >= b.parent.timestamp /\ Bounded(b)
         /\ r.state = b.state
         /\ data.requests \in {None, z.requests}
  BY <1>1, <1>2, <1>4, <1>5, <1>7, <1>8 DEF Valid, Bounded, tx_iterator_for_payload
<1>12. ASSUME r.state = b.state, data.requests = b.requests
       PROVE  Reexecutes(c) /\ Numbered(c)
  <2>1. Reexecutes(c)
    BY <1>1, <1>2, <1>4, <1>6, <1>10, <1>12 DEF Reexecutes
  <2>2. Numbered(c)
    BY <1>1, <1>2, <1>9, SMT DEF Numbered, Executable
  <2>3. QED
    BY <2>1, <2>2
<1>13. data.root = ZeroRoot => r.state = b.state
  BY <1>2 DEF r, z
<1>14. Valid(c, data) <=>
         /\ b.timestamp >= b.parent.timestamp /\ Bounded(b)
         /\ r.state = b.state /\ data.requests = b.requests
  BY <1>10, <1>11
<1>15. Valid(c, data) /\ node.system_contracts => c = b
  BY <1>1, <1>2, <1>4, <1>14
<1>16. Valid(c, data) /\ c = b <=> /\ b.timestamp >= b.parent.timestamp /\ Bounded(b)
                                  /\ data.root = ZeroRoot /\ data.requests = b.requests
  BY <1>1, <1>13, <1>14
<1>17. Valid(c, data) => Reexecutes(c) /\ Numbered(c) /\ c = [b EXCEPT !.root = data.root]
  BY <1>1, <1>12, <1>14
<1>18. QED
  BY <1>1, <1>14, <1>15, <1>16, <1>17 DEF r

(* The versions that convey the fields of the fork.                        *)
LEMMA FieldsProper ==
  ASSUME NEW b, Honest(b), NEW data, Carries(data, b),
         NEW version \in 1 .. 6, NEW root \in Roots, OfVersion(data, version, root)
  PROVE  /\ FieldsOfFork(data) <=> Conveyed(data)
         /\ FieldsOfFork(data) =>
              Proper(data) /\ (data.requests = b.requests <=> b.requests \in {None, {}})
<1>1. root # None /\ <<>> # None /\ {} # None
  <2>1. root # None
    BY InputAssumption
  <2>2. <<>> # None
    <3>1. <<>> \in Seq(Withdrawals)
      BY SMT
    <3>2. QED
      BY <3>1, InputAssumption
  <2>3. {} # None
    BY InputAssumption
  <2>4. QED
    BY <2>1, <2>2, <2>3
<1>2. data.root # None => version >= 3 /\ data.root = root /\ data.payload.withdrawals = <<>>
  BY SMT DEF OfVersion
<1>3. FieldsOfFork(data) <=> Conveyed(data)
  BY <1>1, <1>2 DEF FieldsOfFork, Conveyed
<1>4. data.requests \in {None, {}}
  BY DEF OfVersion
<1>5. ASSUME FieldsOfFork(data)
      PROVE  Proper(data) /\ (data.requests = b.requests <=> b.requests \in {None, {}})
  <2>1. Proper(data)
    BY <1>2, <1>5 DEF FieldsOfFork, Proper
  <2>2. data.requests = None <=> b.requests = None
    BY <2>1, HonestRequests DEF Proper, Carries
  <2>3. QED
    BY <1>4, <2>1, <2>2
<1>6. QED
  BY <1>3, <1>5

(* What the sequencer holds, and when it comes back as the block it names. *)
Returns(b) ==
  /\ Bounded(b)
  /\ \/ node.dev
     \/ /\ Conveyed(sent)
        /\ sent.root = ZeroRoot
        /\ b.requests \in {None, {}}
        /\ b.parent \in known
        /\ b.timestamp >= b.parent.timestamp

(* What the sequencer sends is proper, and names the block it was fetched  *)
(* for.                                                                    *)
LEMMA Sent ==
  ASSUME KnownInv, PhaseInv, phase = "sent", NEW b, b = sent.payload.block_hash
  PROVE  /\ Honest(b) /\ Carries(sent, b)
         /\ node.dev \/ FieldsOfFork(sent) => Proper(sent)
         /\ Returns(b) <=> /\ node.dev \/ FieldsOfFork(sent)
                          /\ b.parent \in known /\ Bounded(b)
                          /\ b.timestamp >= b.parent.timestamp
                          /\ sent.root = ZeroRoot /\ sent.requests = b.requests
<1>1. Honest(b)
  BY DEF PhaseInv
<1>2. CASE node.dev
  <2>1. /\ sent = block_to_payload(b) /\ b.parent = head /\ b.timestamp >= head.timestamp
        /\ head \in known
    BY <1>2 DEF PhaseInv, KnownInv
  <2>2. /\ Carries(sent, b) /\ sent.payload.withdrawals = <<>>
        /\ sent.payload.slot_number = None /\ sent.root = ZeroRoot /\ sent.requests = b.requests
    BY <1>1, <2>1, LocalFields
  <2>3. b.requests = None <=> b.timestamp < Prague
    BY <1>1, HonestRequests
  <2>4. Proper(sent)
    BY <2>2, <2>3, InputAssumption DEF Proper, Carries
  <2>5. QED
    BY <1>1, <1>2, <2>1, <2>2, <2>4 DEF Returns
<1>3. CASE ~node.dev
  <2>1. Fetched(sent, b)
    BY <1>3 DEF PhaseInv
  <2>2. PICK version \in 1 .. 6, root \in Roots :
          sent = ExecutionData(version, BuiltPayload(b), root)
    BY <2>1 DEF Fetched
  <2>3. Carries(sent, b) /\ OfVersion(sent, version, root)
    BY <1>1, <2>2, FetchedFields
  <2>4. /\ FieldsOfFork(sent) <=> Conveyed(sent)
        /\ FieldsOfFork(sent) =>
             Proper(sent) /\ (sent.requests = b.requests <=> b.requests \in {None, {}})
    BY <1>1, <2>3, FieldsProper
  <2>5. QED
    BY <1>1, <1>3, <2>3, <2>4 DEF Returns
<1>4. QED
  BY <1>2, <1>3

-----------------------------------------------------------------------------
(* The steps.                                                              *)

(* Blocks that agree with their re-execution go on doing so.               *)
LEMMA ReexecutionKept ==
  ASSUME ReexecutionAgrees, node' = node,
         \A b \in known' : b \in known \/ Reexecutes(b)
  PROVE  ReexecutionAgrees'
<1>1. \A b \in known : b.number > 0 => Reexecutes(b)
  BY DEF ReexecutionAgrees, Reexecutes
<1>2. ASSUME NEW b \in known', b.number > 0 PROVE Reexecutes(b)'
  <2>1. Reexecutes(b)
    BY <1>1, <1>2
  <2>2. QED
    BY <2>1, SameNode
<1>3. QED
  BY <1>2 DEF ReexecutionAgrees, Reexecutes

(* Before the answer there is nothing to say of it.                        *)
LEMMA Unanswered ==
  ASSUME answer'.status = "none"
  PROVE  BuiltBlockReturns' /\ OnlyRootSubstituted'
BY DEF BuiltBlockReturns, OnlyRootSubstituted

(* Steps of the pool alone.                                                *)
LEMMA PoolStep ==
  ASSUME IInv, UNCHANGED <<node, known, head, phase, job, built, sent, answer>>,
         pool' \in Seq(PoolTxs)
  PROVE  IInv'
<1>1. KnownInv'
  BY DEF IInv, KnownInv, Numbered
<1>2. ReexecutionAgrees'
  BY ReexecutionKept DEF IInv
<1>3. BuiltBlockReturns' /\ OnlyRootSubstituted'
  BY DEF IInv, BuiltBlockReturns, OnlyRootSubstituted, Conveyed
<1>4. PhaseInv'
  <2>1. phase = "built" => Honest(built.block)'
    BY SameNode DEF IInv, PhaseInv
  <2>2. phase = "sent" => Honest(sent.payload.block_hash)'
    BY SameNode DEF IInv, PhaseInv
  <2>3. QED
    BY <2>1, <2>2 DEF IInv, PhaseInv, Fetched
<1>5. QED
  BY <1>1, <1>2, <1>3, <1>4 DEF IInv

(* A job is asked for.                                                     *)
LEMMA JobStep ==
  ASSUME IInv, phase = "idle", phase' = "requested", NEW a,
         job' = [parent |-> head, attributes |-> a],
         a.root \in Roots, a.transactions \in Batches \cup {None}, a.timestamp \in Nat,
         node.dev => a.timestamp >= head.timestamp,
         UNCHANGED <<node, known, head, pool, built, sent, answer>>
  PROVE  IInv'
<1>1. KnownInv'
  BY DEF IInv, KnownInv, Numbered
<1>2. ReexecutionAgrees'
  BY ReexecutionKept DEF IInv
<1>3. answer'.status = "none"
  BY DEF IInv, PhaseInv
<1>4. BuiltBlockReturns' /\ OnlyRootSubstituted'
  BY <1>3, Unanswered
<1>5. PhaseInv'
  <2>1. job'.parent = head /\ job'.attributes = a
    OBVIOUS
  <2>2. QED
    BY <1>3, <2>1 DEF IInv, PhaseInv
<1>6. QED
  BY <1>1, <1>2, <1>4, <1>5 DEF IInv

(* A request for a payload keeps the invariant.                            *)
LEMMA RequestStep ==
  ASSUME IInv,
         NEW a \in [timestamp : Timestamps,
                    withdrawals : {<<>>, None} \cup {<<w>> : w \in Withdrawals},
                    root : Roots \cup {None}, transactions : Batches \cup {None},
                    gas_limit : GasLimits \cup {None}],
         RequestPayload(a)
  PROVE  IInv'
<1>1. /\ a.root \in Roots /\ a.transactions \in Batches \cup {None} /\ a.timestamp \in Nat
      /\ ~node.dev
  BY InputAssumption DEF RequestPayload, ensure_well_formed_attributes
<1>2. QED
  BY <1>1, JobStep DEF RequestPayload

(* A request of the local payload builder keeps the invariant.             *)
LEMMA RequestLocalStep ==
  ASSUME IInv, NEW now \in Timestamps, NEW root \in Roots, RequestLocal(now, root)
  PROVE  IInv'
<1> DEFINE a == local_payload_attributes(head, now, root)
<1>1. head.timestamp \in Nat /\ now \in Nat
  BY InputAssumption DEF IInv, KnownInv, Numbered
<1>2. a.root = root /\ a.transactions = None
      /\ a.timestamp = IF now > head.timestamp THEN now ELSE head.timestamp + 1
  BY DEF local_payload_attributes
<1>3. a.timestamp \in Nat /\ a.timestamp >= head.timestamp
  BY <1>1, <1>2, SMT
<1>4. /\ phase = "idle" /\ phase' = "requested" /\ job' = [parent |-> head, attributes |-> a]
      /\ UNCHANGED <<node, known, head, pool, built, sent, answer>>
  BY DEF RequestLocal
<1> HIDE DEF a
<1>5. QED
  BY <1>2, <1>3, <1>4, JobStep

(* What is built is honest.                                                *)
LEMMA BuildHonest ==
  ASSUME KnownInv, PhaseInv, phase = "requested", NEW b,
         b = build_payload(job.parent, EvolvePayloadAttributes(job.parent, job.attributes))
  PROVE  Honest(b) /\ b.parent = head /\ b.timestamp = job.attributes.timestamp
<1> DEFINE at == EvolvePayloadAttributes(head, job.attributes)
           txs == Filter(at.transactions, {t \in Decodable : t.executes})
           ctx == context_for_next_block(head, next_block_attrs(at))
           r == Execute(head.state, ctx, at.timestamp, txs)
<1>1. /\ job.parent = head /\ job.attributes.transactions \in Batches \cup {None}
      /\ pool \in Seq(PoolTxs) /\ job.attributes.timestamp \in Nat
  BY DEF PhaseInv
<1>2. head.number \in Nat /\ head.state \in Seq(Entry)
  BY DEF KnownInv, Numbered
<1>3. at.transactions = Transactions(job.attributes) /\ at.timestamp = job.attributes.timestamp
      /\ at.slot_number = None
  BY DEF EvolvePayloadAttributes
<1>4. \E R : at.transactions \in Seq(R)
  <2>1. CASE node.dev
    BY <1>1, <1>3, <2>1 DEF Transactions
  <2>2. CASE ~node.dev /\ job.attributes.transactions = None
    BY <1>3, <2>2, SMT DEF Transactions
  <2>3. CASE ~node.dev /\ job.attributes.transactions # None
    <3>1. job.attributes.transactions \in Seq(Transaction)
      BY <1>1, <2>3, InputAssumption
    <3>2. Filter(job.attributes.transactions, Decodable) \in Seq(Decodable)
      BY <3>1, FilterType
    <3>3. QED
      BY <1>3, <2>3, <3>2 DEF Transactions
  <2>4. QED
    BY <2>1, <2>2, <2>3
<1>5. txs \in Seq(Executes)
  <2>1. PICK R : at.transactions \in Seq(R)
    BY <1>4
  <2> HIDE DEF at
  <2>2. QED
    BY <2>1, FilterType DEF Executes
<1>6. ctx = Context(head, ZeroRoot)
  BY <1>3 DEF context_for_next_block, next_block_attrs, Context
<1>7. b = [parent |-> head, number |-> head.number + 1, timestamp |-> at.timestamp,
           gas_limit |-> at.gas_limit, txs |-> txs, state |-> r.state,
           receipts |-> r.receipts, gas_used |-> r.gas_used, withdrawals |-> <<>>,
           root |-> ZeroRoot,
           requests |-> IF at.timestamp < Prague THEN None ELSE r.requests,
           slot_number |-> None]
  <2>1. ctx.withdrawals = <<>> /\ ctx.root = ZeroRoot /\ ctx.slot_number = None
    BY <1>6, SMT DEF Context
  <2>2. b = build_payload(head, at)
    BY <1>1
  <2> HIDE DEF at
  <2>3. QED
    BY <2>1, <2>2 DEF build_payload
<1> HIDE DEF at, txs, r, ctx
<1>8. /\ b.parent = head /\ b.timestamp = at.timestamp /\ b.txs = txs
      /\ b.gas_limit = at.gas_limit
  BY <1>7, SMT
<1>9. Run(b, ZeroRoot) = r
  BY <1>6, <1>8 DEF Run, r
<1>10. b = Header(b, r)
  BY <1>7, <1>8 DEF Header
<1>11. QED
  BY <1>1, <1>2, <1>3, <1>5, <1>8, <1>9, <1>10 DEF Honest

(* A build keeps the invariant.                                            *)
LEMMA BuildStep ==
  ASSUME IInv, Build
  PROVE  IInv'
<1> DEFINE b == build_payload(job.parent, EvolvePayloadAttributes(job.parent, job.attributes))
<1>1. /\ phase = "requested" /\ phase' = "built" /\ built' = BuiltPayload(b)
      /\ UNCHANGED <<node, known, head, pool, job, sent, answer>>
  BY DEF Build
<1>2. Honest(b) /\ b.parent = head /\ b.timestamp = job.attributes.timestamp
  BY <1>1, BuildHonest DEF IInv
<1> HIDE DEF b
<1>3. built'.block = b
  BY <1>1 DEF BuiltPayload
<1>4. Honest(built.block)'
  BY <1>1, <1>2, <1>3, SameNode
<1>5. KnownInv'
  BY <1>1 DEF IInv, KnownInv, Numbered
<1>6. ReexecutionAgrees'
  BY <1>1, ReexecutionKept DEF IInv
<1>7. answer'.status = "none"
  BY <1>1 DEF IInv, PhaseInv
<1>8. BuiltBlockReturns' /\ OnlyRootSubstituted'
  BY <1>7, Unanswered
<1>9. PhaseInv'
  BY <1>1, <1>2, <1>3, <1>4, <1>7 DEF IInv, PhaseInv
<1>10. QED
  BY <1>5, <1>6, <1>8, <1>9 DEF IInv

(* The job ends: with nothing, or with what the sequencer gets of it.      *)
LEMMA EndStep ==
  ASSUME IInv, phase' \in {"idle", "sent"}, answer'.status = "none",
         phase' = "sent" =>
           LET b == sent'.payload.block_hash
           IN  /\ Honest(b)
               /\ ~node.dev => Fetched(sent', b)
               /\ node.dev => /\ sent' = block_to_payload(b)
                              /\ b.parent = head /\ b.timestamp >= head.timestamp,
         UNCHANGED <<node, known, head, pool>>
  PROVE  IInv'
<1>1. KnownInv'
  BY DEF IInv, KnownInv, Numbered
<1>2. ReexecutionAgrees'
  BY ReexecutionKept DEF IInv
<1>3. BuiltBlockReturns' /\ OnlyRootSubstituted'
  BY Unanswered
<1>4. PhaseInv'
  <2>1. phase' = "sent" => Honest(sent.payload.block_hash)'
    BY SameNode
  <2>2. QED
    BY <2>1 DEF IInv, PhaseInv, Fetched
<1>5. QED
  BY <1>1, <1>2, <1>3, <1>4 DEF IInv

(* getPayload without a payload keeps the invariant.                       *)
LEMMA GetNothingStep ==
  ASSUME IInv, GetNothing
  PROVE  IInv'
<1>1. /\ phase = "requested" /\ phase' = "idle"
      /\ UNCHANGED <<node, known, head, pool, answer>>
  BY DEF GetNothing, Idle
<1>2. answer'.status = "none"
  BY <1>1 DEF IInv, PhaseInv
<1>3. QED
  BY <1>1, <1>2, EndStep

(* getPayload of any version keeps the invariant.                          *)
LEMMA GetPayloadStep ==
  ASSUME IInv, NEW version \in 1 .. 6, GetPayload(version)
  PROVE  IInv'
<1> DEFINE b == built.block
           root == job.attributes.root
<1>1. /\ ~node.dev /\ phase = "built" /\ phase' = "sent"
      /\ sent' = ExecutionData(version, built, root)
      /\ UNCHANGED <<node, known, head, pool, answer>>
  BY DEF GetPayload
<1>2. Honest(b) /\ built = BuiltPayload(b) /\ root \in Roots /\ answer.status = "none"
  BY <1>1 DEF IInv, PhaseInv
<1> HIDE DEF b, root
<1>3. sent' = ExecutionData(version, BuiltPayload(b), root)
  BY <1>1, <1>2
<1>4. sent'.payload.block_hash = b
  BY <1>2, <1>3, FetchedFields, SMT DEF Carries
<1>5. Fetched(sent', b)
  BY <1>2, <1>3 DEF Fetched
<1>6. QED
  BY <1>1, <1>2, <1>4, <1>5, EndStep

(* Fetching a payload locally keeps the invariant.                         *)
LEMMA GetLocalStep ==
  ASSUME IInv, GetLocal
  PROVE  IInv'
<1> DEFINE b == built.block
<1>1. /\ node.dev /\ phase = "built" /\ phase' = "sent" /\ sent' = block_to_payload(b)
      /\ UNCHANGED <<node, known, head, pool, answer>>
  BY DEF GetLocal
<1>2. /\ Honest(b) /\ answer.status = "none" /\ b.parent = head
      /\ b.timestamp >= head.timestamp
  BY <1>1 DEF IInv, PhaseInv
<1> HIDE DEF b
<1>3. sent'.payload.block_hash = b
  BY <1>1, <1>2, LocalFields DEF Carries
<1>4. QED
  BY <1>1, <1>2, <1>3, EndStep

(* A payload is imported, with a conversion that gives the block of the    *)
(* payload and does not refuse the block that the payload names.           *)
LEMMA ImportStep ==
  ASSUME IInv, NEW converted, NewPayload(converted),
         converted.block = Assembled(sent),
         Assembled(sent) = sent.payload.block_hash => converted.error = "none"
  PROVE  IInv'
<1> DEFINE c == Assembled(sent)
           open == node.dev \/ FieldsOfFork(sent)
           accepted(b) == /\ open /\ b.parent \in known
                          /\ converted.error = "none" /\ Valid(c, sent)
<1>0. PICK b : b = sent.payload.block_hash
  OBVIOUS
<1>1. phase = "sent" /\ UNCHANGED <<node, head, pool, phase, job, built, sent>>
  BY DEF NewPayload
<1>2. /\ Honest(b) /\ Carries(sent, b)
      /\ open => Proper(sent)
      /\ Returns(b) <=> /\ open /\ b.parent \in known /\ Bounded(b)
                       /\ b.timestamp >= b.parent.timestamp
                       /\ sent.root = ZeroRoot /\ sent.requests = b.requests
  BY <1>0, <1>1, Sent DEF IInv
<1>3. sent.payload.parent = b.parent
  BY <1>2 DEF Carries
<1>4. ASSUME open
      PROVE  /\ Valid(c, sent) => /\ c = [b EXCEPT !.root = sent.root]
                                 /\ Reexecutes(c) /\ Numbered(c)
                                 /\ c.parent = b.parent /\ c.number = b.parent.number + 1
             /\ Valid(c, sent) /\ node.system_contracts => c = b
             /\ Valid(c, sent) /\ c = b <=>
                  /\ b.timestamp >= b.parent.timestamp /\ Bounded(b)
                  /\ sent.root = ZeroRoot /\ sent.requests = b.requests
  BY <1>2, <1>4, Imported, SMT
<1> HIDE DEF c, open
<1>5. accepted(b) \/ ~accepted(b)
  OBVIOUS
<1>6. accepted(b) => answer' = [status |-> "VALID", block |-> c] /\ known' = known \cup {c}
  BY <1>3 DEF NewPayload, c, open
<1>7. ~accepted(b) => answer'.status \in {"INVALID", "SYNCING"} /\ known' = known
  BY <1>3, SMT DEF NewPayload, c, open
<1>8. accepted(b) /\ c = b <=> Returns(b)
  BY <1>0, <1>2, <1>4 DEF c
<1>9. b.parent \in known' /\ ~(b.parent \in known) => FALSE
  BY <1>6, <1>7
<1>10. KnownInv'
  <2>1. CASE ~accepted(b)
    BY <1>1, <1>7, <2>1 DEF IInv, KnownInv, Numbered
  <2>2. CASE accepted(b)
    <3>1. Numbered(c) /\ c.parent \in known /\ c.number = c.parent.number + 1
      BY <1>4, <2>2
    <3>2. \A d \in known' : /\ Numbered(d)
                            /\ d.number > 0 => d.parent \in known' /\ d.number = d.parent.number + 1
      BY <1>6, <2>2, <3>1 DEF IInv, KnownInv
    <3>3. QED
      BY <1>1, <1>6, <2>2, <3>2 DEF IInv, KnownInv, Numbered
  <2>3. QED
    BY <2>1, <2>2
<1>11. ReexecutionAgrees'
  <2>1. \A d \in known' : d \in known \/ Reexecutes(d)
    BY <1>4, <1>6, <1>7
  <2>2. QED
    BY <1>1, <2>1, ReexecutionKept DEF IInv
<1>12. BuiltBlockReturns'
  <2>1. sent'.payload.block_hash = b
    BY <1>0, <1>1
  <2>2. Returns(b)' <=> Returns(b)
    BY <1>1, <1>9, <1>6, <1>7 DEF Returns, Bounded, Conveyed
  <2>3. answer'.status = "VALID" /\ answer'.block = b <=> accepted(b) /\ c = b
    BY <1>6, <1>7, SMT
  <2>4. answer'.status = "VALID" /\ answer'.block = b <=> Returns(b)'
    BY <1>8, <2>2, <2>3
  <2>5. QED
    BY <2>1, <2>4 DEF BuiltBlockReturns, Returns, Bounded
<1>13. OnlyRootSubstituted'
  <2>1. answer'.status = "VALID" => accepted(b) /\ answer'.block = c
    BY <1>6, <1>7, SMT
  <2>2. accepted(b) => c = b \/ (~node.system_contracts /\ c = [b EXCEPT !.root = sent.root])
    BY <1>4
  <2>3. QED
    BY <1>0, <1>1, <2>1, <2>2 DEF OnlyRootSubstituted
<1>14. PhaseInv'
  <2>1. Honest(sent.payload.block_hash)'
    BY <1>0, <1>1, <1>2, SameNode
  <2>2. answer'.status \in {"INVALID", "SYNCING", "VALID"}
    BY <1>6, <1>7, SMT
  <2>3. QED
    BY <1>1, <2>1, <2>2 DEF IInv, PhaseInv, Fetched
<1>15. QED
  BY <1>10, <1>11, <1>12, <1>13, <1>14 DEF IInv

(* newPayload keeps the invariant, with either conversion.                 *)
LEMMA NewPayloadStep ==
  ASSUME IInv,
         \/ NewPayload(convert_payload_to_block(sent))
         \/ NewPayload(ensure_well_formed_payload(sent))
  PROVE  IInv'
<1>1. phase = "sent"
  BY DEF NewPayload
<1>2. Honest(sent.payload.block_hash) /\ Carries(sent, sent.payload.block_hash)
  BY <1>1, Sent DEF IInv
<1>3. CASE NewPayload(convert_payload_to_block(sent))
  <2>1. PICK converted : converted = convert_payload_to_block(sent) /\ NewPayload(converted)
    BY <1>3
  <2>2. /\ converted.block = Assembled(sent)
        /\ Assembled(sent) = sent.payload.block_hash => converted.error = "none"
    BY <1>2, <2>1, Converted
  <2>3. QED
    BY <2>1, <2>2, ImportStep
<1>4. CASE NewPayload(ensure_well_formed_payload(sent))
  <2>1. PICK converted : converted = ensure_well_formed_payload(sent) /\ NewPayload(converted)
    BY <1>4
  <2>2. converted.block = Assembled(sent) /\ converted.error = "none"
    BY <1>2, <2>1, Converted
  <2>3. QED
    BY <2>1, <2>2, ImportStep
<1>5. QED
  BY <1>3, <1>4

(* The head moves to a known block, and the blocks below it are kept.      *)
LEMMA HeadStep ==
  ASSUME IInv, NEW h \in known, head' = h, known' = Ancestors(h), node' = node,
         pool' \in Seq(PoolTxs), answer'.status = "none",
         phase' = "idle" \/ (phase = "sent" /\ ~node.dev /\ UNCHANGED <<phase, sent>>)
  PROVE  IInv'
<1>1. KnownInv
  BY DEF IInv
<1>2. Lineage(h, known')
  BY <1>1, AncestorsKnown
<1>3. known' \subseteq known /\ h \in known'
  BY <1>2 DEF Lineage
<1>4. KnownInv'
  <2>1. \A b \in known' : /\ Numbered(b)
                          /\ b.number > 0 => b.parent \in known' /\ b.number = b.parent.number + 1
    BY <1>1, <1>2, <1>3 DEF KnownInv, Lineage
  <2>2. QED
    BY <1>3, <2>1 DEF KnownInv, Numbered
<1>5. ReexecutionAgrees'
  BY <1>3, ReexecutionKept DEF IInv
<1>6. BuiltBlockReturns' /\ OnlyRootSubstituted'
  BY Unanswered
<1>7. PhaseInv'
  <2>1. CASE phase' = "idle"
    BY <2>1 DEF IInv, PhaseInv
  <2>2. CASE phase = "sent" /\ ~node.dev /\ UNCHANGED <<phase, sent>>
    <3>1. Honest(sent.payload.block_hash)'
      BY <2>2, SameNode DEF IInv, PhaseInv
    <3>2. QED
      BY <2>2, <3>1 DEF IInv, PhaseInv, Fetched
  <2>3. QED
    BY <2>1, <2>2
<1>8. QED
  BY <1>4, <1>5, <1>6, <1>7 DEF IInv

(* A change of the head keeps the invariant.                               *)
LEMMA ForkchoiceStep ==
  ASSUME IInv, Forkchoice
  PROVE  IInv'
<1> DEFINE named == sent.payload.block_hash
<1>1. phase' = "idle" /\ answer'.status = "none" /\ node' = node
  BY DEF Forkchoice, Idle, NoAnswer
<1>2. CASE named \in known
  <2>1. /\ head' = named /\ known' = Ancestors(named)
        /\ pool' = Filter(pool, PoolTxs \ ToSet(named.txs))
    BY <1>2 DEF Forkchoice
  <2>2. pool' \in Seq(PoolTxs)
    <3>1. pool \in Seq(PoolTxs)
      BY DEF IInv, PhaseInv
    <3>2. PICK R : R = PoolTxs \ ToSet(named.txs)
      OBVIOUS
    <3>3. Filter(pool, R) \in Seq(R)
      BY <3>1, FilterType
    <3>4. Seq(R) \subseteq Seq(PoolTxs)
      BY <3>2, SeqMonotonic
    <3>5. QED
      BY <2>1, <3>2, <3>3, <3>4
  <2>3. QED
    BY <1>1, <1>2, <2>1, <2>2, HeadStep
<1>3. CASE named \notin known
  <2>1. UNCHANGED <<head, known, pool>>
    BY <1>3 DEF Forkchoice
  <2>2. QED
    BY <1>1, <2>1, EndStep
<1>4. QED
  BY <1>2, <1>3

(* A restart keeps the invariant.                                          *)
LEMMA RestartStep ==
  ASSUME IInv, NEW h \in known, Restart(h)
  PROVE  IInv'
<1>1. /\ head' = h /\ known' = Ancestors(h) /\ pool' = <<>> /\ answer'.status = "none"
      /\ node' = node
      /\ phase' = "idle" \/ (phase = "sent" /\ ~node.dev /\ UNCHANGED <<phase, sent>>)
  BY DEF Restart, Idle, NoAnswer
<1>2. pool' \in Seq(PoolTxs)
  BY <1>1, SMT
<1>3. QED
  BY <1>1, <1>2, HeadStep

(* The invariant holds of a started node.                                  *)
LEMMA InitStep ==
  ASSUME Init
  PROVE  IInv
<1>1. /\ GenesisBlock.number = 0 /\ GenesisBlock.timestamp = 0 /\ GenesisBlock.state = <<>>
  BY DEF GenesisBlock
<1>2. KnownInv
  <2>1. Numbered(GenesisBlock) /\ ~(GenesisBlock.number > 0)
    BY <1>1, SMT DEF Numbered
  <2>2. known = {GenesisBlock} /\ head = GenesisBlock
    BY DEF Init
  <2>3. QED
    BY <2>1, <2>2 DEF KnownInv
<1>3. ReexecutionAgrees
  BY <1>1, SMT DEF Init, ReexecutionAgrees
<1>4. answer.status = "none"
  BY DEF Init, NoAnswer
<1>5. BuiltBlockReturns /\ OnlyRootSubstituted
  BY <1>4 DEF BuiltBlockReturns, OnlyRootSubstituted
<1>6. PhaseInv
  <2>1. node \in [dev : BOOLEAN, system_contracts : BOOLEAN] /\ phase = "idle" /\ pool = <<>>
    BY DEF Init
  <2>2. pool \in Seq(PoolTxs)
    BY <2>1, SMT
  <2>3. QED
    BY <1>4, <2>1, <2>2 DEF PhaseInv
<1>7. QED
  BY <1>2, <1>3, <1>5, <1>6 DEF IInv

(* Every step keeps the invariant.                                         *)
LEMMA NextStep ==
  ASSUME IInv, [Next]_vars
  PROVE  IInv'
<1>1. ASSUME NEW a \in [timestamp : Timestamps,
                        withdrawals : {<<>>, None} \cup {<<w>> : w \in Withdrawals},
                        root : Roots \cup {None}, transactions : Batches \cup {None},
                        gas_limit : GasLimits \cup {None}],
             RequestPayload(a)
      PROVE  IInv'
  BY <1>1, RequestStep
<1>2. ASSUME NEW now \in Timestamps, NEW root \in Roots, RequestLocal(now, root) PROVE IInv'
  BY <1>2, RequestLocalStep
<1>3. ASSUME NEW t \in PoolTxs, Receive(t) PROVE IInv'
  <2>1. pool \in Seq(PoolTxs)
    BY DEF IInv, PhaseInv
  <2>2. pool' \in Seq(PoolTxs)
    BY <1>3, <2>1, SMT DEF Receive
  <2>3. QED
    BY <1>3, <2>2, PoolStep DEF Receive
<1>4. CASE Build
  BY <1>4, BuildStep
<1>5. CASE GetNothing
  BY <1>5, GetNothingStep
<1>6. ASSUME NEW version \in 1 .. 6, GetPayload(version) PROVE IInv'
  BY <1>6, GetPayloadStep
<1>7. CASE GetLocal
  BY <1>7, GetLocalStep
<1>8. CASE \/ NewPayload(convert_payload_to_block(sent))
           \/ NewPayload(ensure_well_formed_payload(sent))
  BY <1>8, NewPayloadStep
<1>9. CASE Forkchoice
  BY <1>9, ForkchoiceStep
<1>10. ASSUME NEW h \in known, Restart(h) PROVE IInv'
  BY <1>10, RestartStep
<1>11. CASE UNCHANGED vars
  <2>1. UNCHANGED <<node, known, head, pool, phase, job, built, sent, answer>>
    BY <1>11 DEF vars
  <2>2. pool' \in Seq(PoolTxs)
    BY <2>1 DEF IInv, PhaseInv
  <2>3. QED
    BY <2>1, <2>2, PoolStep
<1>12. QED
  BY <1>1, <1>2, <1>3, <1>4, <1>5, <1>6, <1>7, <1>8, <1>9, <1>10, <1>11 DEF Next

-----------------------------------------------------------------------------
(* The theorems.                                                           *)

(* The invariant of the round trip: what is built is what its execution    *)
(* gives, what is sent is an envelope of it, and the node's blocks form a  *)
(* tree over genesis whose headers are true.                               *)
THEOREM Invariance == Spec => []IInv
<1>1. Init => IInv
  BY InitStep
<1>2. IInv /\ [Next]_vars => IInv'
  BY NextStep
<1>3. QED
  BY <1>1, <1>2, PTL DEF Spec

(* A built block comes back under its own hash exactly if its version, the *)
(* root and the requests that travel beside it, its parent and its         *)
(* timestamp permit it, whichever conversion of validator.rs runs.         *)
THEOREM BuiltBlocksReturn == Spec => []BuiltBlockReturns
<1>1. IInv => BuiltBlockReturns
  BY DEF IInv
<1>2. QED
  BY <1>1, Invariance, PTL

(* Without the comparison of hashes that validator.rs bypasses, nothing    *)
(* but the beacon root can differ, and only where nothing depends on it.   *)
THEOREM RootAloneSubstituted == Spec => []OnlyRootSubstituted
<1>1. IInv => OnlyRootSubstituted
  BY DEF IInv
<1>2. QED
  BY <1>1, Invariance, PTL

(* The contexts of executor.rs for a payload and for the stored block give *)
(* the same execution for every block that the node keeps.                 *)
THEOREM ReexecutionsAgree == Spec => []ReexecutionAgrees
<1>1. IInv => ReexecutionAgrees
  BY DEF IInv
<1>2. QED
  BY <1>1, Invariance, PTL

========================================
