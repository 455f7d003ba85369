------------------------ MODULE BlockProductionProofs ------------------------
(***************************************************************************)
(* Theorems of block production, for any transactions, gas limits and      *)
(* numbers of blocks and jobs.                                             *)
(*                                                                         *)
(* TypeOK is inductive by itself.  GasStaysInBlock needs TypeOK, and that  *)
(* a build starts from no gas used, which NoProgress gives as soon as a    *)
(* job that is not executing is known to have used nothing: FreshBuild.    *)
(*                                                                         *)
(* What a finished payload is depends on all rounds of the loop that built *)
(* it.  SoundJobs says where a build is: it chose greedily among the       *)
(* transactions it is done with, and the importer would accept the choice  *)
(* on the state the build started from.  Linked says what the import       *)
(* checked of every block the node knows.  From the two follow, in every   *)
(* state, BuildIsGreedy, ImportsIffBuiltOnParent (a list of transactions   *)
(* moves every nonce by a fixed number, so it cannot lead two states to    *)
(* one) and ChainNonces (by induction along the chain of a block, and over *)
(* the transactions of each block on it).                                  *)
(***************************************************************************)
EXTENDS BlockProduction, IteratorsProofs, FiniteSetTheorems, TLAPS

(* Most steps are first-order reasoning, which Zenon does; those with      *)
(* arithmetic, records or sequences name SMT.                              *)
USE Zenon

(* A job that has not started to execute has used no gas.                  *)
FreshBuild ==
  \A id \in PayloadId :
    jobs[id] # None /\ jobs[id].stage # "executing" => jobs[id].build.used = 0

IInv == TypeOK /\ GasStaysInBlock /\ FreshBuild

-----------------------------------------------------------------------------
(* The iterators of the builder and the importer, one element at a time.   *)

(* What keeps the decodable transactions, as a function.                   *)
Decode ==
  [txs \in Seq(Txs) |-> [t \in Txs |->
     IF t.kind = "undecodable" THEN txs ELSE Append(txs, t)]]

(* Decoding one more transaction.                                          *)
LEMMA DecodedStep ==
  /\ Decoded(<<>>) = <<>>
  /\ \A v \in Seq(Txs) : Decoded(v) \in Seq(Txs)
  /\ \A v \in Seq(Txs), t \in Txs :
       Decoded(Append(v, t)) =
         IF t.kind = "undecodable" THEN Decoded(v) ELSE Append(Decoded(v), t)
<1>1. Decode \in [Seq(Txs) -> [Txs -> Seq(Txs)]]
  BY SMT DEF Decode
<1>2. \A v : Decoded(v) = Fold(v, <<>>, Decode)
  BY DEF Decoded, Decode
<1>3. <<>> \in Seq(Txs)
  BY SMT
<1>4. /\ Fold(<<>>, <<>>, Decode) = <<>>
      /\ \A v \in Seq(Txs) : Fold(v, <<>>, Decode) \in Seq(Txs)
      /\ \A v \in Seq(Txs), t \in Txs :
           Fold(Append(v, t), <<>>, Decode) = Decode[Fold(v, <<>>, Decode)][t]
  <2>1. FoldLaws(Seq(Txs), Txs, <<>>, Decode)
    BY <1>1, <1>3, FoldAppend
  <2>2. QED
    BY <2>1 DEF FoldLaws
<1>5. ASSUME NEW v \in Seq(Txs), NEW t \in Txs
      PROVE  Decode[v][t] = IF t.kind = "undecodable" THEN v ELSE Append(v, t)
  BY DEF Decode
<1>6. ASSUME NEW v \in Seq(Txs), NEW t \in Txs
      PROVE  Decoded(Append(v, t)) =
               IF t.kind = "undecodable" THEN Decoded(v) ELSE Append(Decoded(v), t)
  <2>1. /\ Decoded(v) \in Seq(Txs)
        /\ Decoded(Append(v, t)) = Decode[Decoded(v)][t]
    BY <1>2, <1>4
  <2>2. QED
    BY <1>5, <2>1
<1>7. Decoded(<<>>) = <<>> /\ \A v \in Seq(Txs) : Decoded(v) \in Seq(Txs)
  BY <1>2, <1>4
<1>8. QED
  BY <1>6, <1>7

(* What decodes of a request is a list of transactions that decode.        *)
LEMMA DecodedType ==
  ASSUME NEW r \in Batches
  PROVE  r \in Seq(Txs) /\ Decoded(r) \in Seq(Txs)
BY DecodedStep, InputAssumption

Decodable == {t \in Txs : t.kind # "undecodable"}

(* What try_build hands to the builder has no undecodable transaction      *)
(* left.                                                                   *)
LEMMA DecodedKinds ==
  \A v \in Seq(Txs) : Decoded(v) \in Seq(Decodable)
<1> DEFINE B == {v \in Seq(Txs) : Decoded(v) \in Seq(Decodable)}
<1>1. <<>> \in B
  <2>1. <<>> \in Seq(Txs) /\ <<>> \in Seq(Decodable)
    BY SMT
  <2>2. Decoded(<<>>) = <<>>
    BY DecodedStep
  <2>3. QED
    BY <2>1, <2>2
<1>2. ASSUME NEW v \in Seq(Txs), NEW t \in Txs, v \in B PROVE Append(v, t) \in B
  <2>1. Append(v, t) \in Seq(Txs) /\ Decoded(v) \in Seq(Decodable)
    BY <1>2, SMT
  <2>2. CASE t.kind = "undecodable"
    BY <2>1, <2>2, DecodedStep
  <2>3. CASE t.kind # "undecodable"
    <3>1. t \in Decodable
      BY <2>3 DEF Decodable
    <3>2. Append(Decoded(v), t) \in Seq(Decodable)
      BY <2>1, <3>1, SMT
    <3>3. QED
      BY <2>1, <2>3, <3>2, DecodedStep
  <2>4. QED
    BY <2>2, <2>3
<1> HIDE DEF B
<1>3. \A v \in Seq(Txs) : v \in B
  BY <1>1, <1>2, SeqInductive
<1>4. QED
  BY <1>3 DEF B

(* A transaction is made of numbers, and its sender is an account.         *)
LEMMA TxFields ==
  ASSUME NEW t \in Txs
  PROVE  /\ t.kind \in {"ok", "undecodable", "unrecoverable"} /\ t.sender \in Account
         /\ t.nonce \in Nat /\ t.gas_limit \in Nat /\ t.used \in Nat
BY InputAssumption DEF Transaction

(* The greedy choice among transactions, as a function.                    *)
Choice == [state : Nonces, used : Nat, txs : Seq(Txs)]

Chosen(r, t) ==
  [state |-> [r.state EXCEPT ![t.sender] = @ + 1], used |-> r.used + t.used,
   txs |-> Append(r.txs, t)]

Choose1(limit) ==
  [r \in Choice |-> [t \in Txs |->
     IF t.kind = "ok" /\ t.gas_limit + r.used <= limit /\ t.nonce = r.state[t.sender]
     THEN Chosen(r, t) ELSE r]]

(* One more transaction is chosen or not.                                  *)
LEMMA GreedyStep ==
  ASSUME NEW base \in Nonces, NEW limit \in Nat
  PROVE  /\ Greedy(base, limit, <<>>) = [state |-> base, used |-> 0, txs |-> <<>>]
         /\ \A v \in Seq(Txs) : Greedy(base, limit, v) \in Choice
         /\ \A v \in Seq(Txs), t \in Txs :
              Greedy(base, limit, Append(v, t)) = Choose1(limit)[Greedy(base, limit, v)][t]
<1> DEFINE init == [state |-> base, used |-> 0, txs |-> <<>>]
           step == Choose1(limit)
<1>1. ASSUME NEW r \in Choice, NEW t \in Txs
      PROVE  Chosen(r, t) \in Choice
  <2>1. r.state \in Nonces /\ r.used \in Nat /\ r.txs \in Seq(Txs)
    BY DEF Choice
  <2>2. t.sender \in Account /\ t.used \in Nat
    BY TxFields
  <2>3. [r.state EXCEPT ![t.sender] = @ + 1] \in Nonces
    BY <2>1, <2>2, SMT DEF Nonces
  <2>4. r.used + t.used \in Nat /\ Append(r.txs, t) \in Seq(Txs)
    BY <2>1, <2>2, SMT
  <2>5. QED
    BY <2>3, <2>4 DEF Chosen, Choice
<1>2. step \in [Choice -> [Txs -> Choice]]
  BY <1>1 DEF Choose1
<1>3. init \in Choice
  BY SMT DEF Choice
<1>4. \A v : Greedy(base, limit, v) = Fold(v, init, step)
  BY DEF Greedy, Choose1, Choice, Chosen
<1> HIDE DEF init, step
<1>5. /\ Fold(<<>>, init, step) = init
      /\ \A v \in Seq(Txs) : Fold(v, init, step) \in Choice
      /\ \A v \in Seq(Txs), t \in Txs :
           Fold(Append(v, t), init, step) = step[Fold(v, init, step)][t]
  <2>1. FoldLaws(Choice, Txs, init, step)
    BY <1>2, <1>3, FoldAppend
  <2>2. QED
    BY <2>1 DEF FoldLaws
<1>6. QED
  BY <1>4, <1>5, SMT DEF init, step

(* What does not decode makes no difference to the choice.                 *)
LEMMA GreedyDecoded ==
  ASSUME NEW base \in Nonces, NEW limit \in Nat
  PROVE  \A v \in Seq(Txs) : Greedy(base, limit, Decoded(v)) = Greedy(base, limit, v)
<1> DEFINE B == {v \in Seq(Txs) : Greedy(base, limit, Decoded(v)) = Greedy(base, limit, v)}
<1>1. <<>> \in B
  BY DecodedStep, SMT
<1>2. ASSUME NEW v \in Seq(Txs), NEW t \in Txs, v \in B PROVE Append(v, t) \in B
  <2> DEFINE g == Greedy(base, limit, v)
  <2>1. /\ Append(v, t) \in Seq(Txs) /\ Greedy(base, limit, Decoded(v)) = g
        /\ Decoded(v) \in Seq(Txs)
    BY <1>2, DecodedStep, SMT
  <2>2. g \in Choice /\ Greedy(base, limit, Append(v, t)) = Choose1(limit)[g][t]
    BY GreedyStep
  <2>3. CASE t.kind = "undecodable"
    <3>1. Choose1(limit)[g][t] = g
      BY <2>2, <2>3 DEF Choose1
    <3>2. QED
      BY <2>1, <2>2, <2>3, <3>1, DecodedStep
  <2>4. CASE t.kind # "undecodable"
    <3>1. Decoded(Append(v, t)) = Append(Decoded(v), t)
      BY <2>4, DecodedStep
    <3>2. Greedy(base, limit, Append(Decoded(v), t)) = Choose1(limit)[g][t]
      BY <2>1, GreedyStep, SMT
    <3>3. QED
      BY <2>1, <2>2, <3>1, <3>2
  <2>5. QED
    BY <2>3, <2>4
<1> HIDE DEF B
<1>3. \A v \in Seq(Txs) : v \in B
  BY <1>1, <1>2, SeqInductive
<1>4. QED
  BY <1>3 DEF B

(* The execution of one transaction of a block, as a function.             *)
Execute1(limit) ==
  [r \in Outcome |-> [t \in Txs |->
     IF r.ok /\ Executable(t, r.state, limit, r.used)
     THEN [ok |-> TRUE, state |-> AfterCommit(t, r.state), used |-> r.used + t.used]
     ELSE [r EXCEPT !.ok = FALSE]]]

(* A transaction that executes adds one to the nonce of its sender.        *)
LEMMA CommitType ==
  ASSUME NEW t \in Txs, NEW state \in Nonces
  PROVE  /\ AfterCommit(t, state) \in Nonces
         /\ \A a \in Account :
              AfterCommit(t, state)[a] = IF a = t.sender THEN state[a] + 1 ELSE state[a]
BY TxFields, SMT DEF AfterCommit, Nonces

(* The import executes one more transaction.                               *)
LEMMA ReplayStep ==
  ASSUME NEW base \in Nonces, NEW limit \in Nat
  PROVE  /\ Replay(base, limit, <<>>) = [ok |-> TRUE, state |-> base, used |-> 0]
         /\ \A v \in Seq(Txs) : Replay(base, limit, v) \in Outcome
         /\ \A v \in Seq(Txs), t \in Txs :
              Replay(base, limit, Append(v, t)) = Execute1(limit)[Replay(base, limit, v)][t]
<1> DEFINE init == [ok |-> TRUE, state |-> base, used |-> 0]
           step == Execute1(limit)
<1>1. ASSUME NEW r \in Outcome, NEW t \in Txs
      PROVE  /\ [ok |-> TRUE, state |-> AfterCommit(t, r.state), used |-> r.used + t.used]
                  \in Outcome
             /\ [r EXCEPT !.ok = FALSE] \in Outcome
  <2>1. r.state \in Nonces /\ r.used \in Nat /\ t.used \in Nat
    BY TxFields DEF Outcome
  <2>2. AfterCommit(t, r.state) \in Nonces /\ r.used + t.used \in Nat
    BY <2>1, CommitType, SMT
  <2>3. QED
    BY <2>2 DEF Outcome
<1>2. step \in [Outcome -> [Txs -> Outcome]]
  BY <1>1 DEF Execute1
<1>3. init \in Outcome
  BY DEF Outcome
<1>4. \A v : Replay(base, limit, v) = Fold(v, init, step)
  BY DEF Replay, Execute1
<1> HIDE DEF init, step
<1>5. /\ Fold(<<>>, init, step) = init
      /\ \A v \in Seq(Txs) : Fold(v, init, step) \in Outcome
      /\ \A v \in Seq(Txs), t \in Txs :
           Fold(Append(v, t), init, step) = step[Fold(v, init, step)][t]
  <2>1. FoldLaws(Outcome, Txs, init, step)
    BY <1>2, <1>3, FoldAppend
  <2>2. QED
    BY <2>1 DEF FoldLaws
<1>6. QED
  BY <1>4, <1>5, ZenonT(30) DEF init, step

(* A list that executes has executed but for its last transaction, which   *)
(* had the nonce of its sender.                                            *)
LEMMA ReplayLast ==
  ASSUME NEW base \in Nonces, NEW limit \in Nat, NEW v \in Seq(Txs), NEW t \in Txs,
         Replay(base, limit, Append(v, t)).ok
  PROVE  /\ Replay(base, limit, v).ok
         /\ t.nonce = Replay(base, limit, v).state[t.sender]
         /\ Replay(base, limit, Append(v, t)).state
              = AfterCommit(t, Replay(base, limit, v).state)
<1> DEFINE r == Replay(base, limit, v)
<1>1. r \in Outcome /\ Replay(base, limit, Append(v, t)) = Execute1(limit)[r][t]
  BY ReplayStep
<1> HIDE DEF r
<1>2. Execute1(limit)[r][t] =
        IF r.ok /\ Executable(t, r.state, limit, r.used)
        THEN [ok |-> TRUE, state |-> AfterCommit(t, r.state), used |-> r.used + t.used]
        ELSE [r EXCEPT !.ok = FALSE]
  BY <1>1 DEF Execute1
<1>3. r.ok /\ Executable(t, r.state, limit, r.used)
  <2>1. [r EXCEPT !.ok = FALSE].ok = FALSE
    BY <1>1 DEF Outcome
  <2>2. QED
    BY <1>1, <1>2, <2>1
<1>4. QED
  BY <1>1, <1>2, <1>3, SMT DEF Executable, r

(* Two executions of a list move every nonce by the same number: from      *)
(* another state the list leads to another state.                          *)
LEMMA ReplayShift ==
  ASSUME NEW one \in Nonces, NEW other \in Nonces, NEW limit \in Nat
  PROVE  \A v \in Seq(Txs) :
           Replay(one, limit, v).ok /\ Replay(other, limit, v).ok =>
             \A a \in Account :
               Replay(one, limit, v).state[a] - one[a] = Replay(other, limit, v).state[a] - other[a]
<1> DEFINE R(s, v) == Replay(s, limit, v)
           B == {v \in Seq(Txs) : R(one, v).ok /\ R(other, v).ok =>
                   \A a \in Account : R(one, v).state[a] - one[a] = R(other, v).state[a] - other[a]}
<1>1. <<>> \in B
  <2>1. R(one, <<>>).state = one /\ R(other, <<>>).state = other /\ <<>> \in Seq(Txs)
    BY ReplayStep, SMT
  <2>2. ASSUME NEW a \in Account PROVE one[a] - one[a] = other[a] - other[a]
    BY SMT DEF Nonces
  <2> HIDE DEF R
  <2>3. QED
    BY <2>1, <2>2
<1>2. ASSUME NEW v \in Seq(Txs), NEW t \in Txs, v \in B PROVE Append(v, t) \in B
  <2>1. SUFFICES ASSUME R(one, Append(v, t)).ok, R(other, Append(v, t)).ok,
                        NEW a \in Account
                 PROVE  R(one, Append(v, t)).state[a] - one[a]
                          = R(other, Append(v, t)).state[a] - other[a]
    BY <1>2, SMT
  <2>2. /\ R(one, v).ok /\ R(one, Append(v, t)).state = AfterCommit(t, R(one, v).state)
        /\ R(other, v).ok /\ R(other, Append(v, t)).state = AfterCommit(t, R(other, v).state)
    BY <2>1, ReplayLast
  <2>3. R(one, v).state \in Nonces /\ R(other, v).state \in Nonces
    BY ReplayStep DEF Outcome
  <2> HIDE DEF R
  <2>4. R(one, v).state[a] - one[a] = R(other, v).state[a] - other[a]
    BY <1>2, <2>2
  <2>5. /\ R(one, v).state[a] \in Nat /\ R(other, v).state[a] \in Nat
        /\ one[a] \in Nat /\ other[a] \in Nat
    BY <2>3 DEF Nonces
  <2>6. CASE a = t.sender
    <3>1. /\ AfterCommit(t, R(one, v).state)[a] = R(one, v).state[a] + 1
          /\ AfterCommit(t, R(other, v).state)[a] = R(other, v).state[a] + 1
      BY <2>3, <2>6, CommitType
    <3>2. (R(one, v).state[a] + 1) - one[a] = (R(other, v).state[a] + 1) - other[a]
      <4> DEFINE x == R(one, v).state[a]
                 y == R(other, v).state[a]
                 p == one[a]
                 q == other[a]
      <4>1. x \in Nat /\ y \in Nat /\ p \in Nat /\ q \in Nat /\ x - p = y - q
        BY <2>4, <2>5
      <4> HIDE DEF x, y, p, q
      <4>2. (x + 1) - p = (y + 1) - q
        BY <4>1, SMT
      <4>3. QED
        BY <4>2 DEF x, y, p, q
    <3>3. QED
      BY <2>2, <3>1, <3>2
  <2>7. CASE a # t.sender
    <3>1. /\ AfterCommit(t, R(one, v).state)[a] = R(one, v).state[a]
          /\ AfterCommit(t, R(other, v).state)[a] = R(other, v).state[a]
      BY <2>3, <2>7, CommitType, SMT
    <3>2. QED
      BY <2>2, <2>4, <3>1
  <2>8. QED
    BY <2>6, <2>7
<1> HIDE DEF B
<1>3. \A v \in Seq(Txs) : v \in B
  BY <1>1, <1>2, SeqInductive
<1>4. QED
  BY <1>3 DEF B

-----------------------------------------------------------------------------
(* Replacing one job by a job, or by None, keeps what IInv says of jobs.   *)

JobOK(id, job) ==
  /\ job \in Job
  /\ job.stage = "executing" => job.build.used <= job.build.limit
  /\ job.stage # "executing" => job.build.used = 0

(* A step that replaces one job of a known parent by a sound one, or by    *)
(* none, and leaves the chain and the payload alone, keeps the invariant.  *)
LEMMA JobStep ==
  ASSUME IInv, NEW id \in PayloadId, NEW job,
         jobs' = [jobs EXCEPT ![id] = job],
         job = None \/ (JobOK(id, job) /\ id[1] \in DOMAIN blocks),
         cap' \in Nat, head' \in DOMAIN blocks,
         payload' \in Block \cup {None}, blocks' = blocks
  PROVE  IInv'
<1>1. jobs' \in [PayloadId -> Job \cup {None}]
  BY DEF IInv, TypeOK, JobOK
<1>2. \A i \in PayloadId : jobs'[i] = IF i = id THEN job ELSE jobs[i]
  BY DEF IInv, TypeOK
<1>3. \A i \in PayloadId : jobs'[i] # None => i[1] \in DOMAIN blocks'
  BY <1>2 DEF IInv, TypeOK
<1>4. TypeOK'
  BY <1>1, <1>3 DEF IInv, TypeOK
<1>5. GasStaysInBlock'
  BY <1>2 DEF IInv, GasStaysInBlock, Active, JobOK
<1>6. FreshBuild'
  BY <1>2 DEF IInv, FreshBuild, JobOK
<1> QED
  BY <1>4, <1>5, <1>6 DEF IInv

(* The fields of a job that exists.                                        *)
LEMMA JobFields ==
  ASSUME IInv, NEW id \in PayloadId, jobs[id] # None
  PROVE  /\ jobs[id] \in Job
         /\ JobOK(id, jobs[id])
         /\ id[1] \in DOMAIN blocks
         /\ Parent(id) \in Block
<1>1. jobs[id] \in Job /\ id[1] \in DOMAIN blocks
  BY DEF IInv, TypeOK
<1>2. Parent(id) \in Block
  BY <1>1, SMT DEF IInv, TypeOK, Parent
<1>3. JobOK(id, jobs[id])
  BY <1>1 DEF IInv, GasStaysInBlock, FreshBuild, Active, JobOK
<1> QED
  BY <1>1, <1>2, <1>3

(* An empty build has its type.                                            *)
LEMMA NoProgressType == NoProgress \in Progress /\ NoProgress.base \in Nonces
BY SMT DEF NoProgress, Progress, Nonces

-----------------------------------------------------------------------------
(* The genesis block starts a chain of blocks.                             *)
LEMMA InitIInv == Init => IInv
<1> SUFFICES ASSUME Init PROVE IInv
  OBVIOUS
<1>1. GenesisBlock \in Block
  BY NumberAssumption, SMT DEF GenesisBlock, Block, Nonces
<1>2. TypeOK
  BY <1>1, NumberAssumption, SMT DEF Init, TypeOK
<1>3. GasStaysInBlock /\ FreshBuild
  BY DEF Init, GasStaysInBlock, FreshBuild, Active
<1> QED
  BY <1>2, <1>3 DEF IInv

(* forkchoiceUpdated with attributes opens a job that has done nothing.    *)
LEMMA RequestStep ==
  ASSUME IInv, NEW b \in DOMAIN blocks, NEW ts \in Timestamps,
         NEW r \in Batches, NEW g \in GasLimits \cup {None},
         RequestPayload(<<b, ts>>, r, g)
  PROVE  IInv'
<1> DEFINE id == <<b, ts>>
<1> DEFINE job == [request |-> r, gas_limit |-> g, stage |-> "waiting",
                   build |-> NoProgress, best |-> None,
                   best_base |-> NoProgress.base]
<1>1. id \in PayloadId /\ id[1] = b
  BY NumberAssumption, SMT DEF PayloadId, IInv, TypeOK
<1>2. job \in Job
  BY NoProgressType DEF Job
<1>3. JobOK(id, job)
  BY <1>2 DEF JobOK, NoProgress
<1>4. CASE jobs' = [jobs EXCEPT ![id] = job]
  BY <1>1, <1>3, <1>4, JobStep DEF RequestPayload, IInv, TypeOK
<1>5. CASE UNCHANGED jobs
  BY <1>1, <1>5 DEF RequestPayload, IInv, TypeOK, GasStaysInBlock, FreshBuild, Active
<1> QED
  BY <1>4, <1>5 DEF RequestPayload

(* try_build: the published limit is a number.                             *)
LEMMA PublishStep ==
  ASSUME IInv, NEW id \in PayloadId, PublishGasLimit(id)
  PROVE  IInv'
<1> DEFINE old == jobs[id]
<1> DEFINE build == [old.build EXCEPT !.limit = EffectiveGasLimit(id),
                                      !.todo = Decoded(old.request)]
<1> DEFINE job == [old EXCEPT !.stage = "published", !.build = build]
<1>1. old # None /\ old.stage = "waiting"
  BY DEF PublishGasLimit, Active
<1>2. /\ old \in Job /\ JobOK(id, old) /\ id[1] \in DOMAIN blocks
      /\ Parent(id) \in Block
  BY <1>1, JobFields
<1>3. EffectiveGasLimit(id) \in Nat
  BY <1>2, InputAssumption DEF EffectiveGasLimit, Job, Block
<1>4. Decoded(old.request) \in Seq(Txs)
  BY <1>2, DecodedType, InputAssumption DEF Job
<1>5. build \in Progress /\ build.used = old.build.used
  BY <1>2, <1>3, <1>4 DEF Job, Progress
<1>6. job \in Job /\ job.stage = "published" /\ job.build = build
  BY <1>2, <1>5 DEF Job
<1>7. JobOK(id, job)
  BY <1>1, <1>2, <1>5, <1>6 DEF JobOK
<1>8. jobs' = [jobs EXCEPT ![id] = job]
  BY <1>2 DEF PublishGasLimit, Job, Progress, IInv, TypeOK
<1> QED
  BY <1>2, <1>3, <1>7, <1>8, JobStep DEF PublishGasLimit, IInv, TypeOK

(* A failed build leaves a job that has done nothing.                      *)
LEMMA FailStep ==
  ASSUME IInv, NEW id \in PayloadId, jobs[id] # None, Fail(id),
         UNCHANGED <<blocks, head, cap, payload>>
  PROVE  IInv'
<1> DEFINE job == [jobs[id] EXCEPT !.stage = "idle", !.build = NoProgress]
<1>1. jobs[id] \in Job /\ id[1] \in DOMAIN blocks
  BY JobFields
<1>2. job \in Job /\ job.stage = "idle" /\ job.build = NoProgress
  BY <1>1, NoProgressType DEF Job
<1>3. JobOK(id, job)
  BY <1>2, SMT DEF JobOK, NoProgress
<1>4. jobs' = [jobs EXCEPT ![id] = job]
  BY <1>1 DEF Fail, IInv, TypeOK, Job
<1> QED
  BY <1>1, <1>3, <1>4, JobStep DEF IInv, TypeOK

(* A job in which only the stage and the build change is a job.            *)
LEMMA JobUpdate ==
  ASSUME NEW old \in Job, NEW stage \in {"waiting", "published", "opened", "executing", "idle"},
         NEW build \in Progress
  PROVE  /\ [old EXCEPT !.stage = stage, !.build = build] \in Job
         /\ [old EXCEPT !.stage = stage, !.build = build].stage = stage
         /\ [old EXCEPT !.stage = stage, !.build = build].build = build
BY DEF Job

(* What a build has after it opened a state.                               *)
LEMMA OpenedBuild ==
  ASSUME NEW b \in Progress, NEW st \in Nonces
  PROVE  /\ [b EXCEPT !.base = st, !.state = st] \in Progress
         /\ [b EXCEPT !.base = st, !.state = st].used = b.used
         /\ [b EXCEPT !.base = st, !.state = st].limit = b.limit
BY DEF Progress

(* build_payload opens the latest state: nothing is used yet.              *)
LEMMA OpenStep ==
  ASSUME IInv, NEW id \in PayloadId, OpenLatest(id)
  PROVE  IInv'
<1> DEFINE old == jobs[id]
<1> DEFINE st == blocks[head].state
<1> DEFINE build == [old.build EXCEPT !.base = st, !.state = st]
<1> DEFINE job == [old EXCEPT !.stage = "opened", !.build = build]
<1>1. old # None /\ old.stage = "published"
  BY DEF OpenLatest, Active
<1>2. old \in Job /\ JobOK(id, old) /\ id[1] \in DOMAIN blocks
  BY <1>1, JobFields
<1>3. CASE old.build.limit = 0
  BY <1>1, <1>3, FailStep DEF OpenLatest
<1>4. CASE old.build.limit # 0
  <2>1. st \in Nonces
    <3>1. blocks[head] \in Block
      BY SMT DEF IInv, TypeOK
    <3> QED
      BY <3>1 DEF Block
  <2>2. old.build \in Progress /\ old.build.used = 0 /\ old.build.limit \in Nat
    BY <1>1, <1>2 DEF JobOK, Job, Progress
  <2>3. jobs' = [jobs EXCEPT ![id] = job]
    <3>1. jobs' = [jobs EXCEPT ![id].stage = "opened", ![id].build = build]
      BY <1>4 DEF OpenLatest
    <3> HIDE DEF build
    <3> QED
      BY <1>2, <3>1 DEF IInv, TypeOK, Job
  <2> HIDE DEF st, old
  <2>4. build \in Progress /\ build.used = 0 /\ build.limit \in Nat
    BY <2>1, <2>2, OpenedBuild
  <2> HIDE DEF build
  <2>5. job \in Job /\ job.stage = "opened" /\ job.build = build
    BY <1>2, <2>4, JobUpdate
  <2> HIDE DEF job
  <2>6. JobOK(id, job)
    BY <2>4, <2>5 DEF JobOK
  <2> QED
    BY <1>2, <2>3, <2>6, JobStep DEF OpenLatest, IInv, TypeOK
<1> QED
  BY <1>3, <1>4

(* The parent's header is found, or not: nothing is used yet.              *)
LEMMA FindParentStep ==
  ASSUME IInv, NEW id \in PayloadId, FindParent(id)
  PROVE  IInv'
<1> DEFINE job == [jobs[id] EXCEPT !.stage = "executing"]
<1>1. jobs[id] # None /\ jobs[id].stage = "opened"
  BY DEF FindParent, Active
<1>2. jobs[id] \in Job /\ JobOK(id, jobs[id]) /\ id[1] \in DOMAIN blocks
  BY <1>1, JobFields
<1>3. CASE Fail(id)
  BY <1>1, <1>3, FailStep DEF FindParent
<1>4. CASE jobs' = [jobs EXCEPT ![id].stage = "executing"]
  <2>1. job \in Job /\ job.stage = "executing" /\ job.build = jobs[id].build
    BY <1>2 DEF Job
  <2>2. jobs[id].build.used = 0 /\ jobs[id].build.limit \in Nat
    BY <1>1, <1>2 DEF JobOK, Job, Progress
  <2>3. JobOK(id, job)
    BY <2>1, <2>2, SMT DEF JobOK
  <2>4. jobs' = [jobs EXCEPT ![id] = job]
    BY <1>2, <1>4 DEF IInv, TypeOK, Job
  <2> QED
    BY <1>2, <2>3, <2>4, JobStep DEF FindParent, IInv, TypeOK
<1> QED
  BY <1>3, <1>4 DEF FindParent

(* A transaction that is included leaves the gas used within the limit:    *)
(* what it uses fits its gas limit, and that fits what the block has left. *)
LEMMA IncludeBuild ==
  ASSUME NEW b \in Progress, b.todo # <<>>, b.used <= b.limit,
         Executable(Head(b.todo), b.state, b.limit, b.used)
  PROVE  Include(b) \in Progress /\ Include(b).used <= Include(b).limit
<1> DEFINE t == Head(b.todo)
<1>1. b.todo \in Seq(Txs) /\ b.txs \in Seq(Txs) /\ b.state \in Nonces
  BY DEF Progress
<1>2. t \in Txs /\ Tail(b.todo) \in Seq(Txs)
  BY <1>1, SMT
<1>3. t.used \in Nat /\ t.gas_limit \in Nat /\ t.used <= t.gas_limit /\ t.sender \in Account
  BY <1>2, InputAssumption DEF Transaction
<1>4. t.gas_limit <= b.limit - b.used
  BY DEF Executable, Available
<1> HIDE DEF t
<1>5. b.used + t.used \in Nat /\ b.used + t.used <= b.limit
  BY <1>3, <1>4, SMT DEF Progress
<1>6. AfterCommit(t, b.state) \in Nonces
  BY <1>1, <1>3, SMT DEF AfterCommit, Nonces
<1>7. Append(b.txs, t) \in Seq(Txs)
  BY <1>1, <1>2, SMT
<1>8. /\ Include(b) \in Progress /\ Include(b).used = b.used + t.used
      /\ Include(b).limit = b.limit
  <2> DEFINE w == Tail(b.todo)
             x == AfterCommit(t, b.state)
             y == b.used + t.used
             z == Append(b.txs, t)
  <2>1. Include(b) = [b EXCEPT !.todo = w, !.state = x, !.used = y, !.txs = z]
    BY DEF Include, t
  <2>2. w \in Seq(Txs) /\ x \in Nonces /\ y \in Nat /\ z \in Seq(Txs)
    BY <1>2, <1>5, <1>6, <1>7
  <2> HIDE DEF w, x, y, z
  <2>3. LET c == [b EXCEPT !.todo = w, !.state = x, !.used = y, !.txs = z]
        IN  c \in Progress /\ c.used = y /\ c.limit = b.limit
    BY <2>2 DEF Progress
  <2> QED
    BY <2>1, <2>3 DEF y
<1> QED
  BY <1>5, <1>8

(* A skipped transaction leaves the gas used as it was.                    *)
LEMMA SkipBuild ==
  ASSUME NEW b \in Progress, b.todo # <<>>, b.used <= b.limit
  PROVE  Skip(b) \in Progress /\ Skip(b).used <= Skip(b).limit
<1>1. Tail(b.todo) \in Seq(Txs)
  BY SMT DEF Progress
<1> QED
  BY <1>1 DEF Skip, Progress

(* The loop of build_payload keeps the gas used within the limit.          *)
LEMMA ExecuteStep ==
  ASSUME IInv, NEW id \in PayloadId, ExecuteNext(id)
  PROVE  IInv'
<1> DEFINE old == jobs[id]
<1> DEFINE b == old.build
<1> DEFINE t == Head(b.todo)
<1> DEFINE next == IF Executable(t, b.state, b.limit, b.used) THEN Include(b) ELSE Skip(b)
<1> DEFINE job == [old EXCEPT !.stage = "executing", !.build = next]
<1>1. old # None /\ old.stage = "executing" /\ b.todo # <<>>
  BY DEF ExecuteNext, Active
<1>2. old \in Job /\ JobOK(id, old) /\ id[1] \in DOMAIN blocks
  BY <1>1, JobFields
<1>3. b \in Progress /\ b.used <= b.limit
  BY <1>1, <1>2 DEF Job, JobOK
<1>4. CASE t.kind = "unrecoverable"
  BY <1>1, <1>4, FailStep DEF ExecuteNext
<1>5. CASE t.kind # "unrecoverable"
  <2>1. jobs' = [jobs EXCEPT ![id].build = next]
    BY <1>5 DEF ExecuteNext
  <2>2. next \in Progress /\ next.used <= next.limit
    BY <1>1, <1>3, IncludeBuild, SkipBuild
  <2> HIDE DEF next
  <2>3. jobs' = [jobs EXCEPT ![id] = job]
    <3>1. [old EXCEPT !.build = next] = job
      BY <1>1, <1>2 DEF Job
    <3> QED
      BY <2>1, <3>1 DEF IInv, TypeOK
  <2>4. job \in Job /\ job.stage = "executing" /\ job.build = next
    BY <1>2, <2>2, JobUpdate
  <2> HIDE DEF job, old
  <2>5. JobOK(id, job)
    BY <2>2, <2>4 DEF JobOK
  <2> QED
    BY <1>2, <2>3, <2>5, JobStep DEF ExecuteNext, IInv, TypeOK
<1> QED
  BY <1>4, <1>5

(* The sealed block is a block.                                            *)
LEMMA FinishStep ==
  ASSUME IInv, NEW id \in PayloadId, Finish(id)
  PROVE  IInv'
<1> DEFINE old == jobs[id]
<1> DEFINE job == [old EXCEPT !.stage = "idle", !.build = NoProgress,
                              !.best = Sealed(id), !.best_base = old.build.base]
<1>1. old # None
  BY DEF Finish, Active
<1>2. old \in Job /\ id[1] \in DOMAIN blocks /\ Parent(id) \in Block
  BY <1>1, JobFields
<1>3. old.build \in Progress
  BY <1>2 DEF Job
<1>4. id[1] \in 0 .. MaxBlocks /\ id[2] \in Nat
  <2>1. MaxBlocks \in Nat
    BY NumberAssumption
  <2>2. PICK i \in 1 .. MaxBlocks, ts \in Timestamps : id = <<i, ts>>
    BY SMT DEF PayloadId
  <2>3. ts \in Nat
    BY InputAssumption
  <2> QED
    BY <2>1, <2>2, <2>3, SMT
<1>5. Sealed(id) \in Block
  <2>1. Parent(id).number + 1 \in Nat
    BY <1>2, SMT DEF Block
  <2> QED
    BY <1>3, <1>4, <2>1 DEF Sealed, Block, Progress
<1>6. job \in Job /\ job.stage = "idle" /\ job.build = NoProgress
  BY <1>2, <1>3, <1>5, NoProgressType DEF Job, Progress
<1>7. JobOK(id, job)
  BY <1>6, SMT DEF JobOK, NoProgress
<1>8. jobs' = [jobs EXCEPT ![id] = job]
  BY <1>2 DEF Finish, IInv, TypeOK, Job
<1>9. /\ cap' \in Nat /\ head' \in DOMAIN blocks /\ blocks' = blocks
      /\ payload' \in Block \cup {None}
  BY DEF Finish, IInv, TypeOK
<1> HIDE DEF job
<1> QED
  BY <1>2, <1>7, <1>8, <1>9, JobStep

(* The tick of the interval, the deadline, and getPayload.                 *)
LEMMA OtherJobSteps ==
  ASSUME IInv, NEW id \in PayloadId, Rebuild(id) \/ Expire(id) \/ GetPayload(id)
  PROVE  IInv'
<1>1. CASE Rebuild(id)
  <2> DEFINE job == [jobs[id] EXCEPT !.stage = "waiting"]
  <2>1. jobs[id] # None /\ jobs[id].stage = "idle"
    BY <1>1 DEF Rebuild, Active
  <2>2. jobs[id] \in Job /\ JobOK(id, jobs[id]) /\ id[1] \in DOMAIN blocks
    BY <2>1, JobFields
  <2>3. JobOK(id, job)
    BY <2>1, <2>2 DEF JobOK, Job
  <2>4. jobs' = [jobs EXCEPT ![id] = job]
    BY <1>1, <2>2 DEF Rebuild, IInv, TypeOK, Job
  <2> QED
    BY <1>1, <2>2, <2>3, <2>4, JobStep DEF Rebuild, IInv, TypeOK
<1>2. CASE Expire(id)
  BY <1>2, JobStep DEF Expire, IInv, TypeOK
<1>3. CASE GetPayload(id)
  <2>1. payload' \in Block \cup {None}
    BY <1>3, JobFields DEF GetPayload, IInv, TypeOK, Job
  <2> QED
    BY <1>3, <2>1, JobStep DEF GetPayload, IInv, TypeOK
<1> QED
  BY <1>1, <1>2, <1>3

(* newPayload: parents of jobs stay known when a block is added.           *)
LEMMA NewPayloadStep ==
  ASSUME IInv, NewPayload
  PROVE  IInv'
<1>1. payload \in Block
  BY DEF NewPayload, IInv, TypeOK
<1>2. /\ blocks' \in Seq(Block) /\ Len(blocks') = Len(blocks) + 1
      /\ DOMAIN blocks \subseteq DOMAIN blocks'
  BY <1>1, SMT DEF NewPayload, IInv, TypeOK
<1>3. Len(blocks') \in 1 .. MaxBlocks
  BY <1>2, NumberAssumption, SMT DEF NewPayload, IInv, TypeOK
<1>4. TypeOK'
  BY <1>2, <1>3 DEF NewPayload, IInv, TypeOK
<1> QED
  BY <1>4 DEF NewPayload, IInv, GasStaysInBlock, FreshBuild, Active

(* Every step keeps the invariant.                                         *)
LEMMA NextIInv == IInv /\ [Next]_vars => IInv'
<1> SUFFICES ASSUME IInv, [Next]_vars PROVE IInv'
  OBVIOUS
<1>1. ASSUME NEW b \in DOMAIN blocks, SetHead(b) PROVE IInv'
  BY <1>1 DEF SetHead, IInv, TypeOK, GasStaysInBlock, FreshBuild, Active
<1>2. ASSUME NEW h \in DOMAIN blocks, Restart(h) PROVE IInv'
  BY <1>2, NumberAssumption
     DEF Restart, IInv, TypeOK, GasStaysInBlock, FreshBuild, Active
<1>3. CASE UNCHANGED vars
  BY <1>3 DEF vars, IInv, TypeOK, GasStaysInBlock, FreshBuild, Active
<1> QED
  BY <1>1, <1>2, <1>3, RequestStep, PublishStep, OpenStep, FindParentStep, ExecuteStep, FinishStep,
     OtherJobSteps, NewPayloadStep DEF Next

(* The inductive invariant of block production holds of every behaviour of *)
(* the payload service, the builder and the importer.                      *)
THEOREM Invariance == Spec => []IInv
BY InitIInv, NextIInv, PTL DEF Spec

(* Every variable of block production keeps its type: in particular every  *)
(* job names a parent the node knows, and what is fetched is a block.      *)
THEOREM TypeCorrect == Spec => []TypeOK
<1>1. IInv => TypeOK
  BY DEF IInv
<1> QED
  BY <1>1, Invariance, PTL

(* The subtraction of the gas used from the gas limit of the block, in     *)
(* execute_transaction_without_commit, never underflows.                   *)
THEOREM GasNeverUnderflows == Spec => []GasStaysInBlock
<1>1. IInv => GasStaysInBlock
  BY DEF IInv
<1> QED
  BY <1>1, Invariance, PTL

-----------------------------------------------------------------------------
(* What the builds and the blocks of the node are.                         *)

(* A build in progress: of what decodes of the request, the transactions   *)
(* before todo are dealt with; the block so far is the greedy choice among *)
(* them, and would be imported on the state the build started from.        *)
Reached(request, b) ==
  /\ \E done \in Seq(Txs) :
       /\ Decoded(request) = done \o b.todo
       /\ Greedy(b.base, b.limit, done) = [state |-> b.state, used |-> b.used, txs |-> b.txs]
  /\ Replay(b.base, b.limit, b.txs) = [ok |-> TRUE, state |-> b.state, used |-> b.used]

(* A finished build, under the id it was asked for, on a parent with this  *)
(* number.                                                                 *)
Complete(id, number, job) ==
  LET best == job.best
  IN  /\ Greedy(job.best_base, best.gas_limit, job.request)
           = [state |-> best.state, used |-> best.gas_used, txs |-> best.txs]
      /\ Replay(job.best_base, best.gas_limit, best.txs)
           = [ok |-> TRUE, state |-> best.state, used |-> best.gas_used]
      /\ best.gas_used <= best.gas_limit
      /\ best.parent = id[1] /\ best.number = number + 1 /\ best.timestamp = id[2]

Sound(id, number, job) ==
  /\ job.stage \in {"waiting", "idle"} => job.build = NoProgress
  /\ job.stage = "published" =>
       job.build.used = 0 /\ job.build.txs = <<>> /\ job.build.todo = Decoded(job.request)
  /\ job.stage \in {"opened", "executing"} => Reached(job.request, job.build)
  /\ job.best # None => Complete(id, number, job)

(* Earlier and failed builds leave no trace in a job, and what it offers   *)
(* is a finished build.                                                    *)
SoundJobs ==
  \A id \in PayloadId : jobs[id] # None => Sound(id, Parent(id).number, jobs[id])

(* A block starts a chain or executes on the state of a block before it.   *)
Extends(b) ==
  \/ b.number = 0 /\ b.txs = <<>> /\ b.state = [a \in Account |-> 0]
  \/ /\ b.parent \in DOMAIN blocks /\ b.number = blocks[b.parent].number + 1
     /\ Replay(blocks[b.parent].state, b.gas_limit, b.txs).ok
     /\ Replay(blocks[b.parent].state, b.gas_limit, b.txs).state = b.state

Linked ==
  /\ \A i \in DOMAIN blocks : Extends(blocks[i])
  /\ payload # None => payload.parent \in DOMAIN blocks

ChainInv == IInv /\ SoundJobs /\ Linked

(* The fields of a build.                                                  *)
LEMMA BuildFields ==
  ASSUME NEW b \in Progress
  PROVE  /\ b.limit \in Nat /\ b.used \in Nat /\ b.base \in Nonces /\ b.state \in Nonces
         /\ b.todo \in Seq(Txs) /\ b.txs \in Seq(Txs)
BY DEF Progress

(* A build that has opened a state and executed nothing.                   *)
LEMMA ReachedFirst ==
  ASSUME NEW request \in Batches, NEW b \in Progress,
         b.used = 0, b.txs = <<>>, b.todo = Decoded(request), b.state = b.base
  PROVE  Reached(request, b)
<1>1. <<>> \in Seq(Txs) /\ Decoded(request) \in Seq(Txs)
  BY DecodedType, SMT
<1>2. Decoded(request) = <<>> \o b.todo
  BY <1>1, SMT
<1>3. b.base \in Nonces /\ b.limit \in Nat
  BY BuildFields
<1>4. /\ Greedy(b.base, b.limit, <<>>) = [state |-> b.state, used |-> b.used, txs |-> b.txs]
      /\ Replay(b.base, b.limit, b.txs) = [ok |-> TRUE, state |-> b.state, used |-> b.used]
  BY <1>3, GreedyStep, ReplayStep, ZenonT(30)
<1>5. QED
  BY <1>1, <1>2, <1>4 DEF Reached

(* Of the transactions that are left the first one is decodable, and is    *)
(* done with next.                                                         *)
LEMMA NextOfRequest ==
  ASSUME NEW request \in Batches, NEW done \in Seq(Txs), NEW todo \in Seq(Txs), todo # <<>>,
         Decoded(request) = done \o todo
  PROVE  /\ Head(todo) \in Txs /\ Head(todo).kind # "undecodable"
         /\ Append(done, Head(todo)) \in Seq(Txs)
         /\ Decoded(request) = Append(done, Head(todo)) \o Tail(todo)
<1>1. Head(todo) \in Txs /\ Tail(todo) \in Seq(Txs)
  BY SMT
<1>2. Append(done, Head(todo)) \in Seq(Txs)
  BY <1>1, SMT
<1>3. Append(done, Head(todo)) \o Tail(todo) = done \o todo
  BY SMT
<1>4. Head(todo).kind # "undecodable"
  <2>1. Decoded(request) \in Seq(Decodable)
    BY DecodedType, DecodedKinds
  <2>2. /\ Len(done) + 1 \in 1 .. Len(done \o todo)
        /\ (done \o todo)[Len(done) + 1] = Head(todo)
    BY SMT
  <2>3. Head(todo) \in Decodable
    BY <2>1, <2>2, SMT
  <2>4. QED
    BY <2>3 DEF Decodable
<1>5. QED
  BY <1>1, <1>2, <1>3, <1>4

(* A skipped transaction is not chosen.                                    *)
LEMMA ReachedSkip ==
  ASSUME NEW request \in Batches, NEW b \in Progress, b.todo # <<>>, Reached(request, b),
         ~Executable(Head(b.todo), b.state, b.limit, b.used)
  PROVE  Reached(request, Skip(b))
<1> DEFINE t == Head(b.todo)
           g == [state |-> b.state, used |-> b.used, txs |-> b.txs]
<1>1. PICK done \in Seq(Txs) :
        Decoded(request) = done \o b.todo /\ Greedy(b.base, b.limit, done) = g
  BY DEF Reached
<1>2. /\ b.limit \in Nat /\ b.used \in Nat /\ b.base \in Nonces /\ b.state \in Nonces
      /\ b.todo \in Seq(Txs)
  BY BuildFields
<1>3. /\ t \in Txs /\ Append(done, t) \in Seq(Txs)
      /\ Decoded(request) = Append(done, t) \o Tail(b.todo)
  BY <1>1, <1>2, NextOfRequest
<1>4. ~(t.gas_limit + b.used <= b.limit /\ t.nonce = b.state[t.sender])
  <2>1. t.gas_limit \in Nat
    BY <1>3, TxFields
  <2>2. t.gas_limit + b.used <= b.limit <=> t.gas_limit <= b.limit - b.used
    BY <1>2, <2>1, SMT
  <2>3. QED
    BY <2>2 DEF Executable, Available
<1>5. g \in Choice
  BY <1>1, <1>2, GreedyStep
<1> HIDE DEF t
<1>6. Choose1(b.limit)[g][t] = g
  BY <1>3, <1>4, <1>5 DEF Choose1
<1>7. Greedy(b.base, b.limit, Append(done, t)) = g
  BY <1>1, <1>2, <1>3, <1>6, GreedyStep, SMT
<1>8. /\ Skip(b).todo = Tail(b.todo) /\ Skip(b).base = b.base /\ Skip(b).limit = b.limit
      /\ Skip(b).state = b.state /\ Skip(b).used = b.used /\ Skip(b).txs = b.txs
  BY DEF Skip, Progress
<1>9. Replay(b.base, b.limit, b.txs) = [ok |-> TRUE, state |-> b.state, used |-> b.used]
  BY DEF Reached
<1>10. QED
  BY <1>3, <1>7, <1>8, <1>9 DEF Reached

(* An included transaction is chosen, and the importer executes it too.    *)
LEMMA ReachedInclude ==
  ASSUME NEW request \in Batches, NEW b \in Progress, b.todo # <<>>, Reached(request, b),
         Executable(Head(b.todo), b.state, b.limit, b.used),
         Head(b.todo).kind # "unrecoverable"
  PROVE  Reached(request, Include(b))
<1> DEFINE t == Head(b.todo)
           g == [state |-> b.state, used |-> b.used, txs |-> b.txs]
           r == [ok |-> TRUE, state |-> b.state, used |-> b.used]
           u == [ok |-> TRUE, state |-> AfterCommit(t, b.state), used |-> b.used + t.used]
<1>1. PICK done \in Seq(Txs) :
        Decoded(request) = done \o b.todo /\ Greedy(b.base, b.limit, done) = g
  BY DEF Reached
<1>2. /\ b.limit \in Nat /\ b.used \in Nat /\ b.base \in Nonces /\ b.state \in Nonces
      /\ b.todo \in Seq(Txs) /\ b.txs \in Seq(Txs)
  BY BuildFields
<1>3. /\ t \in Txs /\ t.kind # "undecodable" /\ Append(done, t) \in Seq(Txs)
      /\ Decoded(request) = Append(done, t) \o Tail(b.todo)
  BY <1>1, <1>2, NextOfRequest
<1>4. t.kind = "ok" /\ t.gas_limit + b.used <= b.limit /\ t.nonce = b.state[t.sender]
  <2>1. t.gas_limit \in Nat /\ t.kind \in {"ok", "undecodable", "unrecoverable"}
    BY <1>3, TxFields
  <2>2. t.gas_limit + b.used <= b.limit <=> t.gas_limit <= b.limit - b.used
    BY <1>2, <2>1, SMT
  <2>3. QED
    BY <1>3, <2>1, <2>2 DEF Executable, Available
<1>5. g \in Choice
  BY <1>1, <1>2, GreedyStep, SMT
<1>6. Replay(b.base, b.limit, b.txs) = r /\ r \in Outcome
  BY <1>2, ReplayStep, SMT DEF Reached
<1>7. Executable(t, b.state, b.limit, b.used)
  OBVIOUS
<1> HIDE DEF t
<1>8. Choose1(b.limit)[g][t] = Chosen(g, t)
  BY <1>3, <1>4, <1>5 DEF Choose1
<1>9. Chosen(g, t) =
        [state |-> AfterCommit(t, b.state), used |-> b.used + t.used, txs |-> Append(b.txs, t)]
  BY DEF Chosen, AfterCommit
<1>10. Greedy(b.base, b.limit, Append(done, t)) = Chosen(g, t)
  BY <1>1, <1>2, <1>3, <1>8, GreedyStep, SMT
<1>11. Execute1(b.limit)[r][t] = u
  BY <1>3, <1>6, <1>7 DEF Execute1
<1>12. Replay(b.base, b.limit, Append(b.txs, t)) = u
  BY <1>2, <1>3, <1>6, <1>11, ReplayStep, SMT
<1>13. /\ Include(b).todo = Tail(b.todo) /\ Include(b).base = b.base
       /\ Include(b).limit = b.limit /\ Include(b).state = AfterCommit(t, b.state)
       /\ Include(b).used = b.used + t.used /\ Include(b).txs = Append(b.txs, t)
  BY DEF Include, Progress, t
<1>14. QED
  BY <1>3, <1>9, <1>10, <1>12, <1>13 DEF Reached

-----------------------------------------------------------------------------
(* The steps of the jobs keep them sound.                                  *)

Stages == {"waiting", "published", "opened", "executing", "idle"}

(* A step that replaces one job by a sound one, or by none.                *)
LEMMA SoundStep ==
  ASSUME IInv, SoundJobs, NEW id \in PayloadId, NEW job,
         jobs' = [jobs EXCEPT ![id] = job],
         job = None \/ Sound(id, Parent(id).number, job), blocks' = blocks
  PROVE  SoundJobs'
<1>1. ASSUME NEW i \in PayloadId, jobs'[i] # None
      PROVE  Sound(i, Parent(i)'.number, jobs'[i])
  <2>1. Parent(i)' = Parent(i)
    BY DEF Parent
  <2>2. jobs'[i] = IF i = id THEN job ELSE jobs[i]
    BY DEF IInv, TypeOK
  <2>3. QED
    BY <1>1, <2>1, <2>2 DEF SoundJobs
<1>2. QED
  BY <1>1 DEF SoundJobs

(* A step of one build leaves what the job offers alone.                   *)
LEMMA BuildStep ==
  ASSUME IInv, SoundJobs, NEW id \in PayloadId, jobs[id] # None,
         NEW stage \in Stages, NEW build \in Progress,
         jobs' = [jobs EXCEPT ![id] = [jobs[id] EXCEPT !.stage = stage, !.build = build]],
         blocks' = blocks,
         stage \in {"waiting", "idle"} => build = NoProgress,
         stage = "published" =>
           build.used = 0 /\ build.txs = <<>> /\ build.todo = Decoded(jobs[id].request),
         stage \in {"opened", "executing"} => Reached(jobs[id].request, build)
  PROVE  SoundJobs'
<1> DEFINE old == jobs[id]
           job == [old EXCEPT !.stage = stage, !.build = build]
           n == Parent(id).number
<1>1. old \in Job /\ Sound(id, n, old)
  BY JobFields DEF SoundJobs
<1> HIDE DEF old, n
<1>2. /\ job.stage = stage /\ job.build = build /\ job.request = old.request
      /\ job.best = old.best /\ job.best_base = old.best_base
  BY <1>1 DEF Job
<1> HIDE DEF job
<1>3. job.best # None => Complete(id, n, job)
  BY <1>1, <1>2 DEF Sound, Complete
<1>4. Sound(id, n, job)
  BY <1>2, <1>3 DEF Sound, old
<1>5. QED
  BY <1>4, SoundStep DEF old, n, job

(* A build that fails leaves its job sound, with the payload it had.       *)
LEMMA SoundFail ==
  ASSUME IInv, SoundJobs, NEW id \in PayloadId, jobs[id] # None, Fail(id), blocks' = blocks
  PROVE  SoundJobs'
<1>1. jobs[id] \in Job
  BY JobFields
<1>2. jobs' = [jobs EXCEPT ![id] = [jobs[id] EXCEPT !.stage = "idle", !.build = NoProgress]]
  BY <1>1 DEF Fail, IInv, TypeOK, Job
<1>3. QED
  BY <1>2, NoProgressType, BuildStep DEF Stages

(* A new job has built nothing.                                            *)
LEMMA SoundRequest ==
  ASSUME IInv, SoundJobs, NEW b \in DOMAIN blocks, NEW ts \in Timestamps,
         NEW r \in Batches, NEW g \in GasLimits \cup {None},
         RequestPayload(<<b, ts>>, r, g)
  PROVE  SoundJobs'
<1> DEFINE id == <<b, ts>>
           job == [request |-> r, gas_limit |-> g, stage |-> "waiting",
                   build |-> NoProgress, best |-> None,
                   best_base |-> NoProgress.base]
<1>1. id \in PayloadId /\ blocks' = blocks
  BY NumberAssumption, SMT DEF PayloadId, IInv, TypeOK, RequestPayload
<1>2. Sound(id, Parent(id).number, job)
  BY DEF Sound
<1>3. CASE jobs' = [jobs EXCEPT ![id] = job]
  BY <1>1, <1>2, <1>3, SoundStep
<1>4. CASE UNCHANGED jobs
  BY <1>1, <1>4 DEF SoundJobs, Parent
<1>5. QED
  BY <1>3, <1>4 DEF RequestPayload

(* A build starts from nothing.                                            *)
LEMMA SoundPublish ==
  ASSUME IInv, SoundJobs, NEW id \in PayloadId, PublishGasLimit(id)
  PROVE  SoundJobs'
<1> DEFINE old == jobs[id]
           x == EffectiveGasLimit(id)
           y == Decoded(old.request)
           build == [NoProgress EXCEPT !.limit = x, !.todo = y]
<1>1. old # None /\ old.stage = "waiting"
  BY DEF PublishGasLimit, Active
<1>2. /\ old \in Job /\ Parent(id) \in Block
  BY <1>1, JobFields
<1>3. old.build = NoProgress
  BY <1>1 DEF SoundJobs, Sound
<1>4. x \in Nat /\ y \in Seq(Txs)
  BY <1>2, InputAssumption, DecodedType DEF EffectiveGasLimit, Job, Block
<1>5. jobs' = [jobs EXCEPT ![id].stage = "published", ![id].build.limit = x, ![id].build.todo = y]
  BY DEF PublishGasLimit
<1> HIDE DEF x, y
<1>6. [old EXCEPT !.stage = "published", !.build.limit = x, !.build.todo = y]
        = [old EXCEPT !.stage = "published", !.build = build]
  BY <1>2, <1>3 DEF Job
<1>7. jobs' = [jobs EXCEPT ![id] = [old EXCEPT !.stage = "published", !.build = build]]
  BY <1>5, <1>6 DEF IInv, TypeOK
<1>8. build \in Progress /\ build.used = 0 /\ build.txs = <<>> /\ build.todo = y
  BY <1>4, NoProgressType DEF Progress, NoProgress
<1> HIDE DEF build
<1>9. QED
  BY <1>1, <1>7, <1>8, BuildStep DEF PublishGasLimit, y, Stages

(* The state that is opened is the one the block is built on.              *)
LEMMA SoundOpen ==
  ASSUME IInv, SoundJobs, NEW id \in PayloadId, OpenLatest(id)
  PROVE  SoundJobs'
<1> DEFINE old == jobs[id]
           st == blocks[head].state
           build == [old.build EXCEPT !.base = st, !.state = st]
<1>1. old # None /\ old.stage = "published" /\ blocks' = blocks
  BY DEF OpenLatest, Active
<1>2. old \in Job
  BY <1>1, JobFields
<1>3. CASE old.build.limit = 0
  BY <1>1, <1>3, SoundFail DEF OpenLatest
<1>4. CASE old.build.limit # 0
  <2>1. st \in Nonces
    <3>1. blocks[head] \in Block
      BY SMT DEF IInv, TypeOK
    <3>2. QED
      BY <3>1 DEF Block
  <2>2. /\ old.build \in Progress /\ old.build.used = 0 /\ old.build.txs = <<>>
        /\ old.build.todo = Decoded(old.request) /\ old.request \in Batches
    BY <1>1, <1>2 DEF SoundJobs, Sound, Job
  <2>3. jobs' = [jobs EXCEPT ![id] = [old EXCEPT !.stage = "opened", !.build = build]]
    <3>1. jobs' = [jobs EXCEPT ![id].stage = "opened", ![id].build = build]
      BY <1>4 DEF OpenLatest
    <3> HIDE DEF build
    <3>2. QED
      BY <1>2, <3>1 DEF IInv, TypeOK, Job
  <2> HIDE DEF st, old
  <2>4. /\ build \in Progress /\ build.used = 0 /\ build.txs = <<>>
        /\ build.todo = Decoded(old.request) /\ build.state = build.base
    BY <2>1, <2>2 DEF Progress
  <2> HIDE DEF build
  <2>5. Reached(old.request, build)
    BY <2>2, <2>4, ReachedFirst
  <2>6. QED
    BY <1>1, <2>3, <2>4, <2>5, BuildStep DEF Stages, old
<1>5. QED
  BY <1>3, <1>4

(* Looking up the parent changes nothing in the build.                     *)
LEMMA SoundFindParent ==
  ASSUME IInv, SoundJobs, NEW id \in PayloadId, FindParent(id)
  PROVE  SoundJobs'
<1> DEFINE old == jobs[id]
<1>1. old # None /\ old.stage = "opened" /\ blocks' = blocks
  BY DEF FindParent, Active
<1>2. old \in Job /\ old.build \in Progress
  BY <1>1, JobFields DEF Job
<1>3. CASE Fail(id)
  BY <1>1, <1>3, SoundFail
<1>4. CASE jobs' = [jobs EXCEPT ![id].stage = "executing"]
  <2>1. [old EXCEPT !.stage = "executing"] = [old EXCEPT !.stage = "executing", !.build = old.build]
    BY <1>2 DEF Job
  <2>2. jobs' = [jobs EXCEPT ![id] = [old EXCEPT !.stage = "executing", !.build = old.build]]
    BY <1>4, <2>1 DEF IInv, TypeOK
  <2>3. Reached(old.request, old.build)
    BY <1>1 DEF SoundJobs, Sound
  <2>4. QED
    BY <1>1, <1>2, <2>2, <2>3, BuildStep DEF Stages
<1>5. QED
  BY <1>3, <1>4 DEF FindParent

(* One round of the loop of build_payload.                                 *)
LEMMA SoundExecute ==
  ASSUME IInv, SoundJobs, NEW id \in PayloadId, ExecuteNext(id)
  PROVE  SoundJobs'
<1> DEFINE old == jobs[id]
           b == old.build
           t == Head(b.todo)
           next == IF Executable(t, b.state, b.limit, b.used) THEN Include(b) ELSE Skip(b)
<1>1. old # None /\ old.stage = "executing" /\ b.todo # <<>> /\ blocks' = blocks
  BY DEF ExecuteNext, Active
<1>2. old \in Job /\ JobOK(id, old)
  BY <1>1, JobFields
<1>3. b \in Progress /\ b.used <= b.limit /\ old.request \in Batches
  BY <1>1, <1>2 DEF Job, JobOK
<1>4. CASE t.kind = "unrecoverable"
  BY <1>1, <1>4, SoundFail DEF ExecuteNext
<1>5. CASE t.kind # "unrecoverable"
  <2>1. jobs' = [jobs EXCEPT ![id].build = next]
    BY <1>5 DEF ExecuteNext
  <2>2. next \in Progress
    BY <1>1, <1>3, IncludeBuild, SkipBuild
  <2>3. Reached(old.request, b)
    BY <1>1 DEF SoundJobs, Sound
  <2>4. Reached(old.request, next)
    BY <1>1, <1>3, <1>5, <2>3, ReachedSkip, ReachedInclude
  <2> HIDE DEF next
  <2>5. [old EXCEPT !.build = next] = [old EXCEPT !.stage = "executing", !.build = next]
    BY <1>1, <1>2 DEF Job
  <2>6. jobs' = [jobs EXCEPT ![id] = [old EXCEPT !.stage = "executing", !.build = next]]
    BY <2>1, <2>5 DEF IInv, TypeOK
  <2>7. QED
    BY <1>1, <2>2, <2>4, <2>6, BuildStep DEF Stages
<1>6. QED
  BY <1>4, <1>5

(* The sealed block is the greedy choice among the request, executed.      *)
LEMMA SoundFinish ==
  ASSUME IInv, SoundJobs, NEW id \in PayloadId, Finish(id)
  PROVE  SoundJobs'
<1> DEFINE old == jobs[id]
           b == old.build
           n == Parent(id).number
           best == Sealed(id)
           job == [old EXCEPT !.stage = "idle", !.build = NoProgress,
                              !.best = best, !.best_base = b.base]
<1>1. old # None /\ old.stage = "executing" /\ b.todo = <<>> /\ blocks' = blocks
  BY DEF Finish, Active
<1>2. old \in Job /\ JobOK(id, old)
  BY <1>1, JobFields
<1>3. b \in Progress /\ b.used <= b.limit /\ old.request \in Batches
  BY <1>1, <1>2 DEF Job, JobOK
<1>4. Reached(old.request, b)
  BY <1>1 DEF SoundJobs, Sound
<1>5. jobs' = [jobs EXCEPT ![id] = job]
  BY <1>2 DEF Finish, IInv, TypeOK, Job
<1>6. /\ best.parent = id[1] /\ best.number = n + 1 /\ best.timestamp = id[2]
      /\ best.gas_limit = b.limit /\ best.gas_used = b.used /\ best.txs = b.txs
      /\ best.state = b.state
  BY DEF Sealed
<1> HIDE DEF best
<1>7. /\ job.stage = "idle" /\ job.build = NoProgress /\ job.best = best
      /\ job.best_base = b.base /\ job.request = old.request
  BY <1>2 DEF Job
<1> HIDE DEF job, n
<1>8. Greedy(b.base, b.limit, old.request) = [state |-> b.state, used |-> b.used, txs |-> b.txs]
  <2>1. PICK done \in Seq(Txs) :
          /\ Decoded(old.request) = done \o b.todo
          /\ Greedy(b.base, b.limit, done) = [state |-> b.state, used |-> b.used, txs |-> b.txs]
    BY <1>4 DEF Reached
  <2>2. done \o <<>> = done
    BY SMT
  <2>3. Decoded(old.request) = done
    BY <1>1, <2>1, <2>2
  <2>4. b.base \in Nonces /\ b.limit \in Nat /\ old.request \in Seq(Txs)
    BY <1>3, BuildFields, DecodedType
  <2>5. Greedy(b.base, b.limit, Decoded(old.request)) = Greedy(b.base, b.limit, old.request)
    BY <2>4, GreedyDecoded
  <2>6. QED
    BY <2>1, <2>3, <2>5
<1>9. Replay(b.base, b.limit, b.txs) = [ok |-> TRUE, state |-> b.state, used |-> b.used]
  BY <1>4 DEF Reached
<1>10. Complete(id, n, job)
  BY <1>3, <1>6, <1>7, <1>8, <1>9 DEF Complete
<1>11. Sound(id, n, job)
  BY <1>7, <1>10 DEF Sound
<1>12. QED
  BY <1>1, <1>5, <1>11, SoundStep DEF n

(* The interval, the deadline and getPayload.                              *)
LEMMA SoundOther ==
  ASSUME IInv, SoundJobs, NEW id \in PayloadId, Rebuild(id) \/ Expire(id) \/ GetPayload(id)
  PROVE  SoundJobs'
<1>1. CASE Rebuild(id)
  <2> DEFINE old == jobs[id]
  <2>1. old # None /\ old.stage = "idle" /\ blocks' = blocks
    BY <1>1 DEF Rebuild, Active
  <2>2. old \in Job /\ old.build = NoProgress
    BY <2>1, JobFields DEF SoundJobs, Sound
  <2>3. [old EXCEPT !.stage = "waiting"] = [old EXCEPT !.stage = "waiting", !.build = NoProgress]
    BY <2>2 DEF Job
  <2>4. jobs' = [jobs EXCEPT ![id] = [old EXCEPT !.stage = "waiting", !.build = NoProgress]]
    BY <1>1, <2>3 DEF Rebuild, IInv, TypeOK
  <2>5. QED
    BY <2>1, <2>4, NoProgressType, BuildStep DEF Stages
<1>2. CASE Expire(id)
  BY <1>2, SoundStep DEF Expire
<1>3. CASE GetPayload(id)
  BY <1>3, SoundStep DEF GetPayload
<1>4. QED
  BY <1>1, <1>2, <1>3

(* A block that becomes known moves no other.                              *)
LEMMA KnownStays ==
  ASSUME TypeOK, NewPayload
  PROVE  /\ payload \in Block /\ DOMAIN blocks' = DOMAIN blocks \cup {Len(blocks) + 1}
         /\ \A i \in DOMAIN blocks : blocks'[i] = blocks[i]
         /\ blocks'[Len(blocks) + 1] = payload
<1>1. payload \in Block /\ blocks \in Seq(Block) /\ blocks' = Append(blocks, payload)
  BY DEF TypeOK, NewPayload
<1>2. QED
  BY <1>1, SMT

(* Every step of the payload service, the builder and the importer keeps   *)
(* the jobs sound.                                                         *)
LEMMA NextSoundJobs == IInv /\ SoundJobs /\ [Next]_vars => SoundJobs'
<1> SUFFICES ASSUME IInv, SoundJobs, [Next]_vars PROVE SoundJobs'
  OBVIOUS
<1>1. ASSUME NEW b \in DOMAIN blocks, SetHead(b) PROVE SoundJobs'
  BY <1>1 DEF SetHead, SoundJobs, Parent
<1>2. ASSUME NEW h \in DOMAIN blocks, Restart(h) PROVE SoundJobs'
  BY <1>2 DEF Restart, SoundJobs
<1>3. ASSUME NewPayload PROVE SoundJobs'
  <2>1. ASSUME NEW id \in PayloadId, jobs'[id] # None
        PROVE  Sound(id, Parent(id)'.number, jobs'[id])
    <3>1. jobs' = jobs /\ id[1] \in DOMAIN blocks
      BY <1>3, <2>1 DEF NewPayload, IInv, TypeOK
    <3>2. Parent(id)' = Parent(id)
      BY <1>3, <3>1, KnownStays DEF Parent, IInv
    <3>3. QED
      BY <2>1, <3>1, <3>2 DEF SoundJobs
  <2>2. QED
    BY <2>1 DEF SoundJobs
<1>4. CASE UNCHANGED vars
  BY <1>4 DEF vars, SoundJobs, Parent
<1>5. QED
  BY <1>1, <1>2, <1>3, <1>4, SoundRequest, SoundPublish, SoundOpen, SoundFindParent,
     SoundExecute, SoundFinish, SoundOther DEF Next

(* Steps that add no block and fetch no payload.                           *)
LEMMA LinkedSame ==
  ASSUME Linked, blocks' = blocks, payload' = payload
  PROVE  Linked'
BY DEF Linked, Extends

(* Fetching a payload keeps every block linked to its parent.              *)
LEMMA LinkedGet ==
  ASSUME IInv, SoundJobs, Linked, NEW id \in PayloadId, GetPayload(id)
  PROVE  Linked'
<1>1. blocks' = blocks
  BY DEF GetPayload
<1>2. \A i \in DOMAIN blocks' : Extends(blocks[i])'
  BY <1>1 DEF Linked, Extends
<1>3. CASE payload' = payload
  BY <1>1, <1>3, LinkedSame
<1>4. CASE jobs[id].best # None /\ payload' = jobs[id].best
  <2>1. jobs[id] # None /\ id[1] \in DOMAIN blocks
    BY JobFields DEF GetPayload
  <2>2. payload'.parent = id[1]
    BY <1>4, <2>1 DEF SoundJobs, Sound, Complete
  <2>3. QED
    BY <1>1, <1>2, <2>1, <2>2 DEF Linked
<1>5. QED
  BY <1>3, <1>4 DEF GetPayload

(* newPayload checked the block against its parent.                        *)
LEMMA LinkedNew ==
  ASSUME IInv, Linked, NewPayload
  PROVE  Linked'
<1> DEFINE n == Len(blocks) + 1
           p == payload.parent
<1>1. /\ payload \in Block /\ DOMAIN blocks' = DOMAIN blocks \cup {n}
      /\ \A i \in DOMAIN blocks : blocks'[i] = blocks[i]
      /\ blocks'[n] = payload /\ payload' = payload
  BY KnownStays DEF IInv, NewPayload
<1>2. p \in DOMAIN blocks /\ ValidBlock(payload)
  BY DEF Linked, NewPayload
<1>3. /\ payload.number = blocks[p].number + 1
      /\ Replay(blocks[p].state, payload.gas_limit, payload.txs).ok
      /\ Replay(blocks[p].state, payload.gas_limit, payload.txs).state = payload.state
  BY <1>2 DEF ValidBlock, ValidHeaderAgainstParent
<1> HIDE DEF n
<1>4. ASSUME NEW i \in DOMAIN blocks' PROVE Extends(blocks[i])'
  <2>1. CASE i = n
    BY <1>1, <1>2, <1>3, <2>1 DEF Extends
  <2>2. CASE i # n
    <3>1. i \in DOMAIN blocks /\ Extends(blocks[i]) /\ blocks'[i] = blocks[i]
      BY <1>1, <2>2 DEF Linked
    <3>2. QED
      BY <1>1, <3>1 DEF Extends
  <2>3. QED
    BY <2>1, <2>2
<1>5. QED
  BY <1>1, <1>2, <1>4 DEF Linked

(* Every step keeps every block linked to its parent.                      *)
LEMMA NextLinked == IInv /\ SoundJobs /\ Linked /\ [Next]_vars => Linked'
<1> SUFFICES ASSUME IInv, SoundJobs, Linked, [Next]_vars PROVE Linked'
  OBVIOUS
<1>1. ASSUME NEW id \in PayloadId,
             \/ PublishGasLimit(id) \/ OpenLatest(id) \/ FindParent(id) \/ ExecuteNext(id)
             \/ Finish(id) \/ Rebuild(id) \/ Expire(id)
      PROVE  blocks' = blocks /\ payload' = payload
  BY <1>1 DEF PublishGasLimit, OpenLatest, FindParent, ExecuteNext, Finish, Rebuild, Expire
<1>2. ASSUME NEW b \in DOMAIN blocks, SetHead(b) \/ Restart(b)
      PROVE  blocks' = blocks /\ payload' = payload
  BY <1>2 DEF SetHead, Restart
<1>3. ASSUME NEW b \in DOMAIN blocks, NEW ts \in Timestamps, NEW r \in Batches,
             NEW g \in GasLimits \cup {None}, RequestPayload(<<b, ts>>, r, g)
      PROVE  blocks' = blocks /\ payload' = payload
  BY <1>3 DEF RequestPayload
<1>4. CASE UNCHANGED vars
  BY <1>4, LinkedSame DEF vars
<1>5. QED
  BY <1>1, <1>2, <1>3, <1>4, LinkedSame, LinkedGet, LinkedNew DEF Next

(* The invariant of the chains holds of a node with genesis alone.         *)
LEMMA InitChain == Init => ChainInv
<1> SUFFICES ASSUME Init PROVE ChainInv
  OBVIOUS
<1>1. IInv
  BY InitIInv
<1>2. SoundJobs
  BY DEF Init, SoundJobs
<1>3. Linked
  BY SMT DEF Init, Linked, Extends, GenesisBlock
<1>4. QED
  BY <1>1, <1>2, <1>3 DEF ChainInv

(* In every behaviour every job is sound, and every block was executed on  *)
(* the state of its parent.                                                *)
THEOREM ChainInvariance == Spec => []ChainInv
<1>1. ChainInv /\ [Next]_vars => ChainInv'
  BY NextIInv, NextSoundJobs, NextLinked DEF ChainInv
<1>2. QED
  BY <1>1, InitChain, PTL DEF Spec

(* The payload of a job is the greedy choice among the transactions of its *)
(* request, on the state the build opened: neither a skipped transaction   *)
(* nor an earlier, failed or repeated build of the job leaves a trace.     *)
THEOREM BuildsAreGreedy == Spec => []BuildIsGreedy
<1>1. ChainInv => BuildIsGreedy
  BY DEF ChainInv, SoundJobs, Sound, Complete, BuildIsGreedy
<1>2. QED
  BY <1>1, ChainInvariance, PTL

(* If a list leads two states to the same state, they are the same.        *)
LEMMA ReplayFrom ==
  ASSUME NEW one \in Nonces, NEW other \in Nonces, NEW limit \in Nat, NEW v \in Seq(Txs),
         Replay(one, limit, v).ok, Replay(other, limit, v).ok,
         Replay(one, limit, v).state = Replay(other, limit, v).state
  PROVE  one = other
<1> DEFINE s == Replay(one, limit, v).state
<1>1. \A a \in Account : s[a] - one[a] = s[a] - other[a]
  BY ReplayShift, SMT
<1>2. s \in Nonces
  BY ReplayStep DEF Outcome
<1> HIDE DEF s
<1>3. ASSUME NEW a \in Account PROVE one[a] = other[a]
  <2>1. s[a] \in Nat /\ one[a] \in Nat /\ other[a] \in Nat
    BY <1>2 DEF Nonces
  <2>2. QED
    BY <1>1, <2>1, SMT
<1>4. QED
  BY <1>3, SMT DEF Nonces

(* In a state of the invariant, a payload imports exactly when it was      *)
(* built on its parent.                                                    *)
LEMMA ImportsIff == ChainInv => ImportsIffBuiltOnParent
<1> SUFFICES ASSUME ChainInv, NEW id \in PayloadId, jobs[id] # None, jobs[id].best # None
             PROVE  ValidBlock(jobs[id].best) <=>
                      /\ jobs[id].best_base = Parent(id).state
                      /\ jobs[id].best.timestamp >= Parent(id).timestamp
                      /\ GasLimitInBounds(jobs[id].best.gas_limit, Parent(id).gas_limit)
  BY DEF ImportsIffBuiltOnParent
<1> DEFINE best == jobs[id].best
           base == jobs[id].best_base
           p == Parent(id)
           r == Replay(p.state, best.gas_limit, best.txs)
           s == Replay(base, best.gas_limit, best.txs)
<1>1. /\ s = [ok |-> TRUE, state |-> best.state, used |-> best.gas_used]
      /\ best.gas_used <= best.gas_limit /\ best.number = p.number + 1 /\ best.parent = id[1]
  BY DEF ChainInv, SoundJobs, Sound, Complete
<1>2. best \in Block /\ p \in Block /\ base \in Nonces
  BY JobFields DEF ChainInv, Job
<1>3. best.txs \in Seq(Txs) /\ best.gas_limit \in Nat /\ p.state \in Nonces
  BY <1>2 DEF Block
<1>4. ValidBlock(best) <=>
        /\ best.timestamp >= p.timestamp /\ GasLimitInBounds(best.gas_limit, p.gas_limit)
        /\ r.ok /\ r.used = best.gas_used /\ r.state = best.state
  BY <1>1 DEF ValidBlock, ValidHeaderAgainstParent, Parent
<1> HIDE DEF best, base, p
<1>5. r.ok /\ r.used = best.gas_used /\ r.state = best.state <=> base = p.state
  <2>1. base = p.state => r = s
    OBVIOUS
  <2>2. s.ok /\ s.state = best.state /\ s.used = best.gas_used
    BY <1>1, SMT
  <2>3. ASSUME r.ok, r.state = best.state PROVE base = p.state
    BY <1>2, <1>3, <2>2, <2>3, ReplayFrom
  <2>4. QED
    BY <2>1, <2>2, <2>3
<1>6. QED
  BY <1>4, <1>5 DEF best, base, p

(* A payload is importable exactly if it was built on the state of its     *)
(* parent, with a timestamp and a gas limit in bounds: a build that opened *)
(* another head's state never passes for a child of its parent.            *)
THEOREM ImportsExactly == Spec => []ImportsIffBuiltOnParent
BY ImportsIff, ChainInvariance, PTL

-----------------------------------------------------------------------------
(* Nonces along a chain.                                                   *)

(* The transactions of a history number those of each sender, and the      *)
(* state counts them.                                                      *)
Numbered(h, state) ==
  /\ \A k \in 1 .. Len(h) : h[k].nonce = SentBy(h[k].sender, h, k - 1)
  /\ \A a \in Account : state[a] = SentBy(a, h, Len(h))

(* One more transaction counts for its sender alone.                       *)
LEMMA SentByAppend ==
  ASSUME NEW h \in Seq(Txs), NEW t \in Txs, NEW a
  PROVE  /\ \A n \in 0 .. Len(h) : SentBy(a, Append(h, t), n) = SentBy(a, h, n)
         /\ SentBy(a, h, Len(h)) \in Nat
         /\ SentBy(a, Append(h, t), Len(h) + 1) =
              IF a = t.sender THEN SentBy(a, h, Len(h)) + 1 ELSE SentBy(a, h, Len(h))
<1> DEFINE m == Len(h)
           u == Append(h, t)
           S(x, n) == {k \in 1 .. n : x[k].sender = a}
<1>1. m \in Nat
  BY SMT
<1>2. \A k \in 1 .. m : u[k] = h[k]
  BY SMT
<1>3. u[m + 1] = t
  BY SMT
<1> HIDE DEF m, u
<1>4. ASSUME NEW n \in 0 .. m PROVE S(u, n) = S(h, n)
  <2>1. \A k \in 1 .. n : u[k] = h[k]
    BY <1>1, <1>2, SMT
  <2>2. QED
    BY <2>1
<1>5. m \in 0 .. m
  BY <1>1, SMT
<1>6. IsFiniteSet(S(h, m)) /\ m + 1 \notin S(h, m)
  <2>1. IsFiniteSet(1 .. m)
    BY <1>1, FS_Interval, SMT
  <2>2. QED
    BY <1>1, <2>1, FS_Subset, SMT
<1>7. S(u, m + 1) = IF a = t.sender THEN S(u, m) \cup {m + 1} ELSE S(u, m)
  <2>1. 1 .. m + 1 = (1 .. m) \cup {m + 1}
    BY <1>1, SMT
  <2>2. QED
    BY <1>3, <2>1
<1>8. S(u, m) = S(h, m)
  BY <1>4, <1>5
<1> HIDE DEF S
<1>9. Cardinality(S(h, m)) \in Nat /\ Cardinality(S(h, m) \cup {m + 1}) = Cardinality(S(h, m)) + 1
  BY <1>6, FS_CardinalityType, FS_AddElement
<1>10. \A x, n : SentBy(a, x, n) = Cardinality(S(x, n))
  BY DEF SentBy, S
<1>11. QED
  BY <1>4, <1>7, <1>8, <1>9, <1>10, SMT DEF m, u

(* A transaction with the nonce of its sender continues the numbering.     *)
LEMMA NumberedAppend ==
  ASSUME NEW h \in Seq(Txs), NEW state \in Nonces, NEW t \in Txs, Numbered(h, state),
         t.nonce = state[t.sender]
  PROVE  Numbered(Append(h, t), AfterCommit(t, state))
<1> DEFINE m == Len(h)
           u == Append(h, t)
<1>1. m \in Nat /\ Len(u) = m + 1 /\ u[m + 1] = t /\ \A k \in 1 .. m : u[k] = h[k]
  BY SMT
<1>2. \A a, n : n \in 0 .. m => SentBy(a, u, n) = SentBy(a, h, n)
  BY SentByAppend
<1>3. t.sender \in Account
  BY TxFields
<1>4. \A k \in 1 .. m : h[k].nonce = SentBy(h[k].sender, h, k - 1)
  BY DEF Numbered
<1>5. \A a \in Account : state[a] = SentBy(a, h, m)
  BY DEF Numbered
<1>6. \A a \in Account :
        SentBy(a, u, m + 1) = IF a = t.sender THEN SentBy(a, h, m) + 1 ELSE SentBy(a, h, m)
  BY SentByAppend
<1>7. \A a \in Account :
        AfterCommit(t, state)[a] = IF a = t.sender THEN state[a] + 1 ELSE state[a]
  BY CommitType
<1> HIDE DEF m, u
<1>8. ASSUME NEW k \in 1 .. m + 1 PROVE u[k].nonce = SentBy(u[k].sender, u, k - 1)
  <2>1. CASE k = m + 1
    <3>1. k - 1 = m /\ m \in 0 .. m
      BY <1>1, <2>1, SMT
    <3>2. QED
      BY <1>1, <1>2, <1>3, <1>5, <2>1, <3>1, SMT
  <2>2. CASE k # m + 1
    <3>1. k \in 1 .. m /\ k - 1 \in 0 .. m
      BY <1>1, <2>2, SMT
    <3>2. QED
      BY <1>1, <1>2, <1>4, <3>1, SMT
  <2>3. QED
    BY <2>1, <2>2
<1>9. \A a \in Account : AfterCommit(t, state)[a] = SentBy(a, u, m + 1)
  BY <1>5, <1>6, <1>7
<1>10. QED
  BY <1>1, <1>8, <1>9 DEF Numbered, u

(* A list that executes continues the numbering.                           *)
LEMMA ReplayNumbered ==
  ASSUME NEW h \in Seq(Txs), NEW base \in Nonces, NEW limit \in Nat, Numbered(h, base)
  PROVE  \A v \in Seq(Txs) : Replay(base, limit, v).ok =>
           Numbered(h \o v, Replay(base, limit, v).state)
<1> DEFINE R(v) == Replay(base, limit, v)
           B == {v \in Seq(Txs) : R(v).ok => Numbered(h \o v, R(v).state)}
<1>1. <<>> \in B
  <2>1. <<>> \in Seq(Txs) /\ h \o <<>> = h
    BY SMT
  <2>2. R(<<>>).state = base
    BY ReplayStep, SMT
  <2> HIDE DEF R
  <2>3. QED
    BY <2>1, <2>2
<1>2. ASSUME NEW v \in Seq(Txs), NEW t \in Txs, v \in B PROVE Append(v, t) \in B
  <2>1. SUFFICES ASSUME R(Append(v, t)).ok
                 PROVE  Numbered(h \o Append(v, t), R(Append(v, t)).state)
    BY <1>2, SMT
  <2>2. /\ R(v).ok /\ t.nonce = R(v).state[t.sender]
        /\ R(Append(v, t)).state = AfterCommit(t, R(v).state)
    BY <2>1, ReplayLast
  <2>3. R(v).state \in Nonces
    BY ReplayStep DEF Outcome
  <2> HIDE DEF R
  <2>4. Numbered(h \o v, R(v).state)
    BY <1>2, <2>2
  <2>5. h \o v \in Seq(Txs) /\ h \o Append(v, t) = Append(h \o v, t)
    BY SMT
  <2>6. QED
    BY <2>2, <2>3, <2>4, <2>5, NumberedAppend
<1> HIDE DEF B
<1>3. \A v \in Seq(Txs) : v \in B
  BY <1>1, <1>2, SeqInductive
<1>4. QED
  BY <1>3 DEF B

(* The ancestors of a block, down to the start of its chain.               *)
Descends(c, i) ==
  /\ c[0] = i
  /\ \A n \in 0 .. blocks[i].number :
       c[n] \in DOMAIN blocks /\ blocks[c[n]].number = blocks[i].number - n
  /\ \A n \in 1 .. blocks[i].number : c[n] = blocks[c[n - 1]].parent

(* The chain of a block goes down to genesis by parents, one number at a   *)
(* time.                                                                   *)
LEMMA ChainDescends ==
  ASSUME IInv, Linked, NEW i \in DOMAIN blocks
  PROVE  Descends(Chain(i), i)
<1> DEFINE m == blocks[i].number
           S == 0 .. MaxBlocks
           f == [n \in 1 .. m |-> [x \in S |-> IF x \in DOMAIN blocks THEN blocks[x].parent ELSE 0]]
           E(s) == [n \in 0 .. m |-> IF n = 0 THEN i ELSE blocks[s[n - 1]].parent]
           p == CHOOSE s : s = E(s)
<1>1. /\ \A x \in DOMAIN blocks : blocks[x] \in Block /\ Extends(blocks[x]) /\ x \in S
      /\ MaxBlocks \in Nat
  BY NumberAssumption, SMT DEF IInv, TypeOK, Linked
<1>2. /\ \A x \in DOMAIN blocks : blocks[x].parent \in S /\ blocks[x].number \in Nat
      /\ m \in Nat /\ i \in S /\ 0 \in S
  BY <1>1, SMT DEF Block
<1>3. Chain(i) = p
  BY DEF Chain
<1> HIDE DEF S, m
<1>4. f \in [1 .. m -> [S -> S]]
  BY <1>2
<1>5. PICK s \in [0 .. m -> S] : Follows(s, m, i, f)
  <2> HIDE DEF f
  <2>1. QED
    BY <1>2, <1>4, Recursion
(* As long as the number is not 0 the parent is known.                     *)
<1> DEFINE Down(c) == {n \in 0 .. m : c[n] \in DOMAIN blocks /\ blocks[c[n]].number = m - n}
<1>6. ASSUME NEW c, NEW n \in 0 .. m, n < m, n \in Down(c), c[n + 1] = blocks[c[n]].parent
      PROVE  n + 1 \in Down(c)
  <2>1. n + 1 \in 0 .. m /\ m - n # 0 /\ (m - n) - 1 = m - (n + 1)
    BY <1>2, <1>6, SMT
  <2>2. c[n] \in DOMAIN blocks /\ blocks[c[n]].number = m - n
    BY <1>6
  <2>3. /\ c[n + 1] \in DOMAIN blocks
        /\ blocks[c[n]].number = blocks[c[n + 1]].number + 1
    BY <1>1, <1>6, <2>1, <2>2 DEF Extends
  <2>4. blocks[c[n + 1]].number \in Nat
    BY <1>2, <2>3
  <2>5. blocks[c[n + 1]].number = m - (n + 1)
    BY <1>2, <2>1, <2>2, <2>3, <2>4, SMT
  <2>6. QED
    BY <2>1, <2>3, <2>5
<1>7. ASSUME NEW c, c[0] = i PROVE 0 \in Down(c)
  BY <1>2, <1>7, SMT DEF m
<1> HIDE DEF Down
<1>8. \A n \in 0 .. m : n \in Down(s)
  <2>1. 0 \in Down(s)
    BY <1>5, <1>7 DEF Follows
  <2>2. ASSUME NEW n \in 0 .. m, n < m, n \in Down(s) PROVE n + 1 \in Down(s)
    <3>1. n + 1 \in 1 .. m /\ (n + 1) - 1 = n
      BY <1>2, <2>2, SMT
    <3>2. s[n + 1] = f[n + 1][s[n]] /\ s[n] \in S /\ s[n] \in DOMAIN blocks
      BY <1>5, <2>2, <3>1 DEF Follows, Down
    <3>3. s[n + 1] = blocks[s[n]].parent
      BY <3>1, <3>2
    <3>4. QED
      BY <1>6, <2>2, <3>3
  <2>3. \A n \in 0 .. m : n < m /\ n \in Down(s) => n + 1 \in Down(s)
    BY <2>2
  <2>4. QED
    BY <1>2, <2>1, <2>3, IntervalInductive
<1>9. s = E(s)
  <2>1. ASSUME NEW n \in 1 .. m PROVE s[n] = blocks[s[n - 1]].parent
    <3>1. n - 1 \in 0 .. m
      BY <1>2, SMT
    <3>2. s[n - 1] \in S /\ s[n] = f[n][s[n - 1]] /\ s[n - 1] \in DOMAIN blocks
      BY <1>5, <1>8, <3>1 DEF Follows, Down
    <3>3. QED
      BY <3>2
  <2>2. \A n \in 0 .. m : s[n] = E(s)[n]
    <3> TAKE n \in 0 .. m
    <3>1. n = 0 \/ n \in 1 .. m
      BY <1>2, SMT
    <3>2. QED
      BY <1>5, <2>1, <3>1 DEF Follows
  <2>3. QED
    BY <2>2
<1>10. p = E(p)
  <2> HIDE DEF E
  <2>1. QED
    BY <1>9
<1> HIDE DEF p
<1>11. p[0] = i /\ \A n \in 1 .. m : p[n] = blocks[p[n - 1]].parent
  <2>1. \A n \in 0 .. m : p[n] = IF n = 0 THEN i ELSE blocks[p[n - 1]].parent
    BY <1>10
  <2>2. 0 \in 0 .. m /\ \A n \in 1 .. m : n \in 0 .. m /\ n # 0
    BY <1>2, SMT
  <2>3. QED
    BY <2>1, <2>2
<1>12. \A n \in 0 .. m : n \in Down(p)
  <2>1. ASSUME NEW n \in 0 .. m, n < m, n \in Down(p) PROVE n + 1 \in Down(p)
    <3>1. n + 1 \in 1 .. m /\ (n + 1) - 1 = n
      BY <1>2, <2>1, SMT
    <3>2. p[n + 1] = blocks[p[(n + 1) - 1]].parent
      BY <1>11, <3>1
    <3>3. QED
      BY <1>6, <2>1, <3>1, <3>2
  <2>2. \A n \in 0 .. m : n < m /\ n \in Down(p) => n + 1 \in Down(p)
    BY <2>1
  <2>3. QED
    BY <1>2, <1>7, <1>11, <2>2, IntervalInductive
<1>13. QED
  BY <1>3, <1>11, <1>12 DEF Down, Descends, m

(* Along the chain of a block the histories are lists of transactions that *)
(* number them.                                                            *)
LEMMA HistoryNumbered ==
  ASSUME IInv, Linked, NEW i \in DOMAIN blocks
  PROVE  Numbered(History(i), blocks[i].state)
<1> DEFINE m == blocks[i].number
           c == Chain(i)
           S == Seq(Txs)
           f == [n \in 1 .. m |-> [x \in S |-> x \o blocks[c[m - n]].txs]]
           E(s) == [n \in 0 .. m |-> IF n = 0 THEN <<>> ELSE s[n - 1] \o blocks[c[m - n]].txs]
           p == CHOOSE s : s = E(s)
<1>1. /\ \A x \in DOMAIN blocks : blocks[x] \in Block /\ Extends(blocks[x])
      /\ Descends(c, i)
  BY ChainDescends, SMT DEF IInv, TypeOK, Linked
<1>2. /\ \A x \in DOMAIN blocks :
           /\ blocks[x].number \in Nat /\ blocks[x].gas_limit \in Nat
           /\ blocks[x].txs \in S /\ blocks[x].state \in Nonces
      /\ m \in Nat
  BY <1>1 DEF Block
<1>3. History(i) = p[m]
  BY DEF History
<1>4. /\ c[0] = i
      /\ \A n \in 0 .. m : c[n] \in DOMAIN blocks /\ blocks[c[n]].number = m - n
      /\ \A n \in 1 .. m : c[n] = blocks[c[n - 1]].parent
  BY <1>1 DEF Descends
<1> HIDE DEF m, c
<1>5. ASSUME NEW n \in 1 .. m
      PROVE  /\ m - n \in 0 .. m /\ c[m - n] \in DOMAIN blocks /\ blocks[c[m - n]].txs \in S
             /\ \A x \in S : x \o blocks[c[m - n]].txs \in S
  <2>1. m - n \in 0 .. m
    BY <1>2, SMT
  <2>2. c[m - n] \in DOMAIN blocks /\ blocks[c[m - n]].txs \in S
    BY <1>2, <1>4, <2>1
  <2>3. QED
    BY <2>1, <2>2, SMT
<1>6. f \in [1 .. m -> [S -> S]]
  BY <1>5
<1>7. <<>> \in S
  BY SMT
<1> HIDE DEF S
<1>8. PICK s \in [0 .. m -> S] : Follows(s, m, <<>>, f)
  <2> HIDE DEF f
  <2>1. QED
    BY <1>2, <1>6, <1>7, Recursion
<1>9. s = E(s)
  <2>1. ASSUME NEW n \in 1 .. m PROVE s[n] = s[n - 1] \o blocks[c[m - n]].txs
    <3>1. n - 1 \in 0 .. m
      BY <1>2, SMT
    <3>2. s[n - 1] \in S /\ s[n] = f[n][s[n - 1]]
      BY <1>8, <3>1 DEF Follows
    <3>3. QED
      BY <3>2
  <2>2. \A n \in 0 .. m : s[n] = E(s)[n]
    <3> TAKE n \in 0 .. m
    <3>1. n = 0 \/ n \in 1 .. m
      BY <1>2, SMT
    <3>2. QED
      BY <1>8, <2>1, <3>1 DEF Follows
  <2>3. QED
    BY <2>2
<1>10. p = E(p)
  <2> HIDE DEF E
  <2>1. QED
    BY <1>9
<1> HIDE DEF p
<1>11. p[0] = <<>> /\ \A n \in 1 .. m : p[n] = p[n - 1] \o blocks[c[m - n]].txs
  <2>1. \A n \in 0 .. m : p[n] = IF n = 0 THEN <<>> ELSE p[n - 1] \o blocks[c[m - n]].txs
    BY <1>10
  <2>2. 0 \in 0 .. m /\ \A n \in 1 .. m : n \in 0 .. m /\ n # 0
    BY <1>2, SMT
  <2>3. QED
    BY <2>1, <2>2
<1> DEFINE B == {n \in 0 .. m : p[n] \in S /\ Numbered(p[n], blocks[c[m - n]].state)}
<1>12. 0 \in B
  <2>1. 0 \in 0 .. m /\ m - 0 = m /\ m \in 0 .. m /\ m - m = 0
    BY <1>2, SMT
  <2>2. c[m] \in DOMAIN blocks /\ blocks[c[m]].number = 0
    BY <1>4, <2>1
  <2>3. blocks[c[m]].state = [a \in Account |-> 0]
    <3>1. \A k \in Nat : k + 1 # 0
      BY SMT
    <3>2. QED
      BY <1>1, <1>2, <2>2, <3>1 DEF Extends
  <2>4. ASSUME NEW a PROVE SentBy(a, <<>>, 0) = 0
    <3>1. {k \in 1 .. 0 : <<>>[k].sender = a} = {}
      BY SMT
    <3>2. QED
      BY <3>1, FS_EmptySet DEF SentBy
  <2>5. Numbered(<<>>, [a \in Account |-> 0])
    <3>1. Len(<<>>) = 0 /\ 1 .. 0 = {}
      BY SMT
    <3>2. QED
      BY <2>4, <3>1 DEF Numbered
  <2>6. QED
    BY <1>7, <1>11, <2>1, <2>3, <2>5
<1>13. ASSUME NEW n \in 0 .. m, n < m, n \in B PROVE n + 1 \in B
  <2> DEFINE k == m - (n + 1)
             b == blocks[c[k]]
             a == blocks[c[m - n]]
  <2>1. /\ n + 1 \in 1 .. m /\ n + 1 \in 0 .. m /\ (n + 1) - 1 = n
        /\ k \in 0 .. m /\ k + 1 = m - n /\ k + 1 \in 1 .. m /\ (k + 1) - 1 = k
        /\ m - k # 0 /\ m - n \in 0 .. m
    BY <1>2, <1>13, SMT
  <2>2. /\ c[k] \in DOMAIN blocks /\ b.number = m - k /\ c[m - n] \in DOMAIN blocks
        /\ c[m - n] = b.parent
    <3>1. c[k + 1] = blocks[c[(k + 1) - 1]].parent
      BY <1>4, <2>1
    <3>2. QED
      BY <1>4, <2>1, <3>1
  <2>3. /\ Replay(a.state, b.gas_limit, b.txs).ok
        /\ Replay(a.state, b.gas_limit, b.txs).state = b.state
    BY <1>1, <2>1, <2>2 DEF Extends
  <2>4. /\ a.state \in Nonces /\ b.gas_limit \in Nat /\ b.txs \in S
    BY <1>2, <2>2
  <2>5. p[n] \in S /\ Numbered(p[n], a.state)
    BY <1>13
  <2>6. p[n + 1] = p[(n + 1) - 1] \o b.txs
    BY <1>11, <2>1
  <2>7. p[n + 1] = p[n] \o b.txs
    BY <2>1, <2>6
  <2>8. p[n + 1] \in S
    BY <1>5, <2>1, <2>5, <2>7
  <2> HIDE DEF a, b, k
  <2>9. Numbered(p[n] \o b.txs, b.state)
    BY <2>3, <2>4, <2>5, ReplayNumbered DEF S
  <2>10. QED
    BY <2>1, <2>7, <2>8, <2>9 DEF b, k
<1> HIDE DEF B
<1>14. \A n \in 0 .. m : n < m /\ n \in B => n + 1 \in B
  BY <1>13
<1>15. \A n \in 0 .. m : n \in B
  BY <1>2, <1>12, <1>14, IntervalInductive
<1>16. m \in 0 .. m /\ m - m = 0
  BY <1>2, SMT
<1>17. QED
  BY <1>3, <1>4, <1>15, <1>16 DEF B

(* On every chain the node accepts the nonces of each sender run 0, 1, 2,  *)
(* ... without gap or repetition, and the state counts them, whatever was  *)
(* asked for twice, built on a stale head or fetched late.                 *)
THEOREM NoncesRunOn == Spec => []ChainNonces
<1>1. ChainInv => ChainNonces
  BY HistoryNumbered DEF ChainInv, ChainNonces, Numbered
<1>2. QED
  BY <1>1, ChainInvariance, PTL

=============================================================================
