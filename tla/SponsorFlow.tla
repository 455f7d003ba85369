---------------------------- MODULE SponsorFlow ----------------------------
(***************************************************************************)
(* Sponsored transactions from the wallet to the block: clients that use   *)
(* clients/src/client.ts, the sponsor service (bin/sponsor-service) that   *)
(* signs for what passes its policy, and the node.  The service handles    *)
(* requests concurrently, one step of the model between two awaits; a call *)
(* to the node may be lost, answered late or time out, and the client may  *)
(* send the same bytes again.                                              *)
(*                                                                         *)
(* A transaction uses all its gas at its maximal fee: the worst case for   *)
(* the account that pays.                                                  *)
(***************************************************************************)
EXTENDS TxCodec

CONSTANTS
  Executor,        \* the accounts of the clients
  Sponsor,         \* the account of the service
  LocalSponsor,    \* the sponsor account of a client that sponsors itself
  MaxRequests,     \* bound: the requests that are made
  Jobs,            \* what clients do: EvnodeSendArgs, the URL, who sponsors
  chainId,         \* the chain, and config.chainId
  maxGasLimitPerTx, maxFeePerGasLimit, minSponsorBalance,   \* config.ts
  gasPrice,        \* what eth_gasPrice answers
  Genesis,         \* the balances at the start
  MaxFaults        \* bound: lost calls, timeouts, repeated requests

VARIABLES
  reqs,      \* the requests: stage, executor, transaction, bytes, answer
  wire,      \* the eth_sendRawTransaction calls the node has not seen
  pool,      \* the transactions in the pool of the node
  mined,     \* the transactions in blocks, as stored, and who was charged
  bal,       \* the balances at the head
  nonce,     \* the nonces at the head
  approved,  \* history: what a sponsor signed
  peak,      \* history: the most sponsorships of the service open at once
  faults

system == <<reqs, wire, pool, mined, bal, nonce, approved, faults>>

vars == <<system, peak>>

Slot == 1..MaxRequests

Account == Executor \cup {Sponsor, LocalSponsor, Stranger}

MaxCost == maxGasLimitPerTx * maxFeePerGasLimit

ASSUME SponsorAssumption ==
  /\ {chainId, maxGasLimitPerTx, maxFeePerGasLimit, minSponsorBalance, gasPrice, MaxFaults}
       \subseteq Nat
  /\ Genesis \in [Account -> Nat] /\ Genesis[Stranger] = 0
  /\ MaxRequests \in Nat
  /\ Parity \in [Account -> {0, 1}]

(* The accounts are of different parties, and are accounts.                *)
ASSUME PartyAssumption ==
  /\ {Sponsor, LocalSponsor, Stranger} \cap Executor = {}
  /\ Sponsor # LocalSponsor /\ Stranger \notin {Sponsor, LocalSponsor}
  /\ None \notin Account

(* What EvnodeSendArgs leaves out is None.                                 *)
ASSUME JobsAssumption ==
  Jobs \subseteq [args : [calls : Seq(Call), chainId : Nat \cup {None},
                         maxFeePerGas : Nat \cup {None}, gasLimit : Nat \cup {None},
                         accessList : Seq(AccessListItem)],
                 route : {"node", "service"}, sponsored : BOOLEAN]

ASSUME AnswerAssumption == None \notin {"refused", "error", "ok"}

NoRequest == [stage |-> "idle", executor |-> None, tx |-> None, raw |-> None, route |-> None,
              sponsored |-> FALSE, try |-> 0, reply |-> None, answer |-> None]

Init ==
  /\ reqs = [r \in Slot |-> NoRequest]
  /\ wire = {} /\ pool = {} /\ mined = {}
  /\ bal = Genesis
  /\ nonce = [a \in Account |-> 0]
  /\ approved = {}
  /\ peak = 0 /\ faults = 0

At(r, stage) == reqs[r].stage = stage

Set(r, req) == reqs' = [reqs EXCEPT ![r] = req]

Answer(r, answer) == Set(r, [reqs[r] EXCEPT !.stage = "answered", !.answer = answer, !.reply = None])

(* A transaction of the pool or of a block, with the accounts the node     *)
(* recovered; payer is who pays for the gas.                               *)
Recovered(signed) ==
  LET e == recover_signer(signed)
  IN [signed |-> signed, tx |-> signed.transaction, from |-> e,
      payer |-> IF signed.transaction.feePayerSignature = NoSignature THEN e
                ELSE recover_sponsor(signed.transaction, e)]

IsSponsored(tx) == tx.feePayerSignature # NoSignature

Cost(tx) == tx.gasLimit * tx.maxFeePerGas

Value(tx) == SumOf([i \in DOMAIN tx.calls |-> tx.calls[i].value])

Unsigned(tx) == [tx EXCEPT !.feePayerSignature = NoSignature]

(***************************************************************************)
(* The client.  args.executor signs; a field that args leaves out is asked *)
(* of the node, the nonce as the number of pending transactions.           *)
(***************************************************************************)
Pending(e) == {t \in pool : t.from = e}

fetchNonce(e) ==
  CHOOSE n \in nonce[e]..(nonce[e] + Cardinality(Pending(e))) :
    /\ \A m \in nonce[e]..(n - 1) : \E t \in Pending(e) : t.tx.nonce = m
    /\ ~ \E t \in Pending(e) : t.tx.nonce = n

resolveBaseFields(e, args) ==
  [chainId |-> IF args.chainId = None THEN chainId ELSE args.chainId,
   nonce |-> fetchNonce(e),
   maxPriorityFeePerGas |-> 0,
   maxFeePerGas |-> IF args.maxFeePerGas = None THEN gasPrice ELSE args.maxFeePerGas,
   gasLimit |-> IF args.gasLimit = None THEN estimateIntrinsicGas(args.calls) ELSE args.gasLimit,
   calls |-> args.calls, accessList |-> args.accessList, feePayerSignature |-> NoSignature]

(* The call starts: the fields are resolved before anything is signed.     *)
(* Requests are numbered in the order they start.                          *)
Start(r, e, job) ==
  /\ At(r, "idle")
  /\ \A q \in 1..(r - 1) : ~At(q, "idle")
  /\ Set(r, [NoRequest EXCEPT !.stage = "draft", !.executor = e, !.route = job.route,
                              !.tx = resolveBaseFields(e, job.args),
                              !.sponsored = job.sponsored])
  /\ UNCHANGED <<wire, pool, mined, bal, nonce, approved, faults>>

(* sponsorIntent of the client.                                            *)
WithSponsor(tx, e, key) == [tx EXCEPT !.feePayerSignature = signAsSponsor(tx, e, key)]

Signed(tx, signature) == [transaction |-> tx, executorSignature |-> signature]

Post(r, req, raw) ==
  IF req.route = "node"
  THEN /\ wire' = wire \cup {[slot |-> r, try |-> req.try, raw |-> raw]}
       /\ Set(r, [req EXCEPT !.raw = raw, !.stage = "submit"])
  ELSE /\ wire' = wire
       /\ Set(r, [req EXCEPT !.raw = raw, !.stage = "service"])

(* sendEvNodeTransaction, or createSponsorableIntent and sponsorAndSend.   *)
SignAndSend(r) ==
  /\ At(r, "draft")
  /\ IF ~validateEvNodeTx(reqs[r].tx)
     THEN Answer(r, "invalid") /\ UNCHANGED <<wire, approved>>
     ELSE \E signature \in {signAsExecutor(reqs[r].tx, reqs[r].executor)} :
          \E tx \in {IF reqs[r].sponsored
                     THEN WithSponsor(reqs[r].tx, reqs[r].executor, LocalSponsor)
                     ELSE reqs[r].tx} :
          \E raw \in {encodeSignedTransaction(Signed(tx, signature))} :
            /\ Post(r, reqs[r], raw)
            /\ approved' = IF reqs[r].sponsored
                           THEN approved \cup {<<LocalSponsor, reqs[r].executor, reqs[r].tx>>}
                           ELSE approved
  /\ UNCHANGED <<pool, mined, bal, nonce, faults>>

(* The executor of a transaction it sponsored changes the fee and signs    *)
(* anew with the exported functions; the sponsor signature stays.          *)
Reprice(r) ==
  /\ At(r, "answered") /\ reqs[r].sponsored /\ faults < MaxFaults
  /\ reqs[r].raw # None
  /\ \E old \in {decodeEvNodeTransaction(reqs[r].raw).transaction} :
     \E tx \in {[old EXCEPT !.maxFeePerGas = @ + 1]} :
     \E signature \in {signAsExecutor(tx, reqs[r].executor)} :
     \E raw \in {encodeSignedTransaction(Signed(tx, signature))} :
       Post(r, [reqs[r] EXCEPT !.tx = Unsigned(tx), !.try = @ + 1], raw)
  /\ faults' = faults + 1
  /\ UNCHANGED <<pool, mined, bal, nonce, approved>>

(* A client sends its bytes again when the answer was an error.            *)
Resend(r) ==
  /\ At(r, "answered") /\ reqs[r].raw # None /\ reqs[r].answer # "ok" /\ faults < MaxFaults
  /\ Post(r, [reqs[r] EXCEPT !.try = @ + 1], reqs[r].raw)
  /\ faults' = faults + 1
  /\ UNCHANGED <<pool, mined, bal, nonce, approved>>

(***************************************************************************)
(* The service.                                                            *)
(***************************************************************************)
Submit(r, raw) ==
  /\ wire' = wire \cup {[slot |-> r, try |-> reqs[r].try, raw |-> raw]}
  /\ Set(r, [reqs[r] EXCEPT !.stage = "submit", !.reply = None])

(* Mutant: the gas limit is not checked.                                   *)
validate_any_gas(intent) ==
  /\ validateEvNodeTx(intent.tx)
  /\ intent.tx.chainId = chainId
  /\ recoverExecutor(Signed(intent.tx, intent.executorSignature)) = intent.executorAddress
  /\ intent.tx.maxFeePerGas <= maxFeePerGasLimit

validate(intent) ==
  /\ validateEvNodeTx(intent.tx)
  /\ intent.tx.chainId = chainId
  /\ recoverExecutor(Signed(intent.tx, intent.executorSignature)) = intent.executorAddress
  /\ intent.tx.gasLimit <= maxGasLimitPerTx
  /\ intent.tx.maxFeePerGas <= maxFeePerGasLimit

Intent(signed) ==
  [tx |-> signed.transaction, executorSignature |-> signed.executorSignature,
   executorAddress |-> recoverExecutor(signed)]

(* handleEvNodeSendRaw, up to the first call to the node.                  *)
HandleSendRaw(r) ==
  /\ At(r, "service")
  /\ \E signed \in {decodeEvNodeTransaction(reqs[r].raw)} :
       IF signed = Invalid
       THEN Answer(r, "refused") /\ wire' = wire
       ELSE IF signed.transaction.feePayerSignature # NoSignature
       THEN Submit(r, reqs[r].raw)
       ELSE \E intent \in {Intent(signed)} :
              /\ IF validate(intent)
                 THEN Set(r, [reqs[r] EXCEPT !.stage = "balance", !.reply = None])
                 ELSE Answer(r, "refused")
              /\ wire' = wire
  /\ UNCHANGED <<pool, mined, bal, nonce, approved, faults>>

(* The rest of sponsorIntent, when getBalance has answered.                *)
SubmitSponsored(r) ==
  \E signed \in {decodeEvNodeTransaction(reqs[r].raw)} :
  \E e \in {recoverExecutor(signed)} :
  \E tx \in {WithSponsor(signed.transaction, e, Sponsor)} :
  \E raw \in {encodeSignedTransaction(Signed(tx, signed.executorSignature))} :
    /\ Submit(r, raw)
    /\ approved' = approved \cup {<<Sponsor, e, signed.transaction>>}

(* Mutant: the balance is not compared.                                    *)
sponsorIntent_any_balance(r) ==
  /\ At(r, "balance") /\ reqs[r].reply # None
  /\ SubmitSponsored(r)
  /\ UNCHANGED <<pool, mined, bal, nonce, faults>>

(* Mutant: the transaction is sent before the balance is compared.         *)
sponsorIntent_send_first(r) ==
  /\ At(r, "balance") /\ reqs[r].reply # None
  /\ \E signed \in {decodeEvNodeTransaction(reqs[r].raw)} :
     \E e \in {recoverExecutor(signed)} :
     \E tx \in {WithSponsor(signed.transaction, e, Sponsor)} :
     \E raw \in {encodeSignedTransaction(Signed(tx, signed.executorSignature))} :
       /\ wire' = wire \cup {[slot |-> r, try |-> reqs[r].try, raw |-> raw]}
       /\ approved' = approved \cup {<<Sponsor, e, signed.transaction>>}
  /\ IF reqs[r].reply < minSponsorBalance
     THEN Answer(r, "refused")
     ELSE Set(r, [reqs[r] EXCEPT !.stage = "submit", !.reply = None])
  /\ UNCHANGED <<pool, mined, bal, nonce, faults>>

sponsorIntent(r) ==
  /\ At(r, "balance") /\ reqs[r].reply # None
  /\ IF reqs[r].reply < minSponsorBalance
     THEN Answer(r, "refused") /\ UNCHANGED <<wire, approved>>
     ELSE SubmitSponsored(r)
  /\ UNCHANGED <<pool, mined, bal, nonce, faults>>

Receive(r) ==
  /\ At(r, "submit") /\ reqs[r].reply # None
  /\ Answer(r, reqs[r].reply)
  /\ UNCHANGED <<wire, pool, mined, bal, nonce, approved, faults>>

(* Mutant: eth_sendRawTransaction without the signal that aborts it.       *)
Timeout_balance_only(r) ==
  /\ At(r, "balance")
  /\ Answer(r, "timeout")
  /\ UNCHANGED <<wire, pool, mined, bal, nonce, approved, faults>>

(* The call is given up after ten seconds; the node may see it later.      *)
Timeout(r) ==
  /\ reqs[r].stage \in {"balance", "submit"}
  /\ Answer(r, "timeout")
  /\ UNCHANGED <<wire, pool, mined, bal, nonce, approved, faults>>

(***************************************************************************)
(* The node: eth_getBalance, eth_sendRawTransaction, a block.              *)
(***************************************************************************)
AnswerBalance(r) ==
  /\ At(r, "balance") /\ reqs[r].reply = None
  /\ Set(r, [reqs[r] EXCEPT !.reply = bal[Sponsor]])
  /\ UNCHANGED <<wire, pool, mined, bal, nonce, approved, faults>>

Funded(t) ==
  IF IsSponsored(t.tx) THEN bal[t.payer] >= Cost(t.tx) /\ bal[t.from] >= Value(t.tx)
  ELSE bal[t.from] >= Cost(t.tx) + Value(t.tx)

SameSlot(t, u) == t.from = u.from /\ t.tx.nonce = u.tx.nonce

Accepts(t) ==
  /\ t.tx.chainId = chainId
  /\ t.tx.nonce >= nonce[t.from]
  /\ validateEvNodeTx(t.tx)
  /\ Funded(t)
  /\ \A u \in pool : SameSlot(t, u) => t.tx.maxFeePerGas > u.tx.maxFeePerGas

(* The call is answered if its caller still waits for it.                  *)
Reply(call, reply) ==
  reqs' = IF At(call.slot, "submit") /\ reqs[call.slot].try = call.try
          THEN [reqs EXCEPT ![call.slot].reply = reply]
          ELSE reqs

SendRawTransaction(call) ==
  /\ wire' = wire \ {call}
  /\ \E signed \in {decode_2718(call.raw)} :
       IF signed = Invalid THEN Reply(call, "error") /\ pool' = pool
       ELSE \E t \in {Recovered(signed)} :
              IF Accepts(t)
              THEN Reply(call, "ok") /\ pool' = {u \in pool : ~SameSlot(t, u)} \cup {t}
              ELSE Reply(call, "error") /\ pool' = pool
  /\ UNCHANGED <<mined, bal, nonce, approved, faults>>

LoseCall(call) ==
  /\ faults < MaxFaults
  /\ wire' = wire \ {call} /\ faults' = faults + 1
  /\ UNCHANGED <<reqs, pool, mined, bal, nonce, approved>>

(* The gas covers what the calls cost before they run; the data and the    *)
(* access list are not counted.                                            *)
validate_initial_tx_gas(tx) == CallGas(tx.calls) <= tx.gasLimit

(* A transaction is executed in a block, and stored; one that its payer    *)
(* can not pay for, or without that gas, stays in the pool.                *)
Mine(t) ==
  /\ t.tx.nonce = nonce[t.from]
  /\ validate_initial_tx_gas(t.tx)
  /\ Funded(t)
  /\ bal' = [[bal EXCEPT ![t.payer] = @ - Cost(t.tx)] EXCEPT ![t.from] = @ - Value(t.tx)]
  /\ nonce' = [nonce EXCEPT ![t.from] = @ + 1]
  /\ mined' = mined \cup {[stored |-> to_tx_compact(t.signed), charged |-> t.payer]}
  /\ pool' = pool \ {t}
  /\ UNCHANGED <<reqs, wire, approved, faults>>

(* Mutant: the sponsor is recovered for itself, not for the signer.        *)
convert_receipts_unbound(signed, signer) ==
  IF IsSponsored(signed.transaction) THEN recover_sponsor(signed.transaction, Sponsor) ELSE None

(* The fee payer that eth_getTransactionReceipt reports, from the stored   *)
(* transaction and the signer recovered of it.                             *)
convert_receipts(signed, signer) ==
  IF IsSponsored(signed.transaction) THEN recover_sponsor(signed.transaction, signer) ELSE None

(* The same for eth_getTransactionByHash.                                  *)
convert_rpc_tx(signed, signer) ==
  IF IsSponsored(signed.transaction) THEN recover_sponsor(signed.transaction, signer) ELSE None

(***************************************************************************)
(* The sponsorships of the service that may still be charged: the balance  *)
(* was read and found sufficient, and no block has used the nonce.         *)
(***************************************************************************)
Open ==
  {<<reqs[r].executor, reqs[r].tx.nonce>> :
     r \in {q \in Slot : At(q, "balance") /\ reqs[q].reply # None
                           /\ reqs[q].reply >= minSponsorBalance}}
  \cup {<<a[2], a[3].nonce>> :
          a \in {b \in approved : b[1] = Sponsor /\ b[3].nonce >= nonce[b[2]]}}

Step ==
  \/ \E r \in Slot :
       \/ \E e \in Executor, job \in Jobs : Start(r, e, job)
       \/ SignAndSend(r) \/ Reprice(r) \/ Resend(r)
       \/ HandleSendRaw(r) \/ sponsorIntent(r) \/ Receive(r) \/ Timeout(r)
       \/ AnswerBalance(r)
  \/ \E call \in wire : SendRawTransaction(call) \/ LoseCall(call)
  \/ \E t \in pool : Mine(t)

Next ==
  /\ Step
  /\ peak' = IF Cardinality(Open') > peak THEN Cardinality(Open') ELSE peak

(* The event loop of the service takes up a request it received, and a     *)
(* timer that is set fires.  Nothing is assumed of the node, the network   *)
(* or the clients.                                                         *)
Fairness == \A r \in Slot : WF_system(HandleSendRaw(r)) /\ WF_system(Timeout(r))

Spec == Init /\ [][Next]_vars /\ Fairness

(***************************************************************************)
(* Properties.                                                             *)
(***************************************************************************)
Raws ==
  {reqs[r].raw : r \in {q \in Slot : At(q, "service")}} \cup {c.raw : c \in wire}

(* Whatever bytes travel, the client library and the node read the same    *)
(* transaction, executor and sponsor in them, before and after a sponsor   *)
(* has signed, re-encoding included; and a transaction that comes back     *)
(* from the database has the hash and the parties it went in with.         *)
SignersAgree ==
  \A raw \in Raws : \A ts \in {decodeEvNodeTransaction(raw)}, rs \in {decode_2718(raw)} :
    rs # Invalid => \A t \in {Recovered(rs)} :
      /\ ts = rs
      /\ recoverExecutor(ts) = t.from /\ t.from \in Executor
      /\ recoverSponsor(t.tx, t.from) = IF IsSponsored(t.tx) THEN t.payer ELSE None
      /\ decode_2718(encodeSignedTransaction(ts)) = rs
      /\ decodeEvNodeTransaction(encode_2718(rs)) = ts
      /\ Recovered(from_tx_compact(to_tx_compact(rs))) = t

(* A sponsor is charged only for a transaction it signed, for the executor *)
(* it signed it for and with every field as signed; the account of the     *)
(* service only within its policy, whoever sent the bytes and how often.   *)
ChargesAreApproved ==
  \A m \in mined : \A t \in {Recovered(from_tx_compact(m.stored))} : IsSponsored(t.tx) =>
    /\ <<m.charged, t.from, Unsigned(t.tx)>> \in approved
    /\ m.charged = Sponsor => Cost(t.tx) <= MaxCost

(* What the RPC of the node says of a mined transaction is who paid: the   *)
(* fee payer of the receipt and of the transaction, which are recovered    *)
(* from the database at each query, or the sender where there is none.     *)
ReportsAreTrue ==
  \A m \in mined : \A signed \in {from_tx_compact(m.stored)} :
    \A signer \in {recover_signer(signed)} : \A payer \in {convert_receipts(signed, signer)} :
      /\ convert_rpc_tx(signed, signer) = payer
      /\ m.charged = IF payer = None THEN signer ELSE payer

(* The check of the balance is not atomic with the charge, and the balance *)
(* does not know the pool: the account of the service may fall below       *)
(* minSponsorBalance (or what it had, if that was less), but by no more    *)
(* than one transaction of the policy for each sponsorship that was open   *)
(* at once.                                                                *)
OverdraftIsBounded ==
  bal[Sponsor] + peak * MaxCost
    >= IF Genesis[Sponsor] < minSponsorBalance THEN Genesis[Sponsor] ELSE minSponsorBalance

(* A refusal is clean: what the service signed belongs to a request that   *)
(* it did not refuse, or that it refused only when it was repeated.        *)
RefusedIsUnsponsored ==
  \A a \in approved : a[1] = Sponsor =>
    \E r \in Slot : /\ reqs[r].executor = a[2] /\ reqs[r].tx = a[3]
                    /\ reqs[r].answer # "refused" \/ reqs[r].try > 0

(* Every request that reaches the service is answered, whatever becomes of *)
(* the node and of the calls to it.                                        *)
EventuallyAnswered ==
  \A r \in Slot : At(r, "service") ~> At(r, "answered")

=============================================================================
