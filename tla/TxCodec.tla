------------------------------ MODULE TxCodec ------------------------------
(***************************************************************************)
(* The EvNode transaction (type 0x76) on the wire, as the two programs     *)
(* that speak it write and read it: the node (ev-primitives/src/tx.rs) and *)
(* the TypeScript client (clients/src/encoding.ts, signing.ts).  Each has  *)
(* an encoder, a decoder and the two signing hashes of its own.            *)
(*                                                                         *)
(* A byte string is a sequence, of digits for a number.  RLP is an         *)
(* injective code of trees of byte strings, so an encoding is the tree.    *)
(* keccak is injective, so a hash is what it hashes.                       *)
(***************************************************************************)
EXTENDS Naturals, Sequences, FiniteSets, Iterators

CONSTANTS
  None,       \* an absent value
  Opaque,     \* the addresses, bytes and storage keys that are only passed on
  Invalid,    \* the result of a decoder that refuses its input
  Stranger,   \* the account that a signature of something else recovers
  Parity,     \* the parity bit of the signatures of a key
  MaxWord     \* bound: what a u64 or u128 of the node holds

ASSUME WordAssumption == MaxWord \in Nat \ {0}

TxType == 118          \* EVNODE_TX_TYPE_ID, EVNODE_TX_TYPE, EVNODE_EXECUTOR_DOMAIN: 0x76
SponsorDomain == 120   \* EVNODE_SPONSOR_DOMAIN: 0x78

Str(bytes) == <<"str", bytes>>
List(items) == <<"list", items>>

Empty == Str(<<>>)

(* An optional signature that is absent.                                   *)
NoSignature == <<>>

(* Call and AccessListItem.                                                *)
Call == [to : Opaque \cup {None}, value : Nat, data : Seq(Opaque)]
AccessListItem == [address : Opaque, keys : Seq(Opaque)]

(* A number in base two, big endian, without leading zeros.                *)
digits[n \in Nat] == IF n = 0 THEN <<>> ELSE Append(digits[n \div 2], n % 2)

Number(bytes) == Fold(bytes, 0, [n \in Nat |-> [digit \in Nat |-> 2 * n + digit]])

Mapped(Op(_), s) == [i \in DOMAIN s |-> Op(s[i])]

(* A signature: the pair (r, s) and the byte v.                            *)
Sign(key, hash) == [rs |-> <<key, hash>>, v |-> 27 + Parity[key]]

Recover(hash, signature) ==
  IF signature.rs[2] = hash /\ signature.v = Parity[signature.rs[1]]
  THEN signature.rs[1] ELSE Stranger

(***************************************************************************)
(* The client.                                                             *)
(***************************************************************************)
rlpHexFromBigInt(n) == Str(digits[n])

hexToBigIntSafe(item) == Number(item[2])

normalizeSignature(signature) ==
  [signature EXCEPT !.v = IF @ \in {27, 28} THEN @ - 27 ELSE @]

encodeCall(c) ==
  List(<<IF c.to = None THEN Empty ELSE Str(<<c.to>>), rlpHexFromBigInt(c.value), Str(c.data)>>)

encodeCalls(calls) == List(Mapped(encodeCall, calls))

decodeCall(item) ==
  [to |-> IF item[2][1] = Empty THEN None ELSE item[2][1][2][1],
   value |-> hexToBigIntSafe(item[2][2]), data |-> item[2][3][2]]

decodeCalls(item) == Mapped(decodeCall, item[2])

(* An address or a storage key is a byte string of its own.                *)
encodeWord(word) == Str(<<word>>)

decodeWord(item) == item[2][1]

encodeAccess(a) == List(<<encodeWord(a.address), List(Mapped(encodeWord, a.keys))>>)

encodeAccessList(list) == List(Mapped(encodeAccess, list))

decodeAccess(item) ==
  [address |-> decodeWord(item[2][1]), keys |-> Mapped(decodeWord, item[2][2][2])]

decodeAccessList(item) == Mapped(decodeAccess, item[2])

(* The 65 bytes of the signature are its pair and the byte v, here 0 or 1. *)
encodeSponsorSignature(signature) ==
  LET normalized == normalizeSignature(signature)
  IN Str(<<normalized.rs, normalized.v>>)

(* What the decoder of a signature does not throw at, and what it reads.   *)
isSignatureBytes(bytes) == Len(bytes) = 2 /\ bytes[2] \in {0, 1, 27, 28}

signatureFromBytes(bytes) ==
  [rs |-> bytes[1], v |-> IF bytes[2] \in {27, 28} THEN bytes[2] - 27 ELSE bytes[2]]

isSignatureParts(v) == hexToBigIntSafe(v) \in {0, 1}

signatureFromParts(v, rs) == [rs |-> rs[2], v |-> hexToBigIntSafe(v)]

isSignature(item) ==
  \/ item = Empty
  \/ item[1] = "list" /\ isSignatureParts(item[2][1])
  \/ item[1] = "str" /\ isSignatureBytes(item[2])

decodeSignature(item) ==
  IF item = Empty THEN NoSignature
  ELSE IF item[1] = "list" THEN signatureFromParts(item[2][1], item[2][2])
  ELSE signatureFromBytes(item[2])

buildPayloadFields(tx, includeSponsorSig) ==
  <<rlpHexFromBigInt(tx.chainId), rlpHexFromBigInt(tx.nonce),
    rlpHexFromBigInt(tx.maxPriorityFeePerGas), rlpHexFromBigInt(tx.maxFeePerGas),
    rlpHexFromBigInt(tx.gasLimit), encodeCalls(tx.calls), encodeAccessList(tx.accessList),
    IF includeSponsorSig /\ tx.feePayerSignature # NoSignature
    THEN encodeSponsorSignature(tx.feePayerSignature) ELSE Empty>>

(* The pair (r, s) of the executor is one item of the envelope.            *)
encodeSignedTransaction(signed) ==
  LET execSig == normalizeSignature(signed.executorSignature)
  IN <<TxType, List(buildPayloadFields(signed.transaction, TRUE)
                      \o <<rlpHexFromBigInt(execSig.v), Str(execSig.rs)>>)>>

decodeEvNodeTransaction(raw) ==
  LET f == raw[2][2]
  IN IF \/ raw[1] # TxType \/ Len(f) # 10
        \/ ~isSignature(f[8]) \/ ~isSignatureParts(f[9])
     THEN Invalid
     ELSE [transaction |->
             [chainId |-> hexToBigIntSafe(f[1]), nonce |-> hexToBigIntSafe(f[2]),
              maxPriorityFeePerGas |-> hexToBigIntSafe(f[3]),
              maxFeePerGas |-> hexToBigIntSafe(f[4]), gasLimit |-> hexToBigIntSafe(f[5]),
              calls |-> decodeCalls(f[6]), accessList |-> decodeAccessList(f[7]),
              feePayerSignature |-> decodeSignature(f[8])],
           executorSignature |-> signatureFromParts(f[9], f[10])]

(* Mutant: the executor signs over the sponsor signature too.              *)
computeExecutorSigningHash_full(tx) == <<TxType, List(buildPayloadFields(tx, TRUE))>>

computeExecutorSigningHash(tx) == <<TxType, List(buildPayloadFields(tx, FALSE))>>

(* No list header: the fields follow the address.                          *)
computeSponsorSigningHash(tx, executor) ==
  <<SponsorDomain, executor>> \o buildPayloadFields(tx, FALSE)

recoverExecutor(signed) ==
  Recover(computeExecutorSigningHash(signed.transaction),
          normalizeSignature(signed.executorSignature))

recoverSponsor(tx, executor) ==
  IF tx.feePayerSignature = NoSignature THEN None
  ELSE Recover(computeSponsorSigningHash(tx, executor),
               normalizeSignature(tx.feePayerSignature))

signAsExecutor(tx, signer) == Sign(signer, computeExecutorSigningHash(tx))

signAsSponsor(tx, executor, signer) == Sign(signer, computeSponsorSigningHash(tx, executor))

(* In units of 21000 gas; a CREATE takes one more, no data is counted.     *)
CallGas(calls) == Len(calls) + Cardinality({i \in DOMAIN calls : calls[i].to = None})

estimateIntrinsicGas(calls) == 1 + CallGas(calls)

validateEvNodeTx(tx) ==
  /\ tx.calls # <<>>
  /\ \A i \in 2..Len(tx.calls) : tx.calls[i].to # None

(***************************************************************************)
(* The node.                                                               *)
(***************************************************************************)
encode_int(n) == Str(digits[n])

(* The decoder of alloy takes the shortest form of a number that fits; the *)
(* widths of the fields (u64, u128, U256) share one bound.                 *)
decode_int(item) ==
  IF item[2] # <<>> /\ item[2][1] = 0 THEN Invalid
  ELSE IF Number(item[2]) > MaxWord THEN Invalid
  ELSE Number(item[2])

encode_call(call) ==
  List(<<IF call.to = None THEN Empty ELSE Str(<<call.to>>), encode_int(call.value),
         Str(call.data)>>)

decode_call(item) ==
  LET kind == item[2][1]
  IN [to |-> IF kind = Empty THEN None ELSE kind[2][1], value |-> decode_int(item[2][2]),
      data |-> item[2][3][2]]

encode_access(entry) == List(<<encodeWord(entry.address), List(Mapped(encodeWord, entry.keys))>>)

decode_access(item) ==
  [address |-> decodeWord(item[2][1]), keys |-> Mapped(decodeWord, item[2][2][2])]

(* Signature::as_bytes writes v as 27 or 28.                               *)
encode_optional_signature(signature) ==
  IF signature = NoSignature THEN Empty ELSE Str(<<signature.rs, 27 + signature.v>>)

(* Signature::from_raw_array takes v as 0, 1, 27, 28 or from 35 on.        *)
decode_optional_signature(item) ==
  IF item[1] = "list" THEN Invalid
  ELSE IF item[2] = <<>> THEN NoSignature
  ELSE IF Len(item[2]) # 2 THEN Invalid
  ELSE LET v == item[2][2]
       IN IF v \in {0, 1} THEN [rs |-> item[2][1], v |-> v]
          ELSE IF v \in {27, 28} THEN [rs |-> item[2][1], v |-> v - 27]
          ELSE IF v >= 35 THEN [rs |-> item[2][1], v |-> (v - 35) % 2]
          ELSE Invalid

encode_payload_fields(tx, signature) ==
  <<encode_int(tx.chainId), encode_int(tx.nonce), encode_int(tx.maxPriorityFeePerGas),
    encode_int(tx.maxFeePerGas), encode_int(tx.gasLimit), List(Mapped(encode_call, tx.calls)),
    List(Mapped(encode_access, tx.accessList)), encode_optional_signature(signature)>>

rlp_decode_fields(f) ==
  IF \/ \E i \in 1..5 : decode_int(f[i]) = Invalid
     \/ \E i \in DOMAIN f[6][2] : decode_int(f[6][2][i][2][2]) = Invalid
     \/ decode_optional_signature(f[8]) = Invalid
  THEN Invalid
  ELSE [chainId |-> decode_int(f[1]), nonce |-> decode_int(f[2]),
        maxPriorityFeePerGas |-> decode_int(f[3]), maxFeePerGas |-> decode_int(f[4]),
        gasLimit |-> decode_int(f[5]), calls |-> Mapped(decode_call, f[6][2]),
        accessList |-> Mapped(decode_access, f[7][2]),
        feePayerSignature |-> decode_optional_signature(f[8])]

encoded_payload(tx, signature) == List(encode_payload_fields(tx, signature))

(* No list header here either.                                             *)
encoded_payload_with_executor(tx, executor) ==
  <<executor>> \o encode_payload_fields(tx, NoSignature)

executor_signing_hash(tx) == <<TxType, encoded_payload(tx, NoSignature)>>

sponsor_signing_hash(tx, executor) ==
  <<SponsorDomain>> \o encoded_payload_with_executor(tx, executor)

rlp_encode_fields(tx) == encode_payload_fields(tx, tx.feePayerSignature)

(* Signed<EvNodeTransaction> on the wire, and the hash of a transaction.   *)
encode_2718(signed) ==
  <<TxType, List(rlp_encode_fields(signed.transaction)
                   \o <<encode_int(signed.executorSignature.v),
                        Str(signed.executorSignature.rs)>>)>>

decode_2718(raw) ==
  IF raw[1] # TxType \/ Len(raw[2][2]) # 10 THEN Invalid
  ELSE LET tx == rlp_decode_fields(raw[2][2])
           v == decode_int(raw[2][2][9])
       IN IF tx = Invalid \/ v \notin {0, 1} THEN Invalid
          ELSE [transaction |-> tx,
                executorSignature |-> [rs |-> raw[2][2][10][2], v |-> v]]

recover_signer(signed) ==
  Recover(executor_signing_hash(signed.transaction), signed.executorSignature)

recover_sponsor(tx, executor) ==
  Recover(sponsor_signing_hash(tx, executor), tx.feePayerSignature)

(* In the database: the payload as an RLP list, beside it the type and the *)
(* executor signature.  The hash is computed anew when it is read.         *)
to_compact(tx) == List(rlp_encode_fields(tx))

from_compact(stored) == rlp_decode_fields(stored[2])

to_tx_compact(signed) ==
  <<TxType, signed.executorSignature, to_compact(signed.transaction)>>

from_tx_compact(stored) ==
  [transaction |-> from_compact(stored[3]), executorSignature |-> stored[2]]

=============================================================================
