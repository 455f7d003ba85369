-------------------------- MODULE SponsorFlowProofs --------------------------
(***************************************************************************)
(* Proofs about SponsorFlow and the codec under it, for all constants: the *)
(* two programs read the same in the same bytes, a sponsor is charged only *)
(* for what it signed, the RPC reports who paid, a refusal is clean, and   *)
(* the overdraft of the service is bounded.                                *)
(***************************************************************************)
EXTENDS SponsorFlow, IteratorsProofs, FiniteSetTheorems

(* Most steps are first-order reasoning, which Zenon does; those with      *)
(* arithmetic, records or sequences name SMT.                              *)
USE Zenon

-----------------------------------------------------------------------------
(* Numbers.                                                                *)

(* The binary digits that digits and Number use.                           *)
Bit == {0, 1}

(* A number is twice its half and its last digit.                          *)
LEMMA Halves ==
  ASSUME NEW n \in Nat
  PROVE  /\ n \div 2 \in Nat /\ n % 2 \in Bit
         /\ n = 2 * (n \div 2) + (n % 2)
         /\ n # 0 => n \div 2 < n
BY SMT DEF Bit

(* Induction along the digits: from the half of a number to the number.    *)
LEMMA HalvingInductive ==
  ASSUME NEW B \in SUBSET Nat, 0 \in B,
         \A n \in Nat : n # 0 /\ n \div 2 \in B => n \in B
  PROVE  B = Nat
<1> SUFFICES ASSUME B # Nat PROVE FALSE
  OBVIOUS
<1> DEFINE C == Nat \ B
<1>1. C \in SUBSET Nat /\ C # {}
  OBVIOUS
<1> HIDE DEF C
<1>2. PICK m \in C : \A k \in C : m <= k
  BY <1>1, LeastNatural
<1>3. QED
  BY <1>2, Halves, SMT DEF C

(* One unfolding of the recursive function digits.                         *)
DigitStep(f, n) == IF n = 0 THEN <<>> ELSE Append(f[n \div 2], n % 2)

(* The digits of the numbers up to k, computed from each other.            *)
Table(k) == {f \in [0 .. k -> Seq(Bit)] : \A n \in 0 .. k : f[n] = DigitStep(f, n)}

(* There is such a table for every k.                                      *)
LEMMA TableExists ==
  \A k \in Nat : \E f : f \in Table(k)
<1> DEFINE B == {k \in Nat : \E f : f \in Table(k)}
<1>1. 0 \in B
  <2> DEFINE z == [n \in 0 .. 0 |-> <<>>]
  <2>1. z \in [0 .. 0 -> Seq(Bit)] /\ \A n \in 0 .. 0 : z[n] = DigitStep(z, n)
    BY SMT DEF DigitStep
  <2>2. QED
    BY <2>1 DEF Table
<1>2. ASSUME NEW k \in B PROVE k + 1 \in B
  <2>1. PICK f : f \in Table(k)
    OBVIOUS
  <2>2. f \in [0 .. k -> Seq(Bit)] /\ \A n \in 0 .. k : f[n] = DigitStep(f, n)
    BY <2>1 DEF Table
  <2> DEFINE h == (k + 1) \div 2
             d == (k + 1) % 2
             g == [n \in 0 .. k + 1 |-> IF n = k + 1 THEN Append(f[h], d) ELSE f[n]]
  <2>3. h \in 0 .. k /\ d \in Bit
    BY Halves, SMT
  <2> HIDE DEF h, d
  <2>4. g \in [0 .. k + 1 -> Seq(Bit)]
    BY <2>2, <2>3, SMT
  <2>5. g[k + 1] = DigitStep(g, k + 1)
    BY <2>3, SMT DEF DigitStep, h, d
  <2>6. ASSUME NEW n \in 0 .. k PROVE g[n] = DigitStep(g, n)
    <3>1. g[n] = f[n] /\ f[n] = DigitStep(f, n)
      BY <2>2, SMT
    <3>2. n # 0 => g[n \div 2] = f[n \div 2]
      BY Halves, SMT
    <3>3. QED
      BY <3>1, <3>2 DEF DigitStep
  <2>7. \A n \in 0 .. k + 1 : g[n] = DigitStep(g, n)
    <3>1. \A n \in 0 .. k + 1 : n = k + 1 \/ n \in 0 .. k
      BY SMT
    <3>2. QED
      BY <2>5, <2>6, <3>1
  <2>8. g \in Table(k + 1)
    BY <2>4, <2>7 DEF Table
  <2>9. QED
    BY <2>8, SMT
<1>3. B = Nat
  <2>1. B \in SUBSET Nat
    OBVIOUS
  <2> HIDE DEF B
  <2>2. QED
    BY <1>1, <1>2, <2>1, NatInductive
<1>4. QED
  BY <1>3

(* Two tables agree where both have an entry.                              *)
LEMMA TableUnique ==
  ASSUME NEW j \in Nat, NEW k \in Nat, NEW f \in Table(j), NEW g \in Table(k)
  PROVE  \A n \in Nat : n <= j /\ n <= k => f[n] = g[n]
<1> DEFINE B == {n \in Nat : n <= j /\ n <= k => f[n] = g[n]}
<1>1. \A n \in 0 .. j : f[n] = DigitStep(f, n)
  BY DEF Table
<1>2. \A n \in 0 .. k : g[n] = DigitStep(g, n)
  BY DEF Table
<1>3. 0 \in B
  BY <1>1, <1>2, SMT DEF DigitStep
<1>4. ASSUME NEW n \in Nat, n # 0, n \div 2 \in B PROVE n \in B
  <2>1. SUFFICES ASSUME n <= j, n <= k PROVE f[n] = g[n]
    OBVIOUS
  <2>2. QED
    BY <1>1, <1>2, <1>4, <2>1, Halves, SMT DEF DigitStep
<1>5. B = Nat
  <2>1. B \in SUBSET Nat
    OBVIOUS
  <2> HIDE DEF B
  <2>2. QED
    BY <1>3, <1>4, <2>1, HalvingInductive
<1>6. QED
  BY <1>5

(* digits is the function its recursive definition says it is.             *)
LEMMA DigitsDef ==
  /\ digits[0] = <<>>
  /\ \A n \in Nat : n # 0 => digits[n] = Append(digits[n \div 2], n % 2)
<1> DEFINE T(n) == CHOOSE f : f \in Table(n)
           h == [n \in Nat |-> T(n)[n]]
           E(f) == [n \in Nat |-> IF n = 0 THEN <<>> ELSE Append(f[n \div 2], n % 2)]
<1>1. \A n \in Nat : T(n) \in Table(n)
  BY TableExists
<1> HIDE DEF T
<1>2. ASSUME NEW n \in Nat PROVE h[n] = IF n = 0 THEN <<>> ELSE Append(h[n \div 2], n % 2)
  <2>1. T(n)[n] = DigitStep(T(n), n)
    BY <1>1, SMT DEF Table
  <2>2. ASSUME n # 0 PROVE T(n)[n \div 2] = h[n \div 2]
    <3>1. n \div 2 \in Nat /\ n \div 2 <= n
      BY Halves, SMT
    <3>2. T(n)[n \div 2] = T(n \div 2)[n \div 2]
      BY <1>1, <3>1, TableUnique, SMT
    <3>3. QED
      BY <3>1, <3>2
  <2>3. h[n] = T(n)[n]
    OBVIOUS
  <2> HIDE DEF h
  <2>4. QED
    BY <2>1, <2>2, <2>3 DEF DigitStep
<1>3. h = E(h)
  <2>1. h = [n \in Nat |-> h[n]]
    OBVIOUS
  <2> HIDE DEF h
  <2>2. QED
    BY <1>2, <2>1
<1>4. digits = CHOOSE f : f = E(f)
  BY DEF digits
<1>5. digits = E(digits)
  <2> HIDE DEF h, E
  <2>1. QED
    BY <1>3, <1>4
<1>6. QED
  BY <1>5

(* The digits are bits, and the first of them is not a zero.               *)
LEMMA DigitsAreCanonical ==
  \A n \in Nat : /\ digits[n] \in Seq(Bit)
                 /\ n # 0 => digits[n] # <<>> /\ digits[n][1] # 0
<1> DEFINE B == {n \in Nat : /\ digits[n] \in Seq(Bit)
                             /\ n # 0 => digits[n] # <<>> /\ digits[n][1] # 0}
<1>1. 0 \in B
  <2>1. digits[0] = <<>> /\ <<>> \in Seq(Bit)
    BY DigitsDef, SMT
  <2>2. QED
    BY <2>1
<1>2. ASSUME NEW n \in Nat, n # 0, n \div 2 \in B PROVE n \in B
  <2> DEFINE m == n \div 2
             d == n % 2
             v == digits[m]
  <2>1. m \in Nat /\ d \in Bit /\ n = 2 * m + d
    BY Halves
  <2>2. v \in Seq(Bit) /\ (m # 0 => v # <<>> /\ v[1] # 0)
    BY <1>2
  <2>3. digits[n] = Append(v, d)
    BY <1>2, DigitsDef
  <2>4. m = 0 => v = <<>> /\ d = 1
    BY <1>2, DigitsDef, SMT DEF Bit
  <2> HIDE DEF m, d, v
  <2>5. Append(v, d) \in Seq(Bit) /\ Append(v, d) # <<>>
    BY <2>1, <2>2, SMT
  <2>6. Append(v, d)[1] # 0
    <3>1. CASE m = 0
      BY <2>4, <3>1, SMT
    <3>2. CASE m # 0
      BY <2>2, <3>2, SMT
    <3>3. QED
      BY <3>1, <3>2
  <2>7. QED
    BY <2>3, <2>5, <2>6
<1>3. B = Nat
  <2>1. B \in SUBSET Nat
    OBVIOUS
  <2> HIDE DEF B
  <2>2. QED
    BY <1>1, <1>2, <2>1, HalvingInductive
<1>4. QED
  BY <1>3

(* The number of no digits, and of one more digit.                         *)
LEMMA NumberDef ==
  /\ Number(<<>>) = 0
  /\ \A v \in Seq(Bit), d \in Bit :
       Number(v) \in Nat /\ Number(Append(v, d)) = 2 * Number(v) + d
<1> DEFINE step == [n \in Nat |-> [digit \in Nat |-> 2 * n + digit]]
<1>1. FoldLaws(Nat, Nat, 0, step)
  <2>1. step \in [Nat -> [Nat -> Nat]]
    BY SMT
  <2> HIDE DEF step
  <2>2. QED
    BY <2>1, FoldAppend
<1>2. \A v : Number(v) = Fold(v, 0, step)
  BY DEF Number
<1>3. \A n, d \in Nat : step[n][d] = 2 * n + d
  OBVIOUS
<1> HIDE DEF step
<1>4. ASSUME NEW v \in Seq(Bit), NEW d \in Bit
      PROVE  Number(v) \in Nat /\ Number(Append(v, d)) = 2 * Number(v) + d
  <2>1. v \in Seq(Nat) /\ d \in Nat
    BY SMT DEF Bit
  <2>2. Fold(v, 0, step) \in Nat
    BY <1>1, <2>1 DEF FoldLaws
  <2>3. Fold(Append(v, d), 0, step) = step[Fold(v, 0, step)][d]
    BY <1>1, <2>1 DEF FoldLaws
  <2>4. Number(v) = Fold(v, 0, step) /\ Number(Append(v, d)) = Fold(Append(v, d), 0, step)
    BY <1>2
  <2>5. QED
    BY <1>3, <2>1, <2>2, <2>3, <2>4
<1>5. QED
  BY <1>1, <1>2, <1>4 DEF FoldLaws

(* The number of the digits of a number is the number.                     *)
LEMMA NumberOfDigits ==
  \A n \in Nat : Number(digits[n]) = n
<1> DEFINE B == {n \in Nat : Number(digits[n]) = n}
<1>1. 0 \in B
  BY DigitsDef, NumberDef
<1>2. ASSUME NEW n \in Nat, n # 0, n \div 2 \in B PROVE n \in B
  <2> DEFINE m == n \div 2
             d == n % 2
  <2>1. m \in Nat /\ d \in Bit /\ n = 2 * m + d
    BY Halves
  <2>2. digits[n] = Append(digits[m], d)
    BY <1>2, DigitsDef
  <2>3. Number(digits[m]) = m
    BY <1>2
  <2> HIDE DEF m, d
  <2>4. digits[m] \in Seq(Bit)
    BY <2>1, DigitsAreCanonical
  <2>5. Number(digits[n]) = 2 * m + d
    BY <2>1, <2>2, <2>3, <2>4, NumberDef
  <2>6. QED
    BY <2>1, <2>5
<1>3. B = Nat
  <2>1. B \in SUBSET Nat
    OBVIOUS
  <2> HIDE DEF B
  <2>2. QED
    BY <1>1, <1>2, <2>1, HalvingInductive
<1>4. QED
  BY <1>3

(* What the two integer decoders read in the digits of n.                  *)
Word(n) == IF n > MaxWord THEN Invalid ELSE n

(* Both decoders read in the digits that encode n the number n, the node   *)
(* up to its largest word.                                                 *)
LEMMA IntegerRead ==
  ASSUME NEW n \in Nat
  PROVE  /\ hexToBigIntSafe(Str(digits[n])) = n
         /\ decode_int(Str(digits[n])) = Word(n)
BY DigitsAreCanonical, DigitsDef, NumberOfDigits DEF hexToBigIntSafe, decode_int,
   Word, Str

-----------------------------------------------------------------------------
(* Calls and access lists.                                                 *)

(* What is mapped and mapped back is what it was, element by element.      *)
LEMMA CallRead ==
  ASSUME NEW c \in Call
  PROVE  /\ decodeCall(encodeCall(c)) = c
         /\ encode_call(c) = encodeCall(c)
         /\ decode_int(encodeCall(c)[2][2]) = Word(c.value)
         /\ decode_call(encodeCall(c)) = [c EXCEPT !.value = Word(c.value)]
<1> DEFINE to == IF c.to = None THEN Empty ELSE Str(<<c.to>>)
           val == Str(digits[c.value])
           item == <<to, val, Str(c.data)>>
<1>1. c.value \in Nat /\ c = [to |-> c.to, value |-> c.value, data |-> c.data]
  BY DEF Call
<1>2. encodeCall(c) = <<"list", item>> /\ encode_call(c) = <<"list", item>>
  BY DEF encodeCall, encode_call, rlpHexFromBigInt, encode_int, List
<1>3. hexToBigIntSafe(val) = c.value /\ decode_int(val) = Word(c.value)
  BY <1>1, IntegerRead
<1>4. (IF to = Empty THEN None ELSE to[2][1]) = c.to
  BY DEF Str, Empty
<1> HIDE DEF to, val
<1>5. encodeCall(c)[2][1] = to /\ encodeCall(c)[2][2] = val /\ encodeCall(c)[2][3][2] = c.data
  BY <1>2, SMT DEF Str
<1>6. decodeCall(encodeCall(c)) = c
  BY <1>1, <1>3, <1>4, <1>5 DEF decodeCall
<1>7. decode_call(encodeCall(c)) = [c EXCEPT !.value = Word(c.value)]
  BY <1>1, <1>3, <1>4, <1>5, SMT DEF decode_call
<1>8. QED
  BY <1>2, <1>3, <1>5, <1>6, <1>7

(* A word that is read is the number that was written.                     *)
LEMMA WordRead ==
  \A n : Word(n) # Invalid => Word(n) = n
BY DEF Word

(* A list of calls is read as it was written, by the client; by the node   *)
(* if all the values are words.                                            *)
LEMMA CallsRead ==
  ASSUME NEW calls \in Seq(Call)
  PROVE  LET items == encodeCalls(calls)[2]
         IN  /\ decodeCalls(encodeCalls(calls)) = calls
             /\ DOMAIN items = DOMAIN calls
             /\ \A i \in DOMAIN calls : decode_int(items[i][2][2]) = Word(calls[i].value)
             /\ (\A i \in DOMAIN calls : Word(calls[i].value) # Invalid)
                  => Mapped(decode_call, items) = calls
<1> DEFINE items == encodeCalls(calls)[2]
<1>1. items = [i \in DOMAIN calls |-> encodeCall(calls[i])]
  BY DEF encodeCalls, List, Mapped
<1>2. decodeCalls(encodeCalls(calls)) = [i \in DOMAIN items |-> decodeCall(items[i])]
  BY DEF decodeCalls, Mapped
<1> HIDE DEF items
<1>3. \A i \in DOMAIN calls : calls[i] \in Call
  BY SMT
<1>4. DOMAIN items = DOMAIN calls /\ \A i \in DOMAIN calls : items[i] = encodeCall(calls[i])
  BY <1>1
<1>5. calls = [i \in DOMAIN calls |-> calls[i]]
  BY SMT
<1>6. \A i \in DOMAIN calls : decodeCall(items[i]) = calls[i]
  BY <1>3, <1>4, CallRead
<1>7. decodeCalls(encodeCalls(calls)) = calls
  BY <1>2, <1>4, <1>5, <1>6
<1>8. ASSUME \A i \in DOMAIN calls : Word(calls[i].value) # Invalid
      PROVE  Mapped(decode_call, items) = calls
  <2>1. ASSUME NEW i \in DOMAIN calls PROVE decode_call(items[i]) = calls[i]
    <3>1. calls[i] \in Call /\ items[i] = encodeCall(calls[i])
      BY <1>3, <1>4
    <3>2. [calls[i] EXCEPT !.value = calls[i].value] = calls[i]
      BY <3>1 DEF Call
    <3>3. QED
      BY <1>8, <3>1, <3>2, WordRead, CallRead
  <2>2. QED
    BY <1>4, <1>5, <2>1 DEF Mapped
<1>9. QED
  BY <1>3, <1>4, <1>7, <1>8, CallRead DEF items

(* The node writes calls and access lists as the client does.              *)
LEMMA ListsAgree ==
  /\ \A calls : List(Mapped(encode_call, calls)) = encodeCalls(calls)
  /\ \A list : List(Mapped(encode_access, list)) = encodeAccessList(list)
<1>1. \A calls : Mapped(encode_call, calls) = Mapped(encodeCall, calls)
  BY DEF Mapped, encode_call, encodeCall, encode_int, rlpHexFromBigInt
<1>2. QED
  BY <1>1 DEF encodeCalls, encodeAccessList, Mapped, encode_access, encodeAccess

(* So is an entry of an access list, by both.                              *)
LEMMA AccessRead ==
  ASSUME NEW a \in AccessListItem
  PROVE  decodeAccess(encodeAccess(a)) = a /\ decode_access(encodeAccess(a)) = a
<1> DEFINE ks == Mapped(encodeWord, a.keys)
<1>1. a.keys \in Seq(Opaque) /\ a = [address |-> a.address, keys |-> a.keys]
  BY DEF AccessListItem
<1>2. ks = [i \in DOMAIN a.keys |-> encodeWord(a.keys[i])]
  BY DEF Mapped
<1>3. \A w : decodeWord(encodeWord(w)) = w
  BY DEF decodeWord, encodeWord, Str
<1>4. Mapped(decodeWord, ks) = [i \in DOMAIN ks |-> decodeWord(ks[i])]
  BY DEF Mapped
<1> HIDE DEF ks
<1>5. a.keys = [i \in DOMAIN a.keys |-> a.keys[i]]
  BY <1>1, SMT
<1>6. Mapped(decodeWord, ks) = a.keys
  BY <1>2, <1>3, <1>4, <1>5
<1>7. QED
  BY <1>1, <1>3, <1>6 DEF decodeAccess, decode_access, encodeAccess, List, ks

(* And the list.                                                           *)
LEMMA AccessListRead ==
  ASSUME NEW list \in Seq(AccessListItem)
  PROVE  /\ decodeAccessList(encodeAccessList(list)) = list
         /\ Mapped(decode_access, encodeAccessList(list)[2]) = list
<1> DEFINE items == encodeAccessList(list)[2]
<1>1. items = [i \in DOMAIN list |-> encodeAccess(list[i])]
  BY DEF encodeAccessList, List, Mapped
<1> HIDE DEF items
<1>2. DOMAIN items = DOMAIN list /\ \A i \in DOMAIN list : items[i] = encodeAccess(list[i])
  BY <1>1
<1>3. \A i \in DOMAIN list : decodeAccess(items[i]) = list[i] /\ decode_access(items[i]) = list[i]
  BY <1>2, AccessRead, SMT
<1>4. QED
  BY <1>2, <1>3, SMT DEF items, decodeAccessList, Mapped

-----------------------------------------------------------------------------
(* Transactions.                                                           *)

(* A signature as a decoder returns it.                                    *)
IsSig(s) == s.v \in {0, 1} /\ s = [rs |-> s.rs, v |-> s.v]

(* An optional signature: the empty byte string or a signature.            *)
IsOptSig(s) == s = NoSignature \/ IsSig(s)

(* A transaction with every field of its type.                             *)
IsTx(tx) ==
  /\ tx = [chainId |-> tx.chainId, nonce |-> tx.nonce,
           maxPriorityFeePerGas |-> tx.maxPriorityFeePerGas, maxFeePerGas |-> tx.maxFeePerGas,
           gasLimit |-> tx.gasLimit, calls |-> tx.calls, accessList |-> tx.accessList,
           feePayerSignature |-> tx.feePayerSignature]
  /\ tx.chainId \in Nat /\ tx.nonce \in Nat /\ tx.maxPriorityFeePerGas \in Nat
  /\ tx.maxFeePerGas \in Nat /\ tx.gasLimit \in Nat
  /\ tx.calls \in Seq(Call) /\ tx.accessList \in Seq(AccessListItem)
  /\ IsOptSig(tx.feePayerSignature)

(* A signed transaction.                                                   *)
IsSigned(c) ==
  /\ c = [transaction |-> c.transaction, executorSignature |-> c.executorSignature]
  /\ IsTx(c.transaction) /\ IsSig(c.executorSignature)

(* The client writes the byte v as 0 or 1, the node as 27 or 28.           *)
ClientSig(s) == IF s # NoSignature THEN encodeSponsorSignature(s) ELSE Empty

(* An item that both decoders read as the optional signature s.            *)
ReadsAs(item, s) ==
  isSignature(item) /\ decodeSignature(item) = s /\ decode_optional_signature(item) = s

(* Either encoding of an optional signature is read back by both decoders  *)
(* as that signature.                                                      *)
LEMMA SignatureRead ==
  ASSUME NEW s, IsOptSig(s)
  PROVE  ReadsAs(ClientSig(s), s) /\ ReadsAs(encode_optional_signature(s), s)
<1>1. CASE s = NoSignature
  BY <1>1 DEF ClientSig, encode_optional_signature, ReadsAs, isSignature, decodeSignature,
              decode_optional_signature, Empty, Str, NoSignature
<1>2. CASE s # NoSignature
  <2>1. s.v \in {0, 1} /\ s = [rs |-> s.rs, v |-> s.v]
    BY <1>2 DEF IsOptSig, IsSig
  <2>2. ASSUME NEW w \in {0, 1, 27, 28}, (IF w \in {27, 28} THEN w - 27 ELSE w) = s.v
        PROVE  ReadsAs(<<"str", <<s.rs, w>>>>, s)
    <3> DEFINE item == <<"str", <<s.rs, w>>>>
    <3>1. item # Empty /\ item[1] = "str" /\ item[2] = <<s.rs, w>>
      BY DEF Empty, Str
    <3> HIDE DEF item
    <3>2. decode_optional_signature(item) = s
      BY <2>1, <2>2, <3>1, SMT DEF decode_optional_signature
    <3>3. QED
      BY <2>1, <2>2, <3>1, <3>2 DEF ReadsAs, item, isSignature, isSignatureBytes,
         decodeSignature, signatureFromBytes
  <2>3. ReadsAs(<<"str", <<s.rs, 27 + s.v>>>>, s)
    BY <2>1, <2>2, SMT
  <2>4. QED
    BY <1>2, <2>1, <2>2, <2>3, SMT DEF encode_optional_signature, Str, ClientSig,
       encodeSponsorSignature, normalizeSignature
<1>3. QED
  BY <1>1, <1>2

(* The fields of a transaction with an item for its sponsor signature.     *)
Fields(tx, item) ==
  <<Str(digits[tx.chainId]), Str(digits[tx.nonce]), Str(digits[tx.maxPriorityFeePerGas]),
    Str(digits[tx.maxFeePerGas]), Str(digits[tx.gasLimit]), encodeCalls(tx.calls),
    encodeAccessList(tx.accessList), item>>

(* Both programs write these.                                              *)
LEMMA FieldsWritten ==
  ASSUME NEW tx
  PROVE  /\ buildPayloadFields(tx, TRUE) = Fields(tx, ClientSig(tx.feePayerSignature))
         /\ buildPayloadFields(tx, FALSE) = Fields(tx, Empty)
         /\ \A s : encode_payload_fields(tx, s) = Fields(tx, encode_optional_signature(s))
BY ListsAgree DEF buildPayloadFields, Fields, ClientSig, rlpHexFromBigInt,
   encode_payload_fields, encode_int

(* The transactions the node can read: every number is a word.             *)
Fits(tx) ==
  /\ Word(tx.chainId) # Invalid /\ Word(tx.nonce) # Invalid
  /\ Word(tx.maxPriorityFeePerGas) # Invalid /\ Word(tx.maxFeePerGas) # Invalid
  /\ Word(tx.gasLimit) # Invalid
  /\ \A i \in DOMAIN tx.calls : Word(tx.calls[i].value) # Invalid
  /\ tx.feePayerSignature # Invalid

(* f begins with the fields of tx.                                         *)
Begins(f, tx, item) ==
  /\ f[1] = Str(digits[tx.chainId]) /\ f[2] = Str(digits[tx.nonce])
  /\ f[3] = Str(digits[tx.maxPriorityFeePerGas]) /\ f[4] = Str(digits[tx.maxFeePerGas])
  /\ f[5] = Str(digits[tx.gasLimit]) /\ f[6] = encodeCalls(tx.calls)
  /\ f[7] = encodeAccessList(tx.accessList) /\ f[8] = item

(* The transaction that decodeEvNodeTransaction makes of the payload f.    *)
ClientTx(f) ==
  [chainId |-> hexToBigIntSafe(f[1]), nonce |-> hexToBigIntSafe(f[2]),
   maxPriorityFeePerGas |-> hexToBigIntSafe(f[3]),
   maxFeePerGas |-> hexToBigIntSafe(f[4]), gasLimit |-> hexToBigIntSafe(f[5]),
   calls |-> decodeCalls(f[6]), accessList |-> decodeAccessList(f[7]),
   feePayerSignature |-> decodeSignature(f[8])]

(* The client reads in the fields of a transaction the transaction.        *)
LEMMA ClientReadsFields ==
  ASSUME NEW tx, IsTx(tx), NEW item, ReadsAs(item, tx.feePayerSignature),
         NEW f, Begins(f, tx, item)
  PROVE  ClientTx(f) = tx
<1>1. decodeAccessList(f[7]) = tx.accessList
  BY AccessListRead DEF Begins, IsTx
<1>2. decodeSignature(f[8]) = tx.feePayerSignature
  BY DEF Begins, ReadsAs
<1>3. QED
  BY <1>1, <1>2, CallsRead, IntegerRead DEF ClientTx, Begins, IsTx

(* So does the node, if it is one of those.                                *)
LEMMA NodeReadsFields ==
  ASSUME NEW tx, IsTx(tx), NEW item, ReadsAs(item, tx.feePayerSignature),
         NEW f, Begins(f, tx, item)
  PROVE  rlp_decode_fields(f) = IF Fits(tx) THEN tx ELSE Invalid
<1>1. /\ decode_int(f[1]) = Word(tx.chainId) /\ decode_int(f[2]) = Word(tx.nonce)
  BY IntegerRead DEF Begins, IsTx
<1>2. /\ decode_int(f[3]) = Word(tx.maxPriorityFeePerGas)
      /\ decode_int(f[4]) = Word(tx.maxFeePerGas) /\ decode_int(f[5]) = Word(tx.gasLimit)
  BY IntegerRead DEF Begins, IsTx
<1>3. /\ DOMAIN f[6][2] = DOMAIN tx.calls
      /\ \A i \in DOMAIN tx.calls : decode_int(f[6][2][i][2][2]) = Word(tx.calls[i].value)
      /\ (\A i \in DOMAIN tx.calls : Word(tx.calls[i].value) # Invalid)
           => Mapped(decode_call, f[6][2]) = tx.calls
  BY CallsRead DEF Begins, IsTx
<1>4. Mapped(decode_access, f[7][2]) = tx.accessList
  BY AccessListRead DEF Begins, IsTx
<1>5. decode_optional_signature(f[8]) = tx.feePayerSignature
  BY DEF Begins, ReadsAs
<1> DEFINE bad == \/ \E i \in 1..5 : decode_int(f[i]) = Invalid
                  \/ \E i \in DOMAIN f[6][2] : decode_int(f[6][2][i][2][2]) = Invalid
                  \/ decode_optional_signature(f[8]) = Invalid
<1>6. bad <=> ~Fits(tx)
  BY <1>1, <1>2, <1>3, <1>5, SMT DEF Fits
<1>7. rlp_decode_fields(f)
        = IF bad THEN Invalid
          ELSE [chainId |-> decode_int(f[1]), nonce |-> decode_int(f[2]),
                maxPriorityFeePerGas |-> decode_int(f[3]), maxFeePerGas |-> decode_int(f[4]),
                gasLimit |-> decode_int(f[5]), calls |-> Mapped(decode_call, f[6][2]),
                accessList |-> Mapped(decode_access, f[7][2]),
                feePayerSignature |-> decode_optional_signature(f[8])]
  BY DEF rlp_decode_fields
<1> HIDE DEF bad
<1>8. CASE ~Fits(tx)
  BY <1>6, <1>7, <1>8
<1>9. CASE Fits(tx)
  <2>1. /\ Word(tx.chainId) = tx.chainId /\ Word(tx.nonce) = tx.nonce
        /\ Word(tx.maxPriorityFeePerGas) = tx.maxPriorityFeePerGas
        /\ Word(tx.maxFeePerGas) = tx.maxFeePerGas /\ Word(tx.gasLimit) = tx.gasLimit
    BY <1>9, WordRead DEF Fits
  <2>2. Mapped(decode_call, f[6][2]) = tx.calls
    BY <1>3, <1>9 DEF Fits
  <2>3. rlp_decode_fields(f)
          = [chainId |-> tx.chainId, nonce |-> tx.nonce,
             maxPriorityFeePerGas |-> tx.maxPriorityFeePerGas, maxFeePerGas |-> tx.maxFeePerGas,
             gasLimit |-> tx.gasLimit, calls |-> tx.calls, accessList |-> tx.accessList,
             feePayerSignature |-> tx.feePayerSignature]
    BY <1>1, <1>2, <1>4, <1>5, <1>6, <1>7, <1>9, <2>1, <2>2
  <2>4. QED
    BY <1>9, <2>3 DEF IsTx
<1>10. QED
  BY <1>8, <1>9

(* The bytes of a signed transaction, as either of them writes it.         *)
Envelope(tx, item, s) ==
  <<TxType, List(Fields(tx, item) \o <<Str(digits[s.v]), Str(s.rs)>>)>>

(* The encoders of the client and of the node write such an envelope; only *)
(* the sponsor signature in it differs.                                    *)
LEMMA EnvelopeWritten ==
  ASSUME NEW c, IsSigned(c)
  PROVE  LET tx == c.transaction
             s == c.executorSignature
         IN  /\ encodeSignedTransaction(c) = Envelope(tx, ClientSig(tx.feePayerSignature), s)
             /\ encode_2718(c)
                  = Envelope(tx, encode_optional_signature(tx.feePayerSignature), s)
<1> DEFINE tx == c.transaction
           s == c.executorSignature
<1>1. normalizeSignature(s) = s
  BY SMT DEF IsSigned, IsSig, normalizeSignature
<1>2. encodeSignedTransaction(c) = Envelope(tx, ClientSig(tx.feePayerSignature), s)
  BY <1>1, FieldsWritten DEF encodeSignedTransaction, Envelope, rlpHexFromBigInt
<1>3. QED
  BY <1>2, FieldsWritten DEF encode_2718, rlp_encode_fields, Envelope, encode_int

(* Eight items, and two more.                                              *)
LEMMA Joined ==
  ASSUME NEW S, NEW F \in Seq(S), Len(F) = 8, NEW a \in S, NEW b \in S
  PROVE  /\ Len(F \o <<a, b>>) = 10
         /\ \A k \in 1 .. 8 : (F \o <<a, b>>)[k] = F[k]
         /\ (F \o <<a, b>>)[9] = a /\ (F \o <<a, b>>)[10] = b
<1> DEFINE G == <<a, b>>
<1>1. G \in Seq(S) /\ Len(G) = 2 /\ G[1] = a /\ G[2] = b
  BY SMT
<1> HIDE DEF G
<1>2. /\ Len(F \o G) = Len(F) + Len(G)
      /\ \A i \in 1 .. Len(F) + Len(G) : (F \o G)[i] = IF i <= Len(F) THEN F[i] ELSE G[i - Len(F)]
  BY <1>1, ConcatProperties
<1>3. QED
  BY <1>2, SMT DEF G

(* What either of them reads in it.                                        *)
LEMMA EnvelopeRead ==
  ASSUME NEW c, IsSigned(c), NEW item, ReadsAs(item, c.transaction.feePayerSignature)
  PROVE  LET raw == Envelope(c.transaction, item, c.executorSignature)
         IN  /\ decodeEvNodeTransaction(raw) = c
             /\ decode_2718(raw)
                  = IF Fits(c.transaction) /\ c.transaction # Invalid THEN c ELSE Invalid
<1> DEFINE tx == c.transaction
           s == c.executorSignature
           raw == Envelope(tx, item, s)
           f == Fields(tx, item) \o <<Str(digits[s.v]), Str(s.rs)>>
<1>1. raw[1] = TxType /\ raw[2][2] = f
  BY DEF Envelope, List
<1>2. Len(f) = 10 /\ Begins(f, tx, item) /\ f[9] = Str(digits[s.v]) /\ f[10] = Str(s.rs)
  <2> DEFINE F == Fields(tx, item)
             g == Str(digits[s.v])
             h == Str(s.rs)
             S == {F[1], F[2], F[3], F[4], F[5], F[6], F[7], F[8], g, h}
  <2>1. f = F \o <<g, h>>
    OBVIOUS
  <2>2. F \in Seq(S) /\ Len(F) = 8
    BY SMT DEF Fields
  <2>3. Begins(F, tx, item)
    BY DEF Begins, Fields
  <2>4. g \in S /\ h \in S
    OBVIOUS
  <2> HIDE DEF f, F, g, h, S
  <2>5. Len(f) = 10 /\ (\A k \in 1 .. 8 : f[k] = F[k]) /\ f[9] = g /\ f[10] = h
    BY <2>1, <2>2, <2>4, Joined, SMTT(30)
  <2>6. Begins(f, tx, item)
    BY <2>3, <2>5, SMT DEF Begins
  <2>7. QED
    BY <2>5, <2>6 DEF g, h
<1> HIDE DEF f, raw
<1>3. Len(f) = 10 /\ Begins(f, tx, item)
  BY <1>2
<1>4. f[9] = Str(digits[s.v]) /\ f[10][2] = s.rs
  BY <1>2, SMT DEF Str
<1>5. IsTx(tx) /\ s.v \in {0, 1} /\ s = [rs |-> s.rs, v |-> s.v] /\ ReadsAs(item, tx.feePayerSignature)
  BY DEF IsSigned, IsSig
<1>6. c = [transaction |-> tx, executorSignature |-> s]
  BY DEF IsSigned
<1>7. hexToBigIntSafe(f[9]) = s.v /\ decode_int(f[9]) = s.v
  BY <1>4, <1>5, WordAssumption, IntegerRead, SMT DEF Word
<1> HIDE DEF tx, s
<1>8. decodeEvNodeTransaction(raw) = c
  <2>1. decodeEvNodeTransaction(raw)
          = [transaction |-> ClientTx(f), executorSignature |-> signatureFromParts(f[9], f[10])]
    BY <1>1, <1>3, <1>5, <1>7 DEF decodeEvNodeTransaction, ClientTx, Begins, ReadsAs,
       isSignatureParts
  <2>2. QED
    BY <1>3, <1>4, <1>5, <1>6, <1>7, <2>1, ClientReadsFields DEF signatureFromParts
<1>9. decode_2718(raw) = IF Fits(tx) /\ tx # Invalid THEN c ELSE Invalid
  <2>1. decode_2718(raw)
          = IF rlp_decode_fields(f) = Invalid THEN Invalid
            ELSE [transaction |-> rlp_decode_fields(f), executorSignature |-> s]
    BY <1>1, <1>3, <1>4, <1>5, <1>7 DEF decode_2718
  <2>2. QED
    BY <1>3, <1>5, <1>6, <2>1, NodeReadsFields
<1>10. QED
  BY <1>8, <1>9 DEF raw, tx, s

(* The two codecs agree.  Whatever transaction either program has, what    *)
(* one writes the other reads; the node reads what both write if all its   *)
(* numbers are words, and refuses both otherwise; and what the node can    *)
(* read it gets back from its database.                                    *)
THEOREM CodecsAgree ==
  ASSUME NEW c, IsSigned(c)
  PROVE  /\ decodeEvNodeTransaction(encodeSignedTransaction(c)) = c
         /\ decodeEvNodeTransaction(encode_2718(c)) = c
         /\ decode_2718(encodeSignedTransaction(c)) =
              IF Fits(c.transaction) /\ c.transaction # Invalid THEN c ELSE Invalid
         /\ decode_2718(encode_2718(c)) = decode_2718(encodeSignedTransaction(c))
         /\ decode_2718(encodeSignedTransaction(c)) # Invalid
              => from_tx_compact(to_tx_compact(c)) = c
<1> DEFINE tx == c.transaction
           s == c.executorSignature
           sig == tx.feePayerSignature
<1>1. IsTx(tx) /\ IsOptSig(sig) /\ c = [transaction |-> tx, executorSignature |-> s]
  BY DEF IsSigned, IsTx
<1>2. ReadsAs(ClientSig(sig), sig) /\ ReadsAs(encode_optional_signature(sig), sig)
  BY <1>1, SignatureRead
<1>3. /\ encodeSignedTransaction(c) = Envelope(tx, ClientSig(sig), s)
      /\ encode_2718(c) = Envelope(tx, encode_optional_signature(sig), s)
  BY EnvelopeWritten
<1>4. /\ decodeEvNodeTransaction(encodeSignedTransaction(c)) = c
      /\ decode_2718(encodeSignedTransaction(c)) = IF Fits(tx) /\ tx # Invalid THEN c ELSE Invalid
  BY <1>2, <1>3, EnvelopeRead
<1>5. /\ decodeEvNodeTransaction(encode_2718(c)) = c
      /\ decode_2718(encode_2718(c)) = IF Fits(tx) /\ tx # Invalid THEN c ELSE Invalid
  BY <1>2, <1>3, EnvelopeRead
<1>6. ASSUME decode_2718(encodeSignedTransaction(c)) # Invalid
      PROVE  from_tx_compact(to_tx_compact(c)) = c
  <2> DEFINE f == rlp_encode_fields(tx)
             item == encode_optional_signature(sig)
  <2>1. f = Fields(tx, item)
    BY FieldsWritten DEF rlp_encode_fields
  <2>2. Begins(f, tx, item)
    BY <2>1, SMT DEF Begins, Fields
  <2> HIDE DEF f, item
  <2>3. rlp_decode_fields(f) = tx
    BY <1>1, <1>2, <1>4, <1>6, <2>2, NodeReadsFields DEF item
  <2>4. QED
    BY <1>1, <2>3 DEF from_tx_compact, to_tx_compact, to_compact, from_compact, List,
       f
<1> HIDE DEF tx, s, sig
<1>7. QED
  BY <1>4, <1>5, <1>6, SMT DEF tx

-----------------------------------------------------------------------------
(* Hashes.                                                                 *)

(* The node computes the hashes of the client.                             *)
LEMMA HashesAgree ==
  ASSUME NEW tx
  PROVE  /\ executor_signing_hash(tx) = computeExecutorSigningHash(tx)
         /\ \A e : sponsor_signing_hash(tx, e) = computeSponsorSigningHash(tx, e)
<1>1. encode_payload_fields(tx, NoSignature) = Fields(tx, Empty)
  BY FieldsWritten DEF encode_optional_signature
<1>2. buildPayloadFields(tx, FALSE) = Fields(tx, Empty)
  BY FieldsWritten
<1>3. ASSUME NEW e PROVE sponsor_signing_hash(tx, e) = computeSponsorSigningHash(tx, e)
  <2>1. computeSponsorSigningHash(tx, e) = <<SponsorDomain, e>> \o Fields(tx, Empty)
    BY <1>2 DEF computeSponsorSigningHash
  <2>2. QED
    BY <1>1, <2>1, SMT DEF Fields, sponsor_signing_hash, encoded_payload_with_executor
<1>4. QED
  BY <1>1, <1>2, <1>3 DEF executor_signing_hash, encoded_payload,
     computeExecutorSigningHash

(* They depend on nothing but the fields that are signed,                  *)
SameFields(t, u) ==
  /\ t.chainId = u.chainId /\ t.nonce = u.nonce
  /\ t.maxPriorityFeePerGas = u.maxPriorityFeePerGas /\ t.maxFeePerGas = u.maxFeePerGas
  /\ t.gasLimit = u.gasLimit /\ t.calls = u.calls /\ t.accessList = u.accessList

(* The signing hashes depend on the fields alone, and not on the sponsor   *)
(* signature the transaction carries.                                      *)
LEMMA HashesOfFields ==
  ASSUME NEW t, NEW u, SameFields(t, u)
  PROVE  /\ \A item : Fields(t, item) = Fields(u, item)
         /\ computeExecutorSigningHash(t) = computeExecutorSigningHash(u)
         /\ \A e : computeSponsorSigningHash(t, e) = computeSponsorSigningHash(u, e)
BY FieldsWritten DEF computeExecutorSigningHash, computeSponsorSigningHash,
   SameFields, Fields

(* and on all of them: two transactions with the same hash agree in every  *)
(* field that is signed.                                                   *)
LEMMA SponsorHashInjective ==
  ASSUME NEW t, IsTx(t), NEW u, IsTx(u), NEW e,
         computeSponsorSigningHash(t, e) = computeSponsorSigningHash(u, e)
  PROVE  SameFields(t, u)
<1> DEFINE f == Fields(t, Empty)
           g == Fields(u, Empty)
<1>1. <<SponsorDomain, e>> \o f = <<SponsorDomain, e>> \o g
  BY FieldsWritten DEF computeSponsorSigningHash
<1>2. \A i \in 1 .. 7 : f[i] = g[i]
  <2>1. \A i \in 1 .. 7 : (<<SponsorDomain, e>> \o f)[i + 2] = f[i]
    BY SMT DEF Fields
  <2>2. \A i \in 1 .. 7 : (<<SponsorDomain, e>> \o g)[i + 2] = g[i]
    BY SMT DEF Fields
  <2> HIDE DEF f, g
  <2>3. QED
    BY <1>1, <2>1, <2>2
<1>3. Begins(f, t, Empty) /\ Begins(g, u, Empty)
  BY DEF Begins, Fields
<1> HIDE DEF f, g
<1>4. t.chainId = u.chainId /\ t.nonce = u.nonce
  BY <1>2, <1>3, IntegerRead, SMT DEF Begins, IsTx
<1>5. /\ t.maxPriorityFeePerGas = u.maxPriorityFeePerGas
      /\ t.maxFeePerGas = u.maxFeePerGas /\ t.gasLimit = u.gasLimit
  BY <1>2, <1>3, IntegerRead, SMT DEF Begins, IsTx
<1>6. t.calls = u.calls
  <2>1. decodeCalls(g[6]) = u.calls
    BY <1>3, CallsRead DEF Begins, IsTx
  <2>2. f[6] = g[6]
    BY <1>2, SMT
  <2>3. QED
    BY <1>3, <2>1, <2>2, CallsRead DEF Begins, IsTx
<1>7. t.accessList = u.accessList
  <2>1. decodeAccessList(f[7]) = t.accessList
    BY <1>3, AccessListRead DEF Begins, IsTx
  <2>2. decodeAccessList(g[7]) = u.accessList
    BY <1>3, AccessListRead DEF Begins, IsTx
  <2>3. f[7] = g[7]
    BY <1>2, SMT
  <2>4. QED
    BY <2>1, <2>2, <2>3
<1>8. QED
  BY <1>4, <1>5, <1>6, <1>7 DEF SameFields


-----------------------------------------------------------------------------
(* What travels.                                                           *)

(* A transaction before a sponsor has signed.                              *)
Draft ==
  [chainId : Nat, nonce : Nat, maxPriorityFeePerGas : Nat, maxFeePerGas : Nat, gasLimit : Nat,
   calls : Seq(Call), accessList : Seq(AccessListItem), feePayerSignature : {NoSignature}]

(* The keys that sponsor: the one of the service, and a local one.         *)
SponsorKey == {Sponsor, LocalSponsor}

(* A signature of key, as it is read.                                      *)
SigOf(key, hash) == [rs |-> <<key, hash>>, v |-> Parity[key]]

(* The sponsor signature of key on the transaction old of e, or none.      *)
Carried(e, key, old) ==
  IF key = None THEN NoSignature ELSE SigOf(key, computeSponsorSigningHash(old, e))

(* tx signed by e, with the sponsor signature of key on old.               *)
Content(e, tx, key, old) ==
  [transaction |-> [tx EXCEPT !.feePayerSignature = Carried(e, key, old)],
   executorSignature |-> SigOf(e, computeExecutorSigningHash(tx))]

(* The bytes that the client sends for them.                               *)
Bytes(e, tx, key, old) == encodeSignedTransaction(Content(e, tx, key, old))

(* The parameters of a Content.                                            *)
Parts(e, tx, key, old) ==
  e \in Executor /\ tx \in Draft /\ key \in SponsorKey \cup {None} /\ old \in Draft

(* Who is charged for it.                                                  *)
Payer(e, tx, key, old) ==
  IF key = None THEN e ELSE IF old = tx THEN key ELSE Stranger

(* A draft is a transaction, and its fields are those of a record with     *)
(* any sponsor signature.                                                  *)
LEMMA DraftShape ==
  ASSUME NEW tx \in Draft, NEW s
  PROVE  LET t == [tx EXCEPT !.feePayerSignature = s]
         IN  /\ t = [chainId |-> tx.chainId, nonce |-> tx.nonce,
                     maxPriorityFeePerGas |-> tx.maxPriorityFeePerGas,
                     maxFeePerGas |-> tx.maxFeePerGas, gasLimit |-> tx.gasLimit,
                     calls |-> tx.calls, accessList |-> tx.accessList, feePayerSignature |-> s]
             /\ SameFields(t, tx) /\ t.feePayerSignature = s
             /\ Unsigned(t) = tx
             /\ IsOptSig(s) => IsTx(t)
<1> DEFINE t == [tx EXCEPT !.feePayerSignature = s]
<1>1. /\ tx.chainId \in Nat /\ tx.nonce \in Nat /\ tx.maxPriorityFeePerGas \in Nat
      /\ tx.maxFeePerGas \in Nat /\ tx.gasLimit \in Nat
      /\ tx.calls \in Seq(Call) /\ tx.accessList \in Seq(AccessListItem)
      /\ tx = [chainId |-> tx.chainId, nonce |-> tx.nonce,
               maxPriorityFeePerGas |-> tx.maxPriorityFeePerGas,
               maxFeePerGas |-> tx.maxFeePerGas, gasLimit |-> tx.gasLimit,
               calls |-> tx.calls, accessList |-> tx.accessList, feePayerSignature |-> NoSignature]
  BY DEF Draft
<1>2. t = [chainId |-> tx.chainId, nonce |-> tx.nonce,
           maxPriorityFeePerGas |-> tx.maxPriorityFeePerGas,
           maxFeePerGas |-> tx.maxFeePerGas, gasLimit |-> tx.gasLimit,
           calls |-> tx.calls, accessList |-> tx.accessList, feePayerSignature |-> s]
  BY <1>1, SMT
<1> HIDE DEF t
<1>3. Unsigned(t) = tx
  BY <1>1, <1>2, SMT DEF Unsigned
<1>4. ASSUME IsOptSig(s) PROVE IsTx(t)
  BY <1>1, <1>2, <1>4 DEF IsTx
<1>5. QED
  BY <1>2, <1>3, <1>4 DEF t, SameFields

(* A draft is a transaction.                                               *)
LEMMA DraftIsTx ==
  ASSUME NEW tx \in Draft
  PROVE  IsTx(tx)
BY DEF Draft, IsTx, IsOptSig

(* No signature is the absent one, and a signature of an account is one.   *)
LEMMA SigOfShape ==
  ASSUME NEW key, NEW hash
  PROVE  /\ SigOf(key, hash) # NoSignature
         /\ SigOf(key, hash).rs = <<key, hash>> /\ SigOf(key, hash).v = Parity[key]
         /\ key \in Account => IsSig(SigOf(key, hash))
<1>1. ASSUME key \in Account PROVE IsSig(SigOf(key, hash))
  BY <1>1, SponsorAssumption DEF IsSig, SigOf
<1>2. QED
  BY <1>1, SMT DEF SigOf, NoSignature

(* The signing functions of the client, normalized.                        *)
LEMMA SignNormal ==
  ASSUME NEW key \in Account, NEW hash
  PROVE  /\ normalizeSignature(Sign(key, hash)) = SigOf(key, hash)
         /\ normalizeSignature(SigOf(key, hash)) = SigOf(key, hash)
         /\ ClientSig(Sign(key, hash)) = ClientSig(SigOf(key, hash))
<1>1. Sign(key, hash) # NoSignature /\ SigOf(key, hash) # NoSignature
  BY SMT DEF Sign, SigOf, NoSignature
<1>2. QED
  BY <1>1, SponsorAssumption, SMT DEF ClientSig, encodeSponsorSignature,
     normalizeSignature, Sign, SigOf

(* The parts of a content.                                                 *)
LEMMA ContentShape ==
  ASSUME NEW e, NEW tx, NEW key, NEW old, Parts(e, tx, key, old)
  PROVE  LET c == Content(e, tx, key, old)
         IN  /\ IsSigned(c)
             /\ SameFields(c.transaction, tx)
             /\ c.transaction.feePayerSignature = Carried(e, key, old)
             /\ c.executorSignature = SigOf(e, computeExecutorSigningHash(tx))
             /\ Unsigned(c.transaction) = tx
             /\ IsSponsored(c.transaction) <=> key # None
<1> DEFINE c == Content(e, tx, key, old)
           sig == Carried(e, key, old)
           t == [tx EXCEPT !.feePayerSignature = sig]
           s == SigOf(e, computeExecutorSigningHash(tx))
<1>1. e \in Account /\ tx \in Draft /\ (key # None => key \in Account)
  BY DEF Parts, Account, SponsorKey
<1>2. IsOptSig(sig) /\ (sig # NoSignature <=> key # None)
  BY <1>1, SigOfShape DEF Carried, IsOptSig
<1>3. IsSig(s)
  BY <1>1, SigOfShape
<1>4. c = [transaction |-> t, executorSignature |-> s]
  BY DEF Content
<1> HIDE DEF sig, s, c
<1>5. SameFields(t, tx) /\ t.feePayerSignature = sig /\ Unsigned(t) = tx /\ IsTx(t)
  BY <1>1, <1>2, DraftShape
<1> HIDE DEF t
<1>6. c.transaction = t /\ c.executorSignature = s /\ IsSigned(c)
  BY <1>3, <1>4, <1>5 DEF IsSigned
<1>7. QED
  BY <1>2, <1>5, <1>6 DEF c, s, sig, IsSponsored

(* Both programs recover its parties: the executor, and who pays.          *)
LEMMA ContentParties ==
  ASSUME NEW e, NEW tx, NEW key, NEW old, Parts(e, tx, key, old)
  PROVE  LET c == Content(e, tx, key, old)
         IN  /\ recover_signer(c) = e /\ recoverExecutor(c) = e
             /\ key # None => /\ recover_sponsor(c.transaction, e) = Payer(e, tx, key, old)
                              /\ recoverSponsor(c.transaction, e) = Payer(e, tx, key, old)
             /\ key = None => recoverSponsor(c.transaction, e) = None
             /\ Recovered(c) = [signed |-> c, tx |-> c.transaction, from |-> e,
                                payer |-> Payer(e, tx, key, old)]
<1> DEFINE c == Content(e, tx, key, old)
           t == c.transaction
           h == computeExecutorSigningHash(tx)
           k == computeSponsorSigningHash(old, e)
<1>1. /\ SameFields(t, tx) /\ t.feePayerSignature = Carried(e, key, old)
      /\ c.executorSignature = SigOf(e, h) /\ (IsSponsored(t) <=> key # None)
  BY ContentShape, SMT
<1>2. e \in Account /\ (key # None => key \in Account)
  BY DEF Parts, Account, SponsorKey
<1> HIDE DEF c
<1>3. executor_signing_hash(t) = h /\ computeExecutorSigningHash(t) = h
  BY <1>1, HashesAgree, HashesOfFields
<1>4. Recover(h, SigOf(e, h)) = e
  BY SigOfShape, SMT DEF Recover
<1>5. recover_signer(c) = e
  BY <1>1, <1>3, <1>4 DEF recover_signer
<1>6. recoverExecutor(c) = e
  BY <1>1, <1>2, <1>3, <1>4, SignNormal DEF recoverExecutor
<1>7. /\ sponsor_signing_hash(t, e) = computeSponsorSigningHash(tx, e)
      /\ computeSponsorSigningHash(t, e) = computeSponsorSigningHash(tx, e)
  BY <1>1, HashesAgree, HashesOfFields, SMT
<1>8. ASSUME key # None
      PROVE  /\ recover_sponsor(t, e) = Payer(e, tx, key, old)
             /\ recoverSponsor(t, e) = Payer(e, tx, key, old)
  <2>1. t.feePayerSignature = SigOf(key, k)
    BY <1>1, <1>8 DEF Carried
  <2>2. Recover(computeSponsorSigningHash(tx, e), SigOf(key, k))
          = IF k = computeSponsorSigningHash(tx, e) THEN key ELSE Stranger
    BY SigOfShape, SMT DEF Recover
  <2>3. k = computeSponsorSigningHash(tx, e) <=> old = tx
    <3>1. ASSUME k = computeSponsorSigningHash(tx, e) PROVE old = tx
      <4>1. old \in Draft /\ tx \in Draft
        BY DEF Parts
      <4>2. IsTx(old) /\ IsTx(tx)
        BY <4>1, DraftIsTx
      <4>3. SameFields(old, tx)
        BY <3>1, <4>2, SponsorHashInjective
      <4>4. old.feePayerSignature = tx.feePayerSignature
        BY <4>1 DEF Draft
      <4>5. QED
        BY <4>2, <4>3, <4>4 DEF IsTx, SameFields
    <3>2. QED
      BY <3>1
  <2>4. normalizeSignature(SigOf(key, k)) = SigOf(key, k) /\ SigOf(key, k) # NoSignature
    BY <1>2, <1>8, SignNormal, SigOfShape
  <2> HIDE DEF k
  <2>5. QED
    BY <1>7, <1>8, <2>1, <2>2, <2>3, <2>4 DEF recover_sponsor, Payer, recoverSponsor
<1>9. Recovered(c) = [signed |-> c, tx |-> t, from |-> e, payer |-> Payer(e, tx, key, old)]
  <2>1. Recovered(c) = [signed |-> c, tx |-> t, from |-> e,
                        payer |-> IF t.feePayerSignature = NoSignature THEN e
                                  ELSE recover_sponsor(t, e)]
    BY <1>5 DEF Recovered
  <2>2. CASE key = None
    BY <1>1, <2>1, <2>2 DEF Payer, IsSponsored
  <2>3. CASE key # None
    BY <1>1, <1>8, <2>1, <2>3 DEF IsSponsored
  <2>4. QED
    BY <2>2, <2>3
<1>10. QED
  BY <1>1, <1>5, <1>6, <1>8, <1>9 DEF c, recoverSponsor, Carried


(* What the client writes depends on the fields, and on the signatures up  *)
(* to the form of their byte v.                                            *)
LEMMA SameWriting ==
  ASSUME NEW t, NEW u, SameFields(t, u),
         ClientSig(t.feePayerSignature) = ClientSig(u.feePayerSignature),
         NEW s, NEW z, normalizeSignature(s) = normalizeSignature(z)
  PROVE  encodeSignedTransaction(Signed(t, s)) = encodeSignedTransaction(Signed(u, z))
<1>1. buildPayloadFields(t, TRUE) = buildPayloadFields(u, TRUE)
  <2>1. Fields(t, ClientSig(t.feePayerSignature)) = Fields(u, ClientSig(t.feePayerSignature))
    BY HashesOfFields
  <2>2. QED
    BY <2>1, FieldsWritten
<1>2. QED
  BY <1>1 DEF encodeSignedTransaction, Signed

(* sendEvNodeTransaction, and createSponsorableIntent.                     *)
LEMMA ExecutorWrites ==
  ASSUME NEW e \in Executor, NEW tx \in Draft, NEW old
  PROVE  encodeSignedTransaction(Signed(tx, signAsExecutor(tx, e))) = Bytes(e, tx, None, old)
<1> DEFINE h == computeExecutorSigningHash(tx)
           u == [tx EXCEPT !.feePayerSignature = NoSignature]
<1>1. SameFields(tx, u) /\ ClientSig(tx.feePayerSignature) = ClientSig(u.feePayerSignature)
  <2>1. SameFields(u, tx) /\ u.feePayerSignature = NoSignature
    BY DraftShape
  <2>2. tx.feePayerSignature = NoSignature
    BY DEF Draft
  <2>3. QED
    BY <2>1, <2>2 DEF SameFields
<1>2. Bytes(e, tx, None, old) = encodeSignedTransaction(Signed(u, SigOf(e, h)))
  BY DEF Bytes, Content, Carried, Signed
<1> HIDE DEF u, h
<1>3. encodeSignedTransaction(Signed(tx, Sign(e, h))) = encodeSignedTransaction(Signed(u, SigOf(e, h)))
  BY <1>1, SignNormal, SameWriting, SMT DEF Account
<1>4. QED
  BY <1>2, <1>3 DEF signAsExecutor, h

(* A sponsor signs a transaction of e that no sponsor has signed, and it   *)
(* is written with the signature s of e in either form.                    *)
LEMMA SponsorWrites ==
  ASSUME NEW e \in Executor, NEW tx \in Draft, NEW key \in SponsorKey,
         NEW s, normalizeSignature(s) = SigOf(e, computeExecutorSigningHash(tx))
  PROVE  encodeSignedTransaction(Signed(WithSponsor(tx, e, key), s)) = Bytes(e, tx, key, tx)
<1> DEFINE k == computeSponsorSigningHash(tx, e)
           z == SigOf(e, computeExecutorSigningHash(tx))
           t == [tx EXCEPT !.feePayerSignature = Sign(key, k)]
           u == [tx EXCEPT !.feePayerSignature = SigOf(key, k)]
<1>1. e \in Account /\ key \in Account /\ key # None
  BY PartyAssumption DEF Account, SponsorKey
<1>2. SameFields(t, tx) /\ t.feePayerSignature = Sign(key, k)
  BY DraftShape
<1>3. SameFields(u, tx) /\ u.feePayerSignature = SigOf(key, k)
  BY DraftShape
<1>4. ClientSig(Sign(key, k)) = ClientSig(SigOf(key, k)) /\ normalizeSignature(z) = z
  BY <1>1, SignNormal
<1>5. Bytes(e, tx, key, tx) = encodeSignedTransaction(Signed(u, z))
  BY <1>1 DEF Bytes, Content, Carried, Signed
<1>6. WithSponsor(tx, e, key) = t
  BY DEF WithSponsor, signAsSponsor
<1>7. normalizeSignature(s) = normalizeSignature(z)
  BY <1>4
<1> HIDE DEF t, u, k, z
<1>8. SameFields(t, u) /\ ClientSig(t.feePayerSignature) = ClientSig(u.feePayerSignature)
  BY <1>2, <1>3, <1>4 DEF SameFields
<1>9. encodeSignedTransaction(Signed(t, s)) = encodeSignedTransaction(Signed(u, z))
  BY <1>7, <1>8, SameWriting, SMT
<1>10. QED
  BY <1>5, <1>6, <1>9

(* The executor changes the fee of a transaction and signs it anew.        *)
Raised(tx) == [tx EXCEPT !.maxFeePerGas = @ + 1]

(* What an executor who raises the fee sends: the new transaction, with    *)
(* the sponsor signature of the old one.                                   *)
LEMMA RepriceWrites ==
  ASSUME NEW e, NEW tx, NEW key, NEW old, Parts(e, tx, key, old)
  PROVE  LET t == Raised(Content(e, tx, key, old).transaction)
             new == Raised(tx)
         IN  /\ new \in Draft /\ new.maxFeePerGas > 0
             /\ Unsigned(t) = new
             /\ encodeSignedTransaction(Signed(t, signAsExecutor(t, e))) = Bytes(e, new, key, old)
<1> DEFINE sig == Carried(e, key, old)
           c == [tx EXCEPT !.feePayerSignature = sig]
           t == [c EXCEPT !.maxFeePerGas = @ + 1]
           new == [tx EXCEPT !.maxFeePerGas = @ + 1]
           u == [new EXCEPT !.feePayerSignature = sig]
<1>1. e \in Account /\ e \in Executor /\ tx \in Draft
  BY DEF Account, Parts
<1>2. Content(e, tx, key, old).transaction = c
  BY DEF Content
<1>3. new \in Draft /\ new.maxFeePerGas > 0
  <2> DEFINE n == tx.maxFeePerGas + 1
  <2>1. n \in Nat /\ n > 0
    BY <1>1, SMT DEF Draft
  <2> HIDE DEF n
  <2>2. [tx EXCEPT !.maxFeePerGas = n] \in Draft /\ [tx EXCEPT !.maxFeePerGas = n].maxFeePerGas = n
    BY <1>1, <2>1, SMT DEF Draft
  <2>3. QED
    BY <2>1, <2>2 DEF n
<1>4. t = u
  <2>1. c = [chainId |-> tx.chainId, nonce |-> tx.nonce,
             maxPriorityFeePerGas |-> tx.maxPriorityFeePerGas,
             maxFeePerGas |-> tx.maxFeePerGas, gasLimit |-> tx.gasLimit,
             calls |-> tx.calls, accessList |-> tx.accessList, feePayerSignature |-> sig]
    BY <1>1, DraftShape
  <2>2. u = [chainId |-> new.chainId, nonce |-> new.nonce,
             maxPriorityFeePerGas |-> new.maxPriorityFeePerGas,
             maxFeePerGas |-> new.maxFeePerGas, gasLimit |-> new.gasLimit,
             calls |-> new.calls, accessList |-> new.accessList, feePayerSignature |-> sig]
    BY <1>3, DraftShape
  <2>3. /\ new.chainId = tx.chainId /\ new.nonce = tx.nonce
        /\ new.maxPriorityFeePerGas = tx.maxPriorityFeePerGas
        /\ new.maxFeePerGas = tx.maxFeePerGas + 1 /\ new.gasLimit = tx.gasLimit
        /\ new.calls = tx.calls /\ new.accessList = tx.accessList
    BY <1>1 DEF Draft
  <2> HIDE DEF c, u, new, sig
  <2>4. QED
    BY <2>1, <2>2, <2>3, SMT
<1> HIDE DEF sig, c, t, new
<1>5. SameFields(u, new) /\ u.feePayerSignature = sig /\ Unsigned(u) = new
  BY <1>3, DraftShape
<1>6. Bytes(e, new, key, old)
        = encodeSignedTransaction(Signed(u, SigOf(e, computeExecutorSigningHash(new))))
  BY DEF Bytes, Content, Signed, sig
<1> HIDE DEF u
<1>7. signAsExecutor(u, e) = Sign(e, computeExecutorSigningHash(new))
  BY <1>5, HashesOfFields DEF signAsExecutor
<1>8. encodeSignedTransaction(Signed(u, signAsExecutor(u, e))) = Bytes(e, new, key, old)
  <2> DEFINE h == computeExecutorSigningHash(new)
  <2> HIDE DEF h
  <2>1. encodeSignedTransaction(Signed(u, Sign(e, h))) = encodeSignedTransaction(Signed(u, SigOf(e, h)))
    BY <1>1, SignNormal, SameWriting, SMT DEF SameFields
  <2>2. QED
    BY <1>6, <1>7, <2>1 DEF h
<1>9. QED
  BY <1>2, <1>3, <1>4, <1>5, <1>8 DEF t, new, Raised

(* What is read in these bytes.                                            *)
LEMMA BytesRead ==
  ASSUME NEW e, NEW tx, NEW key, NEW old, Parts(e, tx, key, old)
  PROVE  LET c == Content(e, tx, key, old)
             raw == Bytes(e, tx, key, old)
         IN  /\ decodeEvNodeTransaction(raw) = c
             /\ decode_2718(raw) \in {c, Invalid}
             /\ decode_2718(raw) # Invalid => from_tx_compact(to_tx_compact(c)) = c
             /\ decodeEvNodeTransaction(encode_2718(c)) = c
<1> DEFINE c == Content(e, tx, key, old)
<1>1. QED
  BY ContentShape, CodecsAgree DEF Bytes

-----------------------------------------------------------------------------
(* The invariant.  A is what the sponsors have signed.                     *)

(* The signature of key that tx of e carries was given: to tx, or to a     *)
(* transaction of e with a smaller fee.                                    *)
Genuine(e, tx, key, old, A) ==
  /\ Parts(e, tx, key, old)
  /\ key # None => <<key, e, old>> \in A /\ (old = tx \/ tx.maxFeePerGas > 0)

(* The key that sponsored the request q itself.                            *)
KeyOf(q) == IF q.sponsored THEN LocalSponsor ELSE None

(* The bytes of a request are its transaction, signed by its executor, and *)
(* by its own sponsor if it is sponsored.                                  *)
HasRaw(q, A) ==
  \E old \in Draft : /\ Genuine(q.executor, q.tx, KeyOf(q), old, A)
                     /\ q.raw = Bytes(q.executor, q.tx, KeyOf(q), old)

(* The transaction is within the limits of the service.                    *)
WithinPolicy(tx) == tx.gasLimit <= maxGasLimitPerTx /\ tx.maxFeePerGas <= maxFeePerGasLimit

(* The fields of a request.                                                *)
ReqShape(q) ==
  DOMAIN q = {"stage", "executor", "tx", "raw", "route", "sponsored", "try", "reply", "answer"}

(* A request that was started: what its stage says of the transaction, of  *)
(* the bytes, of the reply awaited and of the answer given.                *)
Started(q, A) ==
  /\ q.stage \in {"draft", "service", "balance", "submit", "answered"}
  /\ q.executor \in Executor /\ q.tx \in Draft /\ q.sponsored \in BOOLEAN /\ q.try \in Nat
  /\ q.stage \in {"service", "balance", "submit"} \/ q.raw # None => HasRaw(q, A)
  /\ q.stage = "balance" => ~q.sponsored /\ WithinPolicy(q.tx) /\ q.reply \in Nat \cup {None}
  /\ q.stage = "submit" => q.reply \in {None, "ok", "error"}
  /\ q.stage \in {"draft", "answered"} => q.reply = None
  /\ q.stage # "answered" /\ q.try = 0 => q.answer = None

(* A well-formed request.                                                  *)
ReqOK(q, A) == ReqShape(q) /\ (q = NoRequest \/ Started(q, A))

(* A call on its way to the node carries genuine bytes.                    *)
CallOK(c, A) ==
  /\ c.slot \in Slot
  /\ \E e, tx, key, old : Genuine(e, tx, key, old, A) /\ c.raw = Bytes(e, tx, key, old)

(* What the node took into its pool comes back from its database.          *)
PoolOK(t, A) ==
  \E e, tx, key, old :
    /\ Genuine(e, tx, key, old, A)
    /\ t = Recovered(Content(e, tx, key, old)) /\ tx.calls # <<>>
    /\ from_tx_compact(to_tx_compact(Content(e, tx, key, old))) = Content(e, tx, key, old)

(* A mined transaction was charged to the account that signed to pay for   *)
(* it, and its sponsor signed exactly what was mined.                      *)
MinedOK(m, A) ==
  \E e, tx, key, old :
    /\ Genuine(e, tx, key, old, A)
    /\ key # None => old = tx
    /\ m.stored = to_tx_compact(Content(e, tx, key, old))
    /\ m.charged = Payer(e, tx, key, old)
    /\ from_tx_compact(to_tx_compact(Content(e, tx, key, old))) = Content(e, tx, key, old)

(* An approval, within the policy if it is of the service.                 *)
ApprovedOK(a) ==
  \E key \in SponsorKey, e \in Executor, tx \in Draft :
    a = <<key, e, tx>> /\ (key = Sponsor => Cost(tx) <= MaxCost)

(* The request q accounts for the approval a of the service.               *)
Accounts(a, q) ==
  /\ q.executor = a[2] /\ q.tx = a[3] /\ ~q.sponsored
  /\ \/ q.try > 0
     \/ q.stage \in {"submit", "answered"} /\ q.answer # "refused"

(* Every request is well formed.                                           *)
RequestsInv ==
  /\ reqs = [r \in Slot |-> reqs[r]]
  /\ \A r \in Slot : ReqOK(reqs[r], approved)

(* What reached the node is genuine.                                       *)
NodeInv ==
  /\ \A c \in wire : CallOK(c, approved)
  /\ \A t \in pool : PoolOK(t, approved)
  /\ \A m \in mined : MinedOK(m, approved)
  /\ IsFiniteSet(pool)

(* Balances and nonces are numbers; nobody funds the accounts that a       *)
(* signature of something else recovers.                                   *)
LedgerInv ==
  bal \in [Account -> Nat] /\ bal[Stranger] = 0 /\ nonce \in [Account -> Nat]

(* Every approval of the service is accounted for by a request that was    *)
(* not refused.                                                            *)
ApprovalInv ==
  /\ IsFiniteSet(approved)
  /\ \A a \in approved : ApprovedOK(a)
  /\ \A a \in approved : a[1] = Sponsor => \E r \in Slot : Accounts(a, reqs[r])

(* The invariant but for the balance of the service.                       *)
FlowInv == RequestsInv /\ NodeInv /\ LedgerInv /\ ApprovalInv

(* The open sponsorships whose nonce no block has used: only these can     *)
(* still be charged.                                                       *)
Live == {p \in Open : p[2] >= nonce[p[1]]}

(* What the service has at least, but for the open sponsorships.           *)
Floor == IF Genesis[Sponsor] < minSponsorBalance THEN Genesis[Sponsor] ELSE minSponsorBalance

(* What is missing in the account of the service was spent on as many      *)
(* sponsorships as were once open and are no longer live.                  *)
PeakInv ==
  /\ peak \in Nat /\ Cardinality(Open) <= peak
  /\ bal[Sponsor] + (peak - Cardinality(Live)) * MaxCost >= Floor

(* The inductive invariant.                                                *)
IInv == FlowInv /\ PeakInv

-----------------------------------------------------------------------------
(* What a step does to a request.                                          *)

(* More approvals make nothing less genuine.                               *)
LEMMA MoreApprovals ==
  ASSUME NEW A, NEW B, A \subseteq B
  PROVE  /\ \A e, tx, key, old : Genuine(e, tx, key, old, A) => Genuine(e, tx, key, old, B)
         /\ \A q : ReqOK(q, A) => ReqOK(q, B)
         /\ \A c : CallOK(c, A) => CallOK(c, B)
         /\ \A t : PoolOK(t, A) => PoolOK(t, B)
         /\ \A m : MinedOK(m, A) => MinedOK(m, B)
<1>1. \A e, tx, key, old : Genuine(e, tx, key, old, A) => Genuine(e, tx, key, old, B)
  BY DEF Genuine
<1>2. \A t : PoolOK(t, A) => PoolOK(t, B)
  BY <1>1 DEF PoolOK
<1>3. ASSUME NEW m, MinedOK(m, A) PROVE MinedOK(m, B)
  <2>1. PICK e, tx, key, old :
          /\ Genuine(e, tx, key, old, A) /\ (key # None => old = tx)
          /\ m.stored = to_tx_compact(Content(e, tx, key, old))
          /\ m.charged = Payer(e, tx, key, old)
          /\ from_tx_compact(to_tx_compact(Content(e, tx, key, old))) = Content(e, tx, key, old)
    BY <1>3 DEF MinedOK
  <2>2. QED
    BY <1>1, <2>1 DEF MinedOK
<1>4. QED
  BY <1>1, <1>2, <1>3 DEF CallOK, ReqOK, Started, HasRaw

(* The balance was read for q, and suffices.                               *)
Ready(q) == q.stage = "balance" /\ q.reply # None /\ q.reply >= minSponsorBalance

(* After the move the request accounts for what it accounted for.          *)
Loyal(q, q1) == \A a : Accounts(a, q) => Accounts(a, q1)

(* A request that is ready after the move was ready for the same           *)
(* transaction before it.                                                  *)
Quiet(q, q1) == Ready(q1) => Ready(q) /\ q1.executor = q.executor /\ q1.tx = q.tx

(* A move of the request q to q1.                                          *)
Move(q, q1, A) == ReqOK(q1, A) /\ Loyal(q, q1) /\ Quiet(q, q1)

(* q becomes q1: the fields that may change have these values.             *)
Becomes(q, q1, tx, stage, raw, try, reply, answer) ==
  /\ ReqShape(q1) /\ q1.executor = q.executor /\ q1.sponsored = q.sponsored
  /\ q1.stage = stage /\ q1.tx = tx /\ q1.raw = raw /\ q1.try = try
  /\ q1.reply = reply /\ q1.answer = answer

(* A request that is not idle has started.                                 *)
LEMMA NotIdle ==
  ASSUME NEW q, NEW A, ReqOK(q, A), q.stage # "idle"
  PROVE  Started(q, A) /\ ReqShape(q)
BY SMT DEF ReqOK, NoRequest

(* The bytes of a request stay its bytes.                                  *)
LEMMA RawKept ==
  ASSUME NEW q, NEW q1, NEW A, HasRaw(q, A),
         q1.executor = q.executor, q1.tx = q.tx, q1.raw = q.raw, KeyOf(q1) = KeyOf(q)
  PROVE  HasRaw(q1, A)
BY DEF HasRaw

(* A request is answered: as refused only before it is submitted.          *)
LEMMA AnswerMove ==
  ASSUME NEW q, NEW q1, NEW A, ReqOK(q, A), NEW z,
         q.stage \in {"draft", "service", "balance", "submit"},
         q.stage = "submit" => z # "refused",
         Becomes(q, q1, q.tx, "answered", q.raw, q.try, None, z)
  PROVE  Move(q, q1, A)
<1>1. /\ q1.stage = "answered" /\ q1.executor = q.executor /\ q1.tx = q.tx /\ q1.raw = q.raw
      /\ q1.sponsored = q.sponsored /\ q1.try = q.try /\ q1.reply = None
      /\ q1.answer = z /\ KeyOf(q1) = KeyOf(q) /\ ReqShape(q1)
  BY DEF Becomes, KeyOf
<1>2. Started(q1, A)
  BY <1>1, RawKept, NotIdle DEF Started
<1>3. QED
  BY <1>1, <1>2 DEF Move, ReqOK, Loyal, Accounts, Quiet, Ready

(* The client posts bytes: the first time, or again.                       *)
LEMMA PostMove ==
  ASSUME NEW q, NEW q1, NEW A, ReqOK(q, A), q.stage \in {"draft", "answered"},
         NEW tx \in Draft, tx = q.tx \/ q.sponsored,
         NEW s \in {"service", "submit"},
         NEW n \in Nat, n >= q.try, q.stage = "answered" => n > 0,
         NEW old \in Draft, Genuine(q.executor, tx, KeyOf(q), old, A),
         Becomes(q, q1, tx, s, Bytes(q.executor, tx, KeyOf(q), old), n, q.reply, q.answer)
  PROVE  Move(q, q1, A)
<1> DEFINE raw == Bytes(q.executor, tx, KeyOf(q), old)
<1>1. Started(q, A) /\ ReqShape(q)
  BY NotIdle
<1>2. /\ q1.stage = s /\ q1.executor = q.executor /\ q1.tx = tx /\ q1.raw = raw
      /\ q1.sponsored = q.sponsored /\ q1.try = n /\ q1.reply = q.reply
      /\ q1.answer = q.answer /\ KeyOf(q1) = KeyOf(q) /\ ReqShape(q1)
  BY DEF Becomes, KeyOf
<1>3. raw = Bytes(q.executor, tx, KeyOf(q), old)
  OBVIOUS
<1> HIDE DEF raw
<1>4. HasRaw(q1, A)
  BY <1>2, <1>3 DEF HasRaw
<1>5. Loyal(q, q1)
  BY <1>1, <1>2, SMTT(30) DEF Loyal, Accounts, Started
<1>6. QED
  BY <1>1, <1>2, <1>4, <1>5, SMTT(30) DEF Move, ReqOK, Quiet, Ready, Started

(* The service submits for a request.                                      *)
LEMMA SubmitMove ==
  ASSUME NEW q, NEW q1, NEW A, ReqOK(q, A), q.stage \in {"service", "balance"},
         Becomes(q, q1, q.tx, "submit", q.raw, q.try, None, q.answer)
  PROVE  Move(q, q1, A)
<1>1. Started(q, A) /\ ReqShape(q)
  BY NotIdle
<1>2. /\ q1.stage = "submit" /\ q1.executor = q.executor /\ q1.tx = q.tx /\ q1.raw = q.raw
      /\ q1.sponsored = q.sponsored /\ q1.try = q.try /\ q1.reply = None
      /\ q1.answer = q.answer /\ KeyOf(q1) = KeyOf(q) /\ ReqShape(q1)
  BY DEF Becomes, KeyOf
<1>3. HasRaw(q1, A)
  BY <1>1, <1>2, RawKept DEF Started
<1>4. Quiet(q, q1)
  BY <1>2 DEF Quiet, Ready
<1>5. QED
  BY <1>1, <1>2, <1>3, <1>4 DEF Move, ReqOK, Started, Loyal, Accounts

(* The policy has passed a request, and its balance is asked for.          *)
LEMMA BalanceMove ==
  ASSUME NEW q, NEW q1, NEW A, ReqOK(q, A), q.stage = "service", ~q.sponsored, WithinPolicy(q.tx),
         Becomes(q, q1, q.tx, "balance", q.raw, q.try, None, q.answer)
  PROVE  Move(q, q1, A)
<1>1. Started(q, A) /\ ReqShape(q)
  BY NotIdle
<1>2. /\ q1.stage = "balance" /\ q1.executor = q.executor /\ q1.tx = q.tx /\ q1.raw = q.raw
      /\ q1.sponsored = q.sponsored /\ q1.try = q.try /\ q1.reply = None
      /\ q1.answer = q.answer /\ KeyOf(q1) = KeyOf(q) /\ ReqShape(q1)
  BY DEF Becomes, KeyOf
<1>3. HasRaw(q1, A)
  BY <1>1, <1>2, RawKept DEF Started
<1>4. Quiet(q, q1)
  BY <1>2 DEF Quiet, Ready
<1>5. QED
  BY <1>1, <1>2, <1>3, <1>4 DEF Move, ReqOK, Started, Loyal, Accounts

(* An answer of the node arrives for a request.                            *)
LEMMA ReplyMove ==
  ASSUME NEW q, NEW q1, NEW A, ReqOK(q, A), NEW x,
         \/ q.stage = "submit" /\ x \in {"ok", "error"}
         \/ q.stage = "balance" /\ x \in Nat,
         Becomes(q, q1, q.tx, q.stage, q.raw, q.try, x, q.answer)
  PROVE  /\ ReqOK(q1, A) /\ Loyal(q, q1)
         /\ q.stage = "submit" \/ x < minSponsorBalance => Quiet(q, q1)
<1>1. Started(q, A) /\ ReqShape(q)
  BY NotIdle
<1>2. /\ q1.stage = q.stage /\ q1.executor = q.executor /\ q1.tx = q.tx /\ q1.raw = q.raw
      /\ q1.sponsored = q.sponsored /\ q1.try = q.try /\ q1.reply = x
      /\ q1.answer = q.answer /\ KeyOf(q1) = KeyOf(q) /\ ReqShape(q1)
  BY DEF Becomes, KeyOf
<1>3. HasRaw(q1, A)
  BY <1>1, <1>2, RawKept DEF Started
<1>4. ASSUME q.stage = "submit" \/ x < minSponsorBalance PROVE Quiet(q, q1)
  BY <1>2, <1>4, SponsorAssumption, SMT DEF Quiet, Ready
<1>5. QED
  BY <1>1, <1>2, <1>3, <1>4 DEF ReqOK, Started, Loyal, Accounts


-----------------------------------------------------------------------------
(* The steps of the client and of the service.                             *)

(* Such a step changes the request r into q1, adds the approvals X (one of *)
(* the service only for a request that was ready), and sends what is       *)
(* genuine.  It opens a sponsorship only when the balance suffices.        *)
Effects(r, q1, X) ==
  /\ r \in Slot /\ reqs' = [reqs EXCEPT ![r] = q1]
  /\ ReqOK(q1, approved') /\ Loyal(reqs[r], q1)
  /\ Quiet(reqs[r], q1) \/ bal[Sponsor] >= minSponsorBalance
  /\ IsFiniteSet(X) /\ approved' = approved \cup X
  /\ \A a \in X : /\ ApprovedOK(a)
                  /\ a[1] = Sponsor => /\ Accounts(a, q1) /\ Ready(reqs[r])
                                       /\ a[2] = reqs[r].executor /\ a[3] = reqs[r].tx
  /\ \A c \in wire' : c \in wire \/ CallOK(c, approved')
  /\ UNCHANGED <<pool, mined, bal, nonce>>

(* The form of most of them: no approval.                                  *)
LEMMA PlainEffects ==
  ASSUME FlowInv, NEW r \in Slot, NEW q1, reqs' = [reqs EXCEPT ![r] = q1],
         Move(reqs[r], q1, approved), approved' = approved,
         \A c \in wire' : c \in wire \/ CallOK(c, approved),
         UNCHANGED <<pool, mined, bal, nonce>>
  PROVE  Effects(r, q1, {})
BY FS_EmptySet DEF Effects, Move

(* The request of a slot.                                                  *)
LEMMA RequestOK ==
  ASSUME FlowInv, NEW r \in Slot
  PROVE  ReqOK(reqs[r], approved)
BY DEF FlowInv, RequestsInv

(* The bytes of a request may be sent for its slot.                        *)
LEMMA RawIsGenuine ==
  ASSUME NEW q, NEW A, HasRaw(q, A), NEW r \in Slot, NEW n
  PROVE  CallOK([slot |-> r, try |-> n, raw |-> q.raw], A)
<1>1. PICK old \in Draft : /\ Genuine(q.executor, q.tx, KeyOf(q), old, A)
                           /\ q.raw = Bytes(q.executor, q.tx, KeyOf(q), old)
  BY DEF HasRaw
<1> DEFINE c == [slot |-> r, try |-> n, raw |-> q.raw]
<1> HIDE DEF c
<1>2. QED
  BY <1>1 DEF CallOK, c

(* An answer without a call of the node has these effects.                 *)
LEMMA AnswerEffects ==
  ASSUME FlowInv, NEW r \in Slot, NEW z, Answer(r, z),
         reqs[r].stage \in {"draft", "service", "balance", "submit"},
         reqs[r].stage = "submit" => z # "refused",
         UNCHANGED <<wire, pool, mined, bal, nonce, approved>>
  PROVE  \E q1, X : Effects(r, q1, X)
<1> DEFINE q1 == [reqs[r] EXCEPT !.stage = "answered", !.answer = z, !.reply = None]
<1>1. reqs' = [reqs EXCEPT ![r] = q1]
  BY DEF Answer, Set
<1>2. ReqOK(reqs[r], approved) /\ ReqShape(reqs[r])
  BY RequestOK DEF ReqOK
<1>3. Becomes(reqs[r], q1, reqs[r].tx, "answered", reqs[r].raw, reqs[r].try, None, z)
  BY <1>2 DEF Becomes, ReqShape
<1> HIDE DEF q1
<1>4. Move(reqs[r], q1, approved)
  BY <1>2, <1>3, AnswerMove, SMT
<1>5. Effects(r, q1, {})
  BY <1>1, <1>4, PlainEffects
<1>6. QED
  BY <1>5

-----------------------------------------------------------------------------
(* Start: the nonce that eth_getTransactionCount answers exists.           *)

(* The client gets a number, whatever the pool holds.                      *)
LEMMA FetchedNonce ==
  ASSUME FlowInv, NEW e \in Executor
  PROVE  fetchNonce(e) \in Nat
<1> DEFINE P == Pending(e)
           n0 == nonce[e]
           k == Cardinality(P)
           N == {t.tx.nonce : t \in P}
           I == n0 .. (n0 + k)
           free(n) == /\ \A m \in n0 .. (n - 1) : \E t \in P : t.tx.nonce = m
                      /\ ~ \E t \in P : t.tx.nonce = n
<1>1. n0 \in Nat
  BY DEF FlowInv, LedgerInv, Account
<1>2. IsFiniteSet(P) /\ k \in Nat
  BY FS_Subset, FS_CardinalityType DEF Pending, FlowInv, NodeInv
<1>3. fetchNonce(e) = CHOOSE n \in I : free(n)
  BY DEF fetchNonce
<1> HIDE DEF P
<1>4. IsFiniteSet(N) /\ Cardinality(N) <= k
  <2> DEFINE f == [t \in P |-> t.tx.nonce]
  <2>1. f \in Surjection(P, N)
    BY DEF Surjection
  <2> HIDE DEF f, N
  <2>2. QED
    BY <1>2, <2>1, FS_Surjection
<1>5. IsFiniteSet(I) /\ Cardinality(I) = k + 1
  <2> HIDE DEF n0, k
  <2>1. QED
    BY <1>1, <1>2, FS_Interval, SMT
<1> HIDE DEF k, n0
<1>6. ~(I \subseteq N)
  <2>1. SUFFICES ASSUME I \subseteq N PROVE FALSE
    OBVIOUS
  <2> HIDE DEF I, N
  <2>2. QED
    BY <1>2, <1>4, <1>5, <2>1, FS_CardinalityType, FS_Subset, SMT
<1> DEFINE C == I \ N
<1>7. C \in SUBSET Nat /\ C # {}
  <2>1. \A m \in I : m \in Nat
    BY <1>1, SMT
  <2> HIDE DEF I, N
  <2>2. QED
    BY <1>6, <2>1
<1> HIDE DEF C
<1>8. PICK n \in C : \A m \in C : n <= m
  BY <1>7, LeastNatural
<1>9. n \in I /\ n \notin N /\ n \in Nat
  BY <1>7 DEF C
<1>10. ASSUME NEW m \in n0 .. (n - 1) PROVE m \in N
  BY <1>1, <1>2, <1>8, SMT DEF C
<1>11. free(n)
  <2>1. \A m \in N : \E t \in P : t.tx.nonce = m
    OBVIOUS
  <2>2. ~ \E t \in P : t.tx.nonce = n
    BY <1>9
  <2> HIDE DEF N
  <2>3. QED
    BY <1>10, <2>1, <2>2
<1>12. \A m \in I : m \in Nat
  BY <1>1, SMT
<1> HIDE DEF I, free
<1>13. (CHOOSE m \in I : free(m)) \in I
  BY <1>9, <1>11
<1>14. QED
  BY <1>3, <1>12, <1>13

(* Every call costs gas.                                                   *)
LEMMA GasOfCalls ==
  ASSUME NEW calls \in Seq(Call)
  PROVE  CallGas(calls) \in Nat /\ CallGas(calls) >= Len(calls)
<1> DEFINE C == {i \in DOMAIN calls : calls[i].to = None}
<1>1. Len(calls) \in Nat /\ C \subseteq 1 .. Len(calls)
  BY SMT
<1>2. CallGas(calls) = Len(calls) + Cardinality(C)
  BY DEF CallGas
<1> HIDE DEF C
<1>3. Cardinality(C) \in Nat
  <2>1. IsFiniteSet(1 .. Len(calls))
    BY FS_Interval, SMT
  <2>2. IsFiniteSet(C)
    BY <1>1, <2>1, FS_Subset
  <2>3. QED
    BY <2>2, FS_CardinalityType
<1>4. QED
  BY <1>2, <1>3, SMT

(* What resolveBaseFields returns is a draft.                              *)
LEMMA ResolvedDraft ==
  ASSUME FlowInv, NEW e \in Executor, NEW job \in Jobs
  PROVE  resolveBaseFields(e, job.args) \in Draft
<1> DEFINE a == job.args
<1>1. /\ a.calls \in Seq(Call) /\ a.accessList \in Seq(AccessListItem)
      /\ a.chainId \in Nat \cup {None} /\ a.maxFeePerGas \in Nat \cup {None}
      /\ a.gasLimit \in Nat \cup {None}
  BY JobsAssumption
<1> HIDE DEF a
<1>2. estimateIntrinsicGas(a.calls) \in Nat
  BY <1>1, GasOfCalls, SMT DEF estimateIntrinsicGas
<1>3. /\ (IF a.chainId = None THEN chainId ELSE a.chainId) \in Nat
      /\ (IF a.maxFeePerGas = None THEN gasPrice ELSE a.maxFeePerGas) \in Nat
      /\ (IF a.gasLimit = None THEN estimateIntrinsicGas(a.calls) ELSE a.gasLimit) \in Nat
  BY <1>1, <1>2, SponsorAssumption
<1>4. QED
  BY <1>1, <1>3, FetchedNonce DEF resolveBaseFields, Draft, a

(* The call starts.                                                        *)
LEMMA StartEffects ==
  ASSUME FlowInv, NEW r \in Slot, NEW e \in Executor, NEW job \in Jobs, Start(r, e, job)
  PROVE  \E q1, X : Effects(r, q1, X)
<1> DEFINE tx == resolveBaseFields(e, job.args)
           q1 == [NoRequest EXCEPT !.stage = "draft", !.executor = e, !.route = job.route,
                                   !.tx = tx, !.sponsored = job.sponsored]
<1>1. tx \in Draft /\ job.sponsored \in BOOLEAN
  BY ResolvedDraft, JobsAssumption
<1> HIDE DEF tx
<1>2. /\ q1.stage = "draft" /\ q1.executor = e /\ q1.tx = tx /\ q1.raw = None
      /\ q1.sponsored = job.sponsored /\ q1.try = 0 /\ q1.reply = None /\ q1.answer = None
      /\ ReqShape(q1)
  BY DEF ReqShape, NoRequest
<1>3. reqs' = [reqs EXCEPT ![r] = q1]
  BY DEF Start, Set, tx
<1>4. reqs[r].stage = "idle" /\ UNCHANGED <<wire, pool, mined, bal, nonce, approved>>
  BY DEF Start, At
<1> HIDE DEF q1
<1>5. ReqOK(q1, approved)
  BY <1>1, <1>2, SMT DEF ReqOK, Started
<1>6. reqs[r] = NoRequest
  BY <1>4, RequestOK DEF ReqOK, Started
<1>7. Loyal(reqs[r], q1)
  BY <1>6, SMT DEF Loyal, Accounts, NoRequest
<1>8. Quiet(reqs[r], q1)
  BY <1>2 DEF Quiet, Ready
<1>9. Effects(r, q1, {})
  BY <1>3, <1>4, <1>5, <1>7, <1>8, PlainEffects DEF Move
<1>10. QED
  BY <1>9


-----------------------------------------------------------------------------
(* The other steps of the client.                                          *)

(* A post sends what the request carries, to the service or to the node.   *)
LEMMA PostEffects ==
  ASSUME FlowInv, NEW r \in Slot, NEW X, IsFiniteSet(X), approved' = approved \cup X,
         \A a \in X : ApprovedOK(a) /\ a[1] # Sponsor,
         reqs[r].stage \in {"draft", "answered"},
         NEW tx \in Draft, tx = reqs[r].tx \/ reqs[r].sponsored,
         NEW n \in Nat, n >= reqs[r].try, reqs[r].stage = "answered" => n > 0,
         NEW old \in Draft, Genuine(reqs[r].executor, tx, KeyOf(reqs[r]), old, approved'),
         NEW req, Becomes(reqs[r], req, tx, reqs[r].stage, reqs[r].raw, n, reqs[r].reply,
                          reqs[r].answer),
         NEW raw, raw = Bytes(reqs[r].executor, tx, KeyOf(reqs[r]), old),
         Post(r, req, raw),
         UNCHANGED <<pool, mined, bal, nonce>>
  PROVE  \E q1, Y : Effects(r, q1, Y)
<1> DEFINE q == reqs[r]
           to(s) == [req EXCEPT !.raw = raw, !.stage = s]
<1>1. ASSUME NEW s PROVE Becomes(q, to(s), tx, s, raw, n, q.reply, q.answer)
  BY DEF Becomes, ReqShape
<1> HIDE DEF to
<1>2. PICK s \in {"service", "submit"} :
        /\ reqs' = [reqs EXCEPT ![r] = to(s)]
        /\ wire' = wire \/ wire' = wire \cup {[slot |-> r, try |-> n, raw |-> raw]}
  BY DEF Post, Set, to, Becomes
<1>3. CallOK([slot |-> r, try |-> n, raw |-> raw], approved')
  <2> DEFINE c == [slot |-> r, try |-> n, raw |-> raw]
  <2> HIDE DEF c
  <2>1. QED
    BY DEF CallOK, c
<1>4. Move(q, to(s), approved')
  BY <1>1, RequestOK, MoreApprovals, PostMove
<1>5. Effects(r, to(s), X)
  BY <1>2, <1>3, <1>4 DEF Effects, Move
<1>6. QED
  BY <1>5

(* The client signs and sends, and sponsors itself if it is to.            *)
LEMMA SignAndSendEffects ==
  ASSUME FlowInv, NEW r \in Slot, SignAndSend(r)
  PROVE  \E q1, X : Effects(r, q1, X)
<1> DEFINE q == reqs[r]
           e == q.executor
           tx == q.tx
<1>1. q.stage = "draft" /\ UNCHANGED <<pool, mined, bal, nonce>>
  BY DEF SignAndSend, At
<1>2. Started(q, approved) /\ ReqShape(q)
  BY <1>1, RequestOK, NotIdle
<1>3. e \in Executor /\ tx \in Draft /\ q.sponsored \in BOOLEAN /\ q.try \in Nat
  BY <1>2 DEF Started
<1>4. CASE ~validateEvNodeTx(tx)
  BY <1>1, <1>4, AnswerEffects DEF SignAndSend
<1>5. CASE validateEvNodeTx(tx)
  <2> DEFINE X == IF q.sponsored THEN {<<LocalSponsor, e, tx>>} ELSE {}
             t == IF q.sponsored THEN WithSponsor(tx, e, LocalSponsor) ELSE tx
             raw == encodeSignedTransaction(Signed(t, signAsExecutor(tx, e)))
  <2>1. Post(r, q, raw) /\ approved' = approved \cup X
    BY <1>5 DEF SignAndSend
  <2>2. raw = Bytes(e, tx, KeyOf(q), tx)
    <3>1. CASE q.sponsored
      <4>1. LocalSponsor \in SponsorKey /\ e \in Account
        BY <1>3 DEF SponsorKey, Account
      <4>2. normalizeSignature(signAsExecutor(tx, e)) = SigOf(e, computeExecutorSigningHash(tx))
        BY <4>1, SignNormal DEF signAsExecutor
      <4>3. raw = Bytes(e, tx, LocalSponsor, tx)
        BY <1>3, <3>1, <4>1, <4>2, SponsorWrites
      <4>4. QED
        BY <3>1, <4>3 DEF KeyOf
    <3>2. CASE ~q.sponsored
      BY <1>3, <3>2, ExecutorWrites DEF KeyOf
    <3>3. QED
      BY <3>1, <3>2
  <2>3. IsFiniteSet(X)
    BY FS_EmptySet, FS_Singleton
  <2>4. \A a \in X : ApprovedOK(a) /\ a[1] # Sponsor
    BY <1>3, PartyAssumption, SMT DEF ApprovedOK, SponsorKey
  <2>5. Genuine(e, tx, KeyOf(q), tx, approved')
    BY <1>3, <2>1 DEF Genuine, Parts, KeyOf, SponsorKey
  <2> HIDE DEF raw, X
  <2>6. Becomes(q, q, tx, q.stage, q.raw, q.try, q.reply, q.answer)
    BY <1>2 DEF Becomes
  <2>7. /\ q.stage \in {"draft", "answered"} /\ (q.stage = "answered" => q.try > 0)
        /\ q.try >= q.try
    BY <1>1, <1>3, SMT
  <2> HIDE DEF t
  <2>8. QED
    BY <1>1, <1>3, <2>1, <2>2, <2>3, <2>4, <2>5, <2>6, <2>7, PostEffects
<1>6. QED
  BY <1>4, <1>5

(* The client sends the same bytes again.                                  *)
LEMMA ResendEffects ==
  ASSUME FlowInv, NEW r \in Slot, Resend(r)
  PROVE  \E q1, X : Effects(r, q1, X)
<1> DEFINE q == reqs[r]
           req == [q EXCEPT !.try = @ + 1]
<1>1. /\ q.stage = "answered" /\ q.raw # None /\ Post(r, req, q.raw)
      /\ UNCHANGED <<pool, mined, bal, nonce, approved>>
  BY DEF Resend, At
<1>2. Started(q, approved) /\ ReqShape(q)
  BY <1>1, RequestOK, NotIdle
<1>3. q.tx \in Draft /\ q.try \in Nat /\ HasRaw(q, approved)
  BY <1>1, <1>2 DEF Started
<1>4. PICK old \in Draft : /\ Genuine(q.executor, q.tx, KeyOf(q), old, approved)
                           /\ q.raw = Bytes(q.executor, q.tx, KeyOf(q), old)
  BY <1>3 DEF HasRaw
<1>5. Becomes(q, req, q.tx, q.stage, q.raw, q.try + 1, q.reply, q.answer)
  BY <1>2 DEF ReqShape, Becomes
<1> HIDE DEF req
<1>6. IsFiniteSet({}) /\ approved' = approved \cup {}
  BY <1>1, FS_EmptySet
<1>7. q.try + 1 \in Nat /\ q.try + 1 >= q.try /\ q.try + 1 > 0
  BY <1>3, SMT
<1>8. Genuine(q.executor, q.tx, KeyOf(q), old, approved')
  BY <1>1, <1>4
<1>9. QED
  BY <1>1, <1>3, <1>4, <1>5, <1>6, <1>7, <1>8, PostEffects

(* The client changes the fee and signs anew.                              *)
LEMMA RepriceEffects ==
  ASSUME FlowInv, NEW r \in Slot, Reprice(r)
  PROVE  \E q1, X : Effects(r, q1, X)
<1> DEFINE q == reqs[r]
           e == q.executor
           c == decodeEvNodeTransaction(q.raw).transaction
           t == Raised(c)
           raw == encodeSignedTransaction(Signed(t, signAsExecutor(t, e)))
           req == [q EXCEPT !.tx = Unsigned(t), !.try = @ + 1]
           new == Raised(q.tx)
<1>1. /\ q.stage = "answered" /\ q.raw # None /\ q.sponsored
      /\ UNCHANGED <<pool, mined, bal, nonce, approved>>
  BY DEF Reprice, At
<1>2. Post(r, req, raw)
  BY DEF Reprice, Raised
<1>3. Started(q, approved) /\ ReqShape(q)
  BY <1>1, RequestOK, NotIdle
<1>4. q.try \in Nat /\ HasRaw(q, approved)
  BY <1>1, <1>3 DEF Started
<1>5. PICK old \in Draft : /\ Genuine(e, q.tx, KeyOf(q), old, approved)
                           /\ q.raw = Bytes(e, q.tx, KeyOf(q), old)
  BY <1>4 DEF HasRaw
<1>6. Parts(e, q.tx, KeyOf(q), old)
  BY <1>5 DEF Genuine
<1>7. c = Content(e, q.tx, KeyOf(q), old).transaction
  BY <1>5, <1>6, BytesRead, SMT
<1>8. /\ new \in Draft /\ new.maxFeePerGas > 0 /\ Unsigned(t) = new
      /\ raw = Bytes(e, new, KeyOf(q), old)
  BY <1>6, <1>7, RepriceWrites, SMTT(30)
<1> HIDE DEF c, t, raw, new
<1>9. Becomes(q, req, new, q.stage, q.raw, q.try + 1, q.reply, q.answer)
  BY <1>3, <1>8 DEF ReqShape, Becomes
<1> HIDE DEF req
<1>10. IsFiniteSet({}) /\ approved' = approved \cup {}
  BY <1>1, FS_EmptySet
<1>11. q.try + 1 \in Nat /\ q.try + 1 >= q.try /\ q.try + 1 > 0
  BY <1>4, SMT
<1>12. Genuine(e, new, KeyOf(q), old, approved')
  BY <1>1, <1>5, <1>8 DEF Genuine, Parts
<1>13. QED
  BY <1>1, <1>2, <1>8, <1>9, <1>10, <1>11, <1>12, PostEffects


-----------------------------------------------------------------------------
(* The steps of the service.                                               *)

(* What the service reads in the bytes of a request: its transaction, and  *)
(* its executor; a sponsor signature iff the client sponsored it.          *)
LEMMA ServiceReads ==
  ASSUME NEW q, NEW A, HasRaw(q, A)
  PROVE  LET signed == decodeEvNodeTransaction(q.raw)
         IN  /\ recoverExecutor(signed) = q.executor
             /\ SameFields(signed.transaction, q.tx)
             /\ signed.transaction.feePayerSignature # NoSignature <=> KeyOf(q) # None
             /\ KeyOf(q) = None => signed.transaction = q.tx
             /\ signed.executorSignature = SigOf(q.executor, computeExecutorSigningHash(q.tx))
<1>1. PICK old \in Draft : /\ Genuine(q.executor, q.tx, KeyOf(q), old, A)
                           /\ q.raw = Bytes(q.executor, q.tx, KeyOf(q), old)
  BY DEF HasRaw
<1> DEFINE e == q.executor
           tx == q.tx
           key == KeyOf(q)
           c == Content(e, tx, key, old)
<1>2. Parts(e, tx, key, old)
  BY <1>1 DEF Genuine
<1>3. decodeEvNodeTransaction(q.raw) = c
  BY <1>1, <1>2, BytesRead, SMT
<1>4. recoverExecutor(c) = e
  BY <1>2, ContentParties, SMT
<1>5. /\ SameFields(c.transaction, tx) /\ (IsSponsored(c.transaction) <=> key # None)
      /\ c.executorSignature = SigOf(e, computeExecutorSigningHash(tx))
  BY <1>2, ContentShape, SMT
<1>6. ASSUME key = None PROVE c.transaction = tx
  BY <1>2, <1>6 DEF Content, Carried, Draft, Parts
<1> HIDE DEF c
<1>7. QED
  BY <1>3, <1>4, <1>5, <1>6 DEF IsSponsored

(* handleEvNodeSendRaw up to its first call to the node.                   *)
LEMMA HandleSendRawEffects ==
  ASSUME FlowInv, NEW r \in Slot, HandleSendRaw(r)
  PROVE  \E q1, X : Effects(r, q1, X)
<1> DEFINE q == reqs[r]
           signed == decodeEvNodeTransaction(q.raw)
<1>1. q.stage = "service" /\ UNCHANGED <<pool, mined, bal, nonce, approved>>
  BY DEF HandleSendRaw, At
<1>2. ReqOK(q, approved) /\ Started(q, approved)
  BY <1>1, RequestOK, NotIdle
<1>3. HasRaw(q, approved) /\ q.sponsored \in BOOLEAN
  BY <1>1, <1>2 DEF Started
<1>4. /\ SameFields(signed.transaction, q.tx)
      /\ signed.transaction.feePayerSignature # NoSignature <=> KeyOf(q) # None
  BY <1>3, ServiceReads
<1>5. \/ Answer(r, "refused") /\ wire' = wire
      \/ Submit(r, q.raw)
      \/ /\ signed.transaction.feePayerSignature = NoSignature /\ validate(Intent(signed))
         /\ Set(r, [q EXCEPT !.stage = "balance", !.reply = None]) /\ wire' = wire
  BY DEF HandleSendRaw
<1> HIDE DEF signed
<1>6. CASE Answer(r, "refused") /\ wire' = wire
  BY <1>1, <1>6, AnswerEffects
<1>7. CASE Submit(r, q.raw)
  <2> DEFINE q1 == [q EXCEPT !.stage = "submit", !.reply = None]
             c == [slot |-> r, try |-> q.try, raw |-> q.raw]
  <2>1. reqs' = [reqs EXCEPT ![r] = q1] /\ wire' = wire \cup {c}
    BY <1>7 DEF Submit, Set
  <2>2. Becomes(q, q1, q.tx, "submit", q.raw, q.try, None, q.answer)
    BY <1>2 DEF ReqOK, ReqShape, Becomes
  <2>3. CallOK(c, approved)
    BY <1>3, RawIsGenuine
  <2> HIDE DEF q1, c
  <2>4. \A x \in wire' : x \in wire \/ CallOK(x, approved)
    BY <2>1, <2>3
  <2>5. Move(q, q1, approved)
    BY <1>1, <1>2, <2>2, SubmitMove
  <2>6. QED
    BY <1>1, <2>1, <2>4, <2>5, PlainEffects
<1>8. CASE /\ signed.transaction.feePayerSignature = NoSignature /\ validate(Intent(signed))
           /\ Set(r, [q EXCEPT !.stage = "balance", !.reply = None]) /\ wire' = wire
  <2> DEFINE q1 == [q EXCEPT !.stage = "balance", !.reply = None]
  <2>1. ~q.sponsored
    BY <1>4, <1>8, PartyAssumption DEF KeyOf, Account
  <2>2. WithinPolicy(q.tx)
    BY <1>4, <1>8 DEF WithinPolicy, SameFields, validate, Intent
  <2>3. Becomes(q, q1, q.tx, "balance", q.raw, q.try, None, q.answer)
    BY <1>2 DEF ReqOK, ReqShape, Becomes
  <2>4. reqs' = [reqs EXCEPT ![r] = q1]
    BY <1>8 DEF Set
  <2> HIDE DEF q1
  <2>5. Move(q, q1, approved)
    BY <1>1, <1>2, <2>1, <2>2, <2>3, BalanceMove
  <2>6. Effects(r, q1, {})
    BY <1>1, <1>8, <2>4, <2>5, PlainEffects
  <2>7. QED
    BY <2>6
<1>9. QED
  BY <1>5, <1>6, <1>7, <1>8

(* A cost within the policy.                                               *)
LEMMA PolicyCost ==
  ASSUME NEW tx \in Draft, WithinPolicy(tx)
  PROVE  Cost(tx) <= MaxCost
<1>1. \A a, b, c, d \in Nat : a <= b /\ c <= d => a * c <= b * d
  <2>1. QED
    BY SMT
<1>2. QED
  BY <1>1, SponsorAssumption DEF WithinPolicy, Cost, MaxCost, Draft

(* The rest of sponsorIntent.                                              *)
LEMMA SponsorIntentEffects ==
  ASSUME FlowInv, NEW r \in Slot, sponsorIntent(r)
  PROVE  \E q1, X : Effects(r, q1, X)
<1> DEFINE q == reqs[r]
           signed == decodeEvNodeTransaction(q.raw)
           e == recoverExecutor(signed)
           tx == signed.transaction
           raw == encodeSignedTransaction(Signed(WithSponsor(tx, e, Sponsor), signed.executorSignature))
<1>1. q.stage = "balance" /\ q.reply # None /\ UNCHANGED <<pool, mined, bal, nonce>>
  BY DEF sponsorIntent, At
<1>2. ReqOK(q, approved) /\ Started(q, approved)
  BY <1>1, RequestOK, NotIdle
<1>3. /\ HasRaw(q, approved) /\ q.reply \in Nat /\ ~q.sponsored /\ WithinPolicy(q.tx)
      /\ q.executor \in Executor /\ q.tx \in Draft
      /\ q.stage # "answered" /\ q.try = 0 => q.answer = None
      /\ q.try \in Nat
  BY <1>1, <1>2 DEF Started
<1>4. CASE q.reply < minSponsorBalance
  BY <1>1, <1>4, AnswerEffects DEF sponsorIntent
<1>5. CASE ~(q.reply < minSponsorBalance)
  <2> DEFINE q1 == [q EXCEPT !.stage = "submit", !.reply = None]
             c == [slot |-> r, try |-> q.try, raw |-> raw]
             a == <<Sponsor, q.executor, q.tx>>
  <2>1. Submit(r, raw) /\ approved' = approved \cup {<<Sponsor, e, tx>>}
    BY <1>5 DEF sponsorIntent, SubmitSponsored
  <2>2. /\ e = q.executor /\ tx = q.tx
        /\ signed.executorSignature = SigOf(q.executor, computeExecutorSigningHash(q.tx))
    BY <1>3, ServiceReads DEF KeyOf
  <2>3. raw = Bytes(q.executor, q.tx, Sponsor, q.tx)
    <3> HIDE DEF signed
    <3>1. QED
      BY <1>3, <2>2, SignNormal, SponsorWrites, SMTT(30) DEF Account, SponsorKey
  <2>4. reqs' = [reqs EXCEPT ![r] = q1] /\ wire' = wire \cup {c}
    BY <2>1 DEF Submit, Set
  <2>5. approved' = approved \cup {a}
    BY <2>1, <2>2
  <2> HIDE DEF raw, signed
  <2>6. Becomes(q, q1, q.tx, "submit", q.raw, q.try, None, q.answer)
    BY <1>2 DEF ReqOK, ReqShape, Becomes
  <2>7. Move(q, q1, approved')
    <3> HIDE DEF q1
    <3>1. QED
      BY <1>1, <1>2, <2>5, <2>6, MoreApprovals, SubmitMove
  <2>8. CallOK(c, approved')
    <3>1. c.slot = r /\ c.raw = raw
      OBVIOUS
    <3> HIDE DEF c
    <3>2. QED
      BY <1>3, <2>3, <2>5, <3>1, ZenonT(30) DEF CallOK, Genuine, Parts, SponsorKey
  <2>9. ApprovedOK(a)
    BY <1>3, PolicyCost DEF ApprovedOK, SponsorKey
  <2>10. Accounts(a, q1)
    <3>1. a[2] = q.executor /\ a[3] = q.tx
      OBVIOUS
    <3>2. q.try = 0 => q.answer # "refused"
      BY <1>1, <1>3, AnswerAssumption
    <3> HIDE DEF q1, a
    <3>3. QED
      BY <1>3, <2>6, <3>1, <3>2, SMTT(30) DEF Accounts, Becomes
  <2>11. Ready(q)
    BY <1>1, <1>3, <1>5, SponsorAssumption, SMT DEF Ready
  <2>12. a[2] = q.executor /\ a[3] = q.tx
    OBVIOUS
  <2> HIDE DEF q1, a, c
  <2>13. \A x \in {a} : /\ ApprovedOK(x)
                        /\ x[1] = Sponsor => /\ Accounts(x, q1) /\ Ready(q)
                                             /\ x[2] = q.executor /\ x[3] = q.tx
    BY <2>9, <2>10, <2>11, <2>12
  <2>14. Effects(r, q1, {a})
    BY <1>1, <2>4, <2>5, <2>7, <2>8, <2>13, FS_Singleton DEF Effects, Move
  <2>15. QED
    BY <2>14
<1>6. QED
  BY <1>4, <1>5

(* An answer is received, or given up.                                     *)
LEMMA ReceiveEffects ==
  ASSUME FlowInv, NEW r \in Slot, Receive(r) \/ Timeout(r)
  PROVE  \E q1, X : Effects(r, q1, X)
<1>1. CASE Receive(r)
  BY <1>1, RequestOK, NotIdle, AnswerEffects DEF Started, Receive, At
<1>2. CASE Timeout(r)
  BY <1>2, AnswerEffects DEF Timeout
<1>3. QED
  BY <1>1, <1>2

(* eth_getBalance is answered.                                             *)
LEMMA AnswerBalanceEffects ==
  ASSUME FlowInv, NEW r \in Slot, AnswerBalance(r)
  PROVE  \E q1, X : Effects(r, q1, X)
<1> DEFINE q == reqs[r]
           q1 == [q EXCEPT !.reply = bal[Sponsor]]
<1>1. /\ q.stage = "balance" /\ reqs' = [reqs EXCEPT ![r] = q1]
      /\ UNCHANGED <<wire, pool, mined, bal, nonce, approved>>
  BY DEF AnswerBalance, At, Set
<1>2. bal[Sponsor] \in Nat /\ minSponsorBalance \in Nat
  BY SponsorAssumption DEF FlowInv, LedgerInv, Account
<1>3. ReqOK(q, approved)
  BY RequestOK
<1>4. Becomes(q, q1, q.tx, q.stage, q.raw, q.try, bal[Sponsor], q.answer)
  BY <1>3 DEF ReqOK, ReqShape, Becomes
<1> HIDE DEF q1
<1>5. /\ ReqOK(q1, approved) /\ Loyal(q, q1)
      /\ bal[Sponsor] < minSponsorBalance => Quiet(q, q1)
  BY <1>1, <1>2, <1>3, <1>4, ReplyMove
<1>6. Effects(r, q1, {})
  BY <1>1, <1>2, <1>5, FS_EmptySet, SMTT(30) DEF Effects
<1>7. QED
  BY <1>6


-----------------------------------------------------------------------------
(* The invariant is kept.                                                  *)

(* Enough to keep the first part of the invariant: nothing is forgotten,   *)
(* and what is new is in order.                                            *)
LEMMA FlowKept ==
  ASSUME FlowInv, RequestsInv', LedgerInv',
         \A s \in Slot : Loyal(reqs[s], reqs'[s]),
         approved \subseteq approved', IsFiniteSet(approved'),
         \A a \in approved' : \/ a \in approved
                              \/ /\ ApprovedOK(a)
                                 /\ a[1] = Sponsor => \E s \in Slot : Accounts(a, reqs'[s]),
         \A c \in wire' : c \in wire \/ CallOK(c, approved'),
         \A t \in pool' : t \in pool \/ PoolOK(t, approved'), IsFiniteSet(pool'),
         \A m \in mined' : m \in mined \/ MinedOK(m, approved')
  PROVE  FlowInv'
<1>1. NodeInv'
  <2>1. QED
    BY MoreApprovals DEF NodeInv, FlowInv
<1>2. ApprovalInv'
  BY DEF ApprovalInv, Loyal, FlowInv
<1>3. QED
  BY <1>1, <1>2 DEF FlowInv

(* Only the request of slot r changes.                                     *)
LEMMA OneRequest ==
  ASSUME FlowInv, NEW r \in Slot, NEW q1, reqs' = [reqs EXCEPT ![r] = q1],
         ReqOK(q1, approved'), Loyal(reqs[r], q1), approved \subseteq approved'
  PROVE  /\ reqs'[r] = q1 /\ \A s \in Slot : s # r => reqs'[s] = reqs[s]
         /\ RequestsInv' /\ \A s \in Slot : Loyal(reqs[s], reqs'[s])
<1>1. reqs = [s \in Slot |-> reqs[s]] /\ \A s \in Slot : ReqOK(reqs[s], approved)
  BY DEF FlowInv, RequestsInv
<1>2. QED
  BY <1>1, MoreApprovals DEF RequestsInv, Loyal

(* A step of a client or of the service keeps it.                          *)
LEMMA EffectsKeep ==
  ASSUME FlowInv, NEW r, NEW q1, NEW X, Effects(r, q1, X)
  PROVE  FlowInv'
<1>1. /\ r \in Slot /\ reqs' = [reqs EXCEPT ![r] = q1]
      /\ ReqOK(q1, approved') /\ Loyal(reqs[r], q1)
      /\ IsFiniteSet(X) /\ approved' = approved \cup X
      /\ \A a \in X : ApprovedOK(a) /\ (a[1] = Sponsor => Accounts(a, q1))
      /\ \A c \in wire' : c \in wire \/ CallOK(c, approved')
      /\ pool' = pool /\ mined' = mined /\ bal' = bal /\ nonce' = nonce
  BY DEF Effects
<1>2. /\ reqs'[r] = q1 /\ RequestsInv' /\ \A s \in Slot : Loyal(reqs[s], reqs'[s])
  BY <1>1, OneRequest
<1>3. IsFiniteSet(approved') /\ IsFiniteSet(pool')
  BY <1>1, FS_Union DEF FlowInv, ApprovalInv, NodeInv
<1>4. QED
  BY <1>1, <1>2, <1>3, FlowKept DEF FlowInv, LedgerInv

-----------------------------------------------------------------------------
(* The steps of the node.                                                  *)

(* What is known of a transaction of the pool.                             *)
LEMMA PoolParts ==
  ASSUME NEW t, NEW A, PoolOK(t, A)
  PROVE  \E e, tx, key, old :
           /\ Genuine(e, tx, key, old, A) /\ Parts(e, tx, key, old)
           /\ t.signed = Content(e, tx, key, old) /\ t.from = e
           /\ t.payer = Payer(e, tx, key, old)
           /\ SameFields(t.tx, tx) /\ (IsSponsored(t.tx) <=> key # None)
           /\ tx.calls # <<>>
           /\ from_tx_compact(to_tx_compact(t.signed)) = t.signed
<1>1. PICK e, tx, key, old :
        /\ Genuine(e, tx, key, old, A)
        /\ t = Recovered(Content(e, tx, key, old)) /\ tx.calls # <<>>
        /\ from_tx_compact(to_tx_compact(Content(e, tx, key, old))) = Content(e, tx, key, old)
  BY DEF PoolOK
<1> DEFINE c == Content(e, tx, key, old)
<1>2. Parts(e, tx, key, old)
  BY <1>1 DEF Genuine
<1>3. t = [signed |-> c, tx |-> c.transaction, from |-> e, payer |-> Payer(e, tx, key, old)]
  BY <1>1, <1>2, ContentParties, SMTT(30)
<1>4. SameFields(c.transaction, tx) /\ (IsSponsored(c.transaction) <=> key # None)
  BY <1>2, ContentShape
<1> HIDE DEF c
<1>5. /\ t.signed = c /\ t.tx = c.transaction /\ t.from = e /\ t.payer = Payer(e, tx, key, old)
  BY <1>3
<1>6. /\ Genuine(e, tx, key, old, A) /\ Parts(e, tx, key, old)
      /\ t.signed = Content(e, tx, key, old) /\ t.from = e
      /\ t.payer = Payer(e, tx, key, old)
      /\ SameFields(t.tx, tx) /\ (IsSponsored(t.tx) <=> key # None)
      /\ tx.calls # <<>>
      /\ from_tx_compact(to_tx_compact(t.signed)) = t.signed
  BY <1>1, <1>2, <1>4, <1>5 DEF c
<1>7. QED
  BY <1>6

(* A reply reaches at most the request that waits for it.                  *)
LEMMA ReplyEffects ==
  ASSUME FlowInv, NEW call, call.slot \in Slot, NEW x \in {"ok", "error"}, Reply(call, x),
         approved' = approved
  PROVE  /\ RequestsInv'
         /\ \A s \in Slot : Loyal(reqs[s], reqs'[s]) /\ Quiet(reqs[s], reqs'[s])
<1> DEFINE r == call.slot
           q1 == [reqs[r] EXCEPT !.reply = x]
<1>1. CASE reqs' = reqs
  BY <1>1 DEF FlowInv, RequestsInv, Loyal, Quiet
<1>2. CASE reqs[r].stage = "submit" /\ reqs' = [reqs EXCEPT ![r].reply = x]
  <2>1. reqs' = [reqs EXCEPT ![r] = q1]
    BY <1>2
  <2>2. ReqOK(reqs[r], approved)
    BY RequestOK
  <2>3. Becomes(reqs[r], q1, reqs[r].tx, reqs[r].stage, reqs[r].raw, reqs[r].try, x, reqs[r].answer)
    BY <2>2 DEF ReqOK, ReqShape, Becomes
  <2> HIDE DEF q1
  <2>4. ReqOK(q1, approved) /\ Loyal(reqs[r], q1) /\ Quiet(reqs[r], q1)
    BY <1>2, <2>2, <2>3, ReplyMove
  <2>5. /\ reqs'[r] = q1 /\ \A s \in Slot : s # r => reqs'[s] = reqs[s]
        /\ RequestsInv' /\ \A s \in Slot : Loyal(reqs[s], reqs'[s])
    BY <2>1, <2>4, OneRequest
  <2>6. QED
    BY <2>4, <2>5 DEF Quiet
<1>3. QED
  BY <1>1, <1>2 DEF Reply, At

(* eth_sendRawTransaction.                                                 *)
LEMMA SendRawEffects ==
  ASSUME FlowInv, NEW call \in wire, SendRawTransaction(call)
  PROVE  /\ RequestsInv'
         /\ \A s \in Slot : Loyal(reqs[s], reqs'[s]) /\ Quiet(reqs[s], reqs'[s])
         /\ wire' \subseteq wire
         /\ \A t \in pool' : t \in pool \/ PoolOK(t, approved)
         /\ IsFiniteSet(pool')
<1> DEFINE signed == decode_2718(call.raw)
           t == Recovered(signed)
<1>1. PICK e, tx, key, old : /\ Genuine(e, tx, key, old, approved)
                             /\ call.raw = Bytes(e, tx, key, old)
  BY DEF FlowInv, NodeInv, CallOK
<1>2. wire' \subseteq wire /\ approved' = approved
  BY DEF SendRawTransaction
<1>3. \/ Reply(call, "error") /\ pool' = pool
      \/ /\ signed # Invalid /\ Accepts(t) /\ Reply(call, "ok")
         /\ pool' = {u \in pool : ~SameSlot(t, u)} \cup {t}
  BY DEF SendRawTransaction
<1> HIDE DEF signed, t
<1>4. /\ RequestsInv'
      /\ \A s \in Slot : Loyal(reqs[s], reqs'[s]) /\ Quiet(reqs[s], reqs'[s])
  BY <1>2, <1>3, ReplyEffects DEF FlowInv, NodeInv, CallOK
<1>5. IsFiniteSet(pool)
  BY DEF FlowInv, NodeInv
<1>6. CASE /\ signed # Invalid /\ Accepts(t)
           /\ pool' = {u \in pool : ~SameSlot(t, u)} \cup {t}
  <2> DEFINE c == Content(e, tx, key, old)
             P == {u \in pool : ~SameSlot(t, u)}
  <2>1. Parts(e, tx, key, old)
    BY <1>1 DEF Genuine
  <2>2. signed = c /\ from_tx_compact(to_tx_compact(c)) = c
    BY <1>1, <1>6, <2>1, BytesRead, ZenonT(30) DEF signed
  <2>3. t = Recovered(c)
    BY <2>2 DEF t
  <2>4. SameFields(c.transaction, tx)
    BY <2>1, ContentShape
  <2>5. t.tx.calls # <<>>
    BY <1>6 DEF Accepts, validateEvNodeTx
  <2>6. tx.calls # <<>>
    BY <2>3, <2>4, <2>5 DEF SameFields, Recovered
  <2>7. PoolOK(t, approved)
    BY <1>1, <2>2, <2>3, <2>6 DEF PoolOK
  <2> HIDE DEF P, c
  <2>8. QED
    BY <1>2, <1>4, <1>5, <1>6, <2>7, FS_Subset, FS_AddElement
<1>7. CASE pool' = pool
  BY <1>2, <1>4, <1>5, <1>7
<1>8. QED
  BY <1>3, <1>6, <1>7

(* The value of the calls is a number.                                     *)
LEMMA ValueType ==
  ASSUME NEW tx, tx.calls \in Seq(Call)
  PROVE  Value(tx) \in Nat
<1> DEFINE v == [i \in DOMAIN tx.calls |-> tx.calls[i].value]
<1>1. v \in Seq(Nat)
  <2>1. \A i \in 1 .. Len(tx.calls) : tx.calls[i].value \in Nat
    <3>1. \A c \in Call : c.value \in Nat
      BY DEF Call
    <3>2. QED
      BY <3>1, SMT
  <2>2. v \in [1 .. Len(tx.calls) -> Nat]
    BY <2>1, SMT
  <2> HIDE DEF v
  <2>3. QED
    BY <2>2, SMT
<1> HIDE DEF v
<1>2. QED
  BY <1>1, PrefixSumsGrow DEF Value, v


(* Products of numbers.                                                    *)
LEMMA Products ==
  /\ \A m, n \in Nat : m * n \in Nat
  /\ \A m, n \in Nat : m > 0 /\ n > 0 => m * n > 0
  /\ \A k, m, n \in Nat : k <= m => k * n <= m * n
<1>1. QED
  BY SMT

(* The cost of a draft is a number, and at least one where the gas covers  *)
(* the calls and the fee is not zero.                                      *)
LEMMA CostType ==
  ASSUME NEW tx \in Draft
  PROVE  /\ Cost(tx) \in Nat
         /\ tx.calls # <<>> /\ validate_initial_tx_gas(tx) /\ tx.maxFeePerGas > 0
              => Cost(tx) > 0
<1>1. tx.gasLimit \in Nat /\ tx.maxFeePerGas \in Nat /\ tx.calls \in Seq(Call)
  BY DEF Draft
<1>2. ASSUME tx.calls # <<>>, validate_initial_tx_gas(tx) PROVE tx.gasLimit > 0
  BY <1>1, <1>2, GasOfCalls, SMT DEF validate_initial_tx_gas
<1>3. QED
  BY <1>1, <1>2, Products DEF Cost

(* t is the transaction tx of e, sponsored by key or by nobody.            *)
IsOf(t, e, tx, key) ==
  /\ Genuine(e, tx, key, tx, approved)
  /\ t.from = e /\ t.payer = Payer(e, tx, key, tx)
  /\ SameFields(t.tx, tx) /\ (IsSponsored(t.tx) <=> key # None)

(* Who is charged for a transaction of the pool that is mined: never the   *)
(* account that a signature of something else recovers.                    *)
LEMMA MinedParts ==
  ASSUME FlowInv, NEW t \in pool, Mine(t)
  PROVE  /\ \E e, tx, key : IsOf(t, e, tx, key)
         /\ MinedOK([stored |-> to_tx_compact(t.signed), charged |-> t.payer], approved)
<1>1. PICK e, tx, key, old :
        /\ Genuine(e, tx, key, old, approved) /\ Parts(e, tx, key, old)
        /\ t.signed = Content(e, tx, key, old) /\ t.from = e
        /\ t.payer = Payer(e, tx, key, old)
        /\ SameFields(t.tx, tx) /\ (IsSponsored(t.tx) <=> key # None)
        /\ tx.calls # <<>>
        /\ from_tx_compact(to_tx_compact(t.signed)) = t.signed
  BY PoolParts DEF FlowInv, NodeInv
<1>2. Cost(t.tx) = Cost(tx) /\ validate_initial_tx_gas(tx)
  BY <1>1 DEF Mine, SameFields, Cost, validate_initial_tx_gas
<1>3. ASSUME key # None PROVE old = tx
  <2>1. SUFFICES ASSUME old # tx PROVE FALSE
    OBVIOUS
  <2>2. t.payer = Stranger /\ tx.maxFeePerGas > 0
    BY <1>1, <1>3, <2>1 DEF Payer, Genuine
  <2>3. Cost(tx) \in Nat /\ Cost(tx) > 0
    BY <1>1, <1>2, <2>2, CostType DEF Parts
  <2>4. QED
    BY <1>1, <1>2, <1>3, <2>2, <2>3, SMTT(30) DEF FlowInv, LedgerInv, Mine, Funded
<1>4. MinedOK([stored |-> to_tx_compact(t.signed), charged |-> t.payer], approved)
  <2> DEFINE m == [stored |-> to_tx_compact(t.signed), charged |-> t.payer]
  <2> HIDE DEF m
  <2>1. QED
    BY <1>1, <1>3 DEF MinedOK, m
<1>5. IsOf(t, e, tx, key)
  BY <1>1, <1>3 DEF IsOf, Genuine, Parts, Payer
<1>6. QED
  BY <1>4, <1>5

(* The accounts of a mined transaction.                                    *)
LEMMA MinedAccounts ==
  ASSUME NEW e, NEW tx, NEW key, NEW A, Genuine(e, tx, key, tx, A)
  PROVE  LET p == Payer(e, tx, key, tx)
         IN  /\ e \in Account /\ p \in Account /\ Stranger \notin {e, p} /\ e # Sponsor
             /\ p = e <=> key = None
             /\ p = Sponsor => key = Sponsor
             /\ tx \in Draft
BY PartyAssumption DEF Payer, SponsorKey, Account, Genuine, Parts

(* The ledger when a transaction is mined.                                 *)
LEMMA MineLedger ==
  ASSUME FlowInv, NEW t \in pool, Mine(t)
  PROVE  /\ LedgerInv'
         /\ \A a \in Account : nonce[a] <= nonce'[a]
         /\ nonce'[t.from] = nonce[t.from] + 1
         /\ bal'[Sponsor] = IF t.payer = Sponsor THEN bal[Sponsor] - Cost(t.tx) ELSE bal[Sponsor]
<1>1. PICK e, tx, key : IsOf(t, e, tx, key)
  BY MinedParts
<1>2. /\ Genuine(e, tx, key, tx, approved)
      /\ t.from = e /\ t.payer = Payer(e, tx, key, tx)
      /\ SameFields(t.tx, tx) /\ (IsSponsored(t.tx) <=> key # None)
  BY <1>1 DEF IsOf
<1> DEFINE p == t.payer
           c == Cost(t.tx)
           v == Value(t.tx)
<1>3. /\ e \in Account /\ p \in Account /\ Stranger # e /\ Stranger # p /\ e # Sponsor
      /\ (p = e <=> key = None) /\ tx \in Draft
  BY <1>2, MinedAccounts, SMT
<1>4. c \in Nat /\ v \in Nat
  BY <1>2, <1>3, CostType, ValueType DEF SameFields, Cost, Draft
<1>5. bal \in [Account -> Nat] /\ bal[Stranger] = 0 /\ nonce \in [Account -> Nat]
  BY DEF FlowInv, LedgerInv
<1>6. /\ bal' = [[bal EXCEPT ![p] = @ - c] EXCEPT ![e] = @ - v]
      /\ nonce' = [nonce EXCEPT ![e] = @ + 1]
  BY <1>2 DEF Mine
<1>7. IF p = e THEN bal[e] >= c + v ELSE bal[p] >= c /\ bal[e] >= v
  BY <1>2, <1>3 DEF Mine, Funded
<1>8. t.from = e /\ Sponsor \in Account /\ Stranger \in Account /\ Sponsor # Stranger
  BY <1>2, PartyAssumption DEF Account
<1> HIDE DEF p, c, v
<1>9. /\ nonce' \in [Account -> Nat] /\ nonce'[e] = nonce[e] + 1
      /\ \A a \in Account : nonce[a] <= nonce'[a]
  BY <1>3, <1>5, <1>6, SMT
<1>10. \A a \in Account :
         bal'[a] = IF a = p THEN IF a = e THEN bal[a] - c - v ELSE bal[a] - c
                   ELSE IF a = e THEN bal[a] - v ELSE bal[a]
  BY <1>5, <1>6
<1>11. \A a \in Account : bal'[a] \in Nat
  <2>1. SUFFICES ASSUME NEW a \in Account PROVE bal'[a] \in Nat
    OBVIOUS
  <2>2. bal[a] \in Nat /\ bal[e] \in Nat /\ bal[p] \in Nat
    BY <1>3, <1>5
  <2>3. QED
    BY <1>4, <1>7, <1>10, <2>2, SMT
<1>12. QED
  BY <1>3, <1>5, <1>6, <1>8, <1>9, <1>10, <1>11 DEF p, c, LedgerInv

(* A transaction is mined: the first part of the invariant is kept.        *)
LEMMA MineKeeps ==
  ASSUME FlowInv, NEW t \in pool, Mine(t)
  PROVE  FlowInv'
<1> DEFINE m == [stored |-> to_tx_compact(t.signed), charged |-> t.payer]
<1>1. /\ mined' = mined \cup {m} /\ pool' = pool \ {t}
      /\ reqs' = reqs /\ wire' = wire /\ approved' = approved
  BY DEF Mine
<1>2. MinedOK(m, approved)
  BY MinedParts
<1> HIDE DEF m
<1>3. IsFiniteSet(approved') /\ IsFiniteSet(pool')
  BY <1>1, FS_Subset DEF FlowInv, ApprovalInv, NodeInv
<1>4. \A x \in mined' : x \in mined \/ MinedOK(x, approved')
  BY <1>1, <1>2
<1>5. QED
  BY <1>1, <1>3, <1>4, MineLedger, FlowKept DEF FlowInv, RequestsInv, Loyal

(* eth_sendRawTransaction, and a lost call, keep it.                       *)
LEMMA CallKeeps ==
  ASSUME FlowInv, NEW call \in wire, SendRawTransaction(call) \/ LoseCall(call)
  PROVE  /\ FlowInv' /\ \A s \in Slot : Quiet(reqs[s], reqs'[s])
         /\ approved' = approved /\ bal' = bal /\ nonce' = nonce
<1>1. mined' = mined /\ approved' = approved /\ bal' = bal /\ nonce' = nonce
  BY DEF SendRawTransaction, LoseCall
<1>2. /\ RequestsInv'
      /\ \A s \in Slot : Loyal(reqs[s], reqs'[s]) /\ Quiet(reqs[s], reqs'[s])
      /\ wire' \subseteq wire
      /\ \A t \in pool' : t \in pool \/ PoolOK(t, approved)
      /\ IsFiniteSet(pool')
  <2>1. CASE SendRawTransaction(call)
    BY <2>1, SendRawEffects
  <2>2. CASE LoseCall(call)
    BY <2>2 DEF RequestsInv, Loyal, Quiet, LoseCall, FlowInv, NodeInv
  <2>3. QED
    BY <2>1, <2>2
<1>3. QED
  BY <1>1, <1>2, FlowKept DEF FlowInv, LedgerInv, ApprovalInv


-----------------------------------------------------------------------------
(* The open sponsorships.                                                  *)

(* The sponsorships that requests R of the service will sign.              *)
ReadyPairs(R) == {<<R[r].executor, R[r].tx.nonce>> : r \in {q \in Slot : Ready(R[q])}}

(* The sponsorships that the service has signed and no block has passed.   *)
SignedPairs(A, N) ==
  {<<a[2], a[3].nonce>> : a \in {b \in A : b[1] = Sponsor /\ b[3].nonce >= N[b[2]]}}

(* The open sponsorships.                                                  *)
OpenOf(R, A, N) == ReadyPairs(R) \cup SignedPairs(A, N)

(* Those of them that can still be charged.                                *)
LiveOf(R, A, N) == {p \in OpenOf(R, A, N) : p[2] >= N[p[1]]}

(* Open and Live are these sets of the state, before and after a step.     *)
LEMMA OpenIsOpen ==
  /\ Open = OpenOf(reqs, approved, nonce) /\ Live = LiveOf(reqs, approved, nonce)
  /\ Open' = OpenOf(reqs', approved', nonce') /\ Live' = LiveOf(reqs', approved', nonce')
<1>1. Open = OpenOf(reqs, approved, nonce)
  BY DEF Open, OpenOf, ReadyPairs, SignedPairs, Ready, At
<1>2. Open' = OpenOf(reqs', approved', nonce')
  BY DEF Open, OpenOf, ReadyPairs, SignedPairs, Ready, At
<1>3. QED
  BY <1>1, <1>2 DEF Live, LiveOf

(* There are finitely many.                                                *)
LEMMA OpenFinite ==
  ASSUME NEW R, NEW A, NEW N, IsFiniteSet(A)
  PROVE  /\ IsFiniteSet(OpenOf(R, A, N)) /\ Cardinality(OpenOf(R, A, N)) \in Nat
         /\ IsFiniteSet(LiveOf(R, A, N)) /\ Cardinality(LiveOf(R, A, N)) \in Nat
         /\ Cardinality(LiveOf(R, A, N)) <= Cardinality(OpenOf(R, A, N))
<1>1. IsFiniteSet(ReadyPairs(R))
  <2> DEFINE S == {q \in Slot : Ready(R[q])}
             f == [r \in S |-> <<R[r].executor, R[r].tx.nonce>>]
  <2>1. IsFiniteSet(Slot)
    BY SponsorAssumption, FS_Interval, SMT DEF Slot
  <2>2. IsFiniteSet(S)
    BY <2>1, FS_Subset
  <2>3. ReadyPairs(R) = {<<R[r].executor, R[r].tx.nonce>> : r \in S}
    BY DEF ReadyPairs
  <2> HIDE DEF S
  <2>4. f \in Surjection(S, ReadyPairs(R))
    BY <2>3 DEF Surjection
  <2> HIDE DEF f
  <2>5. QED
    BY <2>2, <2>4, FS_Surjection
<1>2. IsFiniteSet(SignedPairs(A, N))
  <2> DEFINE S == {b \in A : b[1] = Sponsor /\ b[3].nonce >= N[b[2]]}
             f == [a \in S |-> <<a[2], a[3].nonce>>]
  <2>1. S \subseteq A
    OBVIOUS
  <2>2. SignedPairs(A, N) = {<<a[2], a[3].nonce>> : a \in S}
    BY DEF SignedPairs
  <2> HIDE DEF S
  <2>3. IsFiniteSet(S)
    BY <2>1, FS_Subset
  <2>4. f \in Surjection(S, SignedPairs(A, N))
    BY <2>2 DEF Surjection
  <2> HIDE DEF f
  <2>5. QED
    BY <2>3, <2>4, FS_Surjection
<1>3. QED
  BY <1>1, <1>2, FS_Union, FS_Subset, FS_CardinalityType DEF OpenOf, LiveOf

(* The pairs are of executors and nonces.                                  *)
LEMMA OpenType ==
  ASSUME NEW R, NEW A, NEW N,
         \A s \in Slot : ReqOK(R[s], A), \A a \in A : ApprovedOK(a)
  PROVE  OpenOf(R, A, N) \subseteq Executor \X Nat
<1>1. ASSUME NEW s \in Slot, Ready(R[s]) PROVE <<R[s].executor, R[s].tx.nonce>> \in Executor \X Nat
  BY <1>1, NotIdle DEF Started, Draft, Ready
<1>2. ASSUME NEW a \in A PROVE <<a[2], a[3].nonce>> \in Executor \X Nat
  <2>1. PICK key \in SponsorKey, e \in Executor, tx \in Draft : a = <<key, e, tx>>
    BY SMT DEF ApprovedOK
  <2>2. QED
    BY <2>1 DEF Draft
<1>3. QED
  BY <1>1, <1>2 DEF OpenOf, ReadyPairs, SignedPairs

(* No new sponsorship: every request that is ready was, every approval of  *)
(* the service is of a request that was ready, and nonces only grow.       *)
NoneOpened(R, A, M, S, B, N) ==
  /\ \A s \in Slot : Quiet(R[s], S[s])
  /\ \A b \in B : b[1] = Sponsor =>
       b \in A \/ \E s \in Slot : Ready(R[s]) /\ b[2] = R[s].executor /\ b[3] = R[s].tx
  /\ \A a \in Account : M[a] <= N[a]

(* A number that is at least b is at least whatever b is at least.          *)
LEMMA AtLeast ==
  ASSUME NEW a \in Nat, NEW b \in Nat, NEW c \in Nat, a >= b, c <= b
  PROVE  a >= c
BY SMT

(* A step that opens no sponsorship makes neither set larger.              *)
LEMMA OpenShrinks ==
  ASSUME NEW R, NEW A, NEW M \in [Account -> Nat], NEW S, NEW B, NEW N \in [Account -> Nat],
         NoneOpened(R, A, M, S, B, N),
         \A s \in Slot : ReqOK(S[s], B), \A b \in B : ApprovedOK(b)
  PROVE  /\ OpenOf(S, B, N) \subseteq OpenOf(R, A, M)
         /\ LiveOf(S, B, N) \subseteq LiveOf(R, A, M)
<1>1. OpenOf(S, B, N) \subseteq Executor \X Nat
  BY OpenType
<1>2. \A e \in Executor : e \in Account /\ M[e] \in Nat /\ N[e] \in Nat /\ M[e] <= N[e]
  BY DEF Account, NoneOpened
<1>3. SignedPairs(B, N) \subseteq OpenOf(R, A, M)
  <2>1. SUFFICES ASSUME NEW b \in B, b[1] = Sponsor, b[3].nonce >= N[b[2]]
                 PROVE  <<b[2], b[3].nonce>> \in OpenOf(R, A, M)
    BY DEF SignedPairs
  <2>2. CASE \E s \in Slot : Ready(R[s]) /\ b[2] = R[s].executor /\ b[3] = R[s].tx
    BY <2>2 DEF OpenOf, ReadyPairs
  <2>3. CASE b \in A
    <3>1. PICK key \in SponsorKey, e \in Executor, tx \in Draft : b = <<key, e, tx>>
      BY SMT DEF ApprovedOK
    <3>2. b[2] = e /\ b[3] = tx /\ tx.nonce \in Nat
      BY <3>1 DEF Draft
    <3>3. b[3].nonce >= M[b[2]]
      <4>1. tx.nonce >= M[e]
        BY <1>2, <2>1, <3>2, AtLeast DEF Account
      <4>2. QED
        BY <3>2, <4>1
    <3>4. QED
      BY <2>1, <2>3, <3>3 DEF OpenOf, SignedPairs
  <2>4. QED
    BY <2>1, <2>2, <2>3 DEF NoneOpened
<1>4. OpenOf(S, B, N) \subseteq OpenOf(R, A, M)
  BY <1>3 DEF OpenOf, ReadyPairs, NoneOpened, Quiet
<1>5. ASSUME NEW p \in LiveOf(S, B, N) PROVE p \in LiveOf(R, A, M)
  <2>1. p \in OpenOf(S, B, N) /\ p[2] >= N[p[1]]
    BY DEF LiveOf
  <2>2. p[1] \in Executor /\ p[2] \in Nat
    BY <1>1, <2>1
  <2>3. QED
    BY <1>2, <1>4, <2>2, SMT DEF LiveOf
<1>6. QED
  BY <1>4, <1>5

-----------------------------------------------------------------------------
(* The account of the service.                                             *)

(* With the numbers only: b is the balance, k the most that were open, l   *)
(* how many are live, m the cost of one.                                   *)
LEMMA Covers ==
  ASSUME NEW b \in Nat, NEW k \in Nat, NEW l \in Nat, NEW m \in Nat, NEW f \in Nat,
         b + (k - l) * m >= f, l <= k,
         NEW c \in Nat, NEW j \in Nat, NEW i \in Nat, j >= k, i <= j,
         \/ c = b /\ i <= l
         \/ c + m >= b /\ i + 1 <= l
  PROVE  c + (j - i) * m >= f
<1> DEFINE x == k - l
           y == j - i
<1>1. x \in Nat /\ y \in Nat
  BY SMT
<1>2. CASE c = b /\ i <= l
  <2> HIDE DEF x, y
  <2>1. QED
    BY <1>2, SMT DEF y, x
<1>3. CASE c + m >= b /\ i + 1 <= l
  <2>1. x + 1 <= y /\ x + 1 \in Nat
    BY <1>3, SMT
  <2> HIDE DEF x, y
  <2>2. (x + 1) * m <= y * m
    BY <1>1, <2>1, Products
  <2>3. c + y * m >= f
    BY <1>1, <1>3, <2>2, Products, SMT DEF x
  <2>4. QED
    BY <2>3 DEF y
<1>4. QED
  BY <1>2, <1>3

(* The bounds of the policy are natural numbers.                           *)
LEMMA FloorType ==
  /\ Floor \in Nat /\ MaxCost \in Nat /\ Floor <= minSponsorBalance /\ Floor <= Genesis[Sponsor]
  /\ minSponsorBalance \in Nat
BY SponsorAssumption, SMT DEF Floor, Account, MaxCost

(* The numbers of a state and of the next.                                 *)
LEMMA PeakNumbers ==
  ASSUME IInv, FlowInv', Next
  PROVE  LET o == Cardinality(Open')
             i == Cardinality(Live')
             l == Cardinality(Live)
         IN  /\ o \in Nat /\ i \in Nat /\ l \in Nat /\ i <= o /\ l <= peak
             /\ peak \in Nat /\ peak' \in Nat /\ peak' >= peak /\ o <= peak'
             /\ bal[Sponsor] \in Nat /\ bal'[Sponsor] \in Nat
             /\ IsFiniteSet(Open) /\ IsFiniteSet(Live)
<1>1. /\ Cardinality(Open) \in Nat /\ Cardinality(Live) \in Nat
      /\ Cardinality(Live) <= Cardinality(Open) /\ IsFiniteSet(Open) /\ IsFiniteSet(Live)
  BY OpenIsOpen, OpenFinite DEF IInv, FlowInv, ApprovalInv
<1>2. /\ Cardinality(Open') \in Nat /\ Cardinality(Live') \in Nat
      /\ Cardinality(Live') <= Cardinality(Open')
  BY OpenIsOpen, OpenFinite DEF FlowInv, ApprovalInv
<1>3. bal'[Sponsor] \in Nat
  BY DEF Account, FlowInv, LedgerInv
<1>4. QED
  BY <1>1, <1>2, <1>3, SMT DEF IInv, PeakInv, Next, FlowInv, LedgerInv, Account

(* What is left when no more is taken than there is.                       *)
LEMMA Differences ==
  ASSUME NEW j \in Nat, NEW k \in Nat, k <= j
  PROVE  j - k \in Nat
BY SMT

(* A step when the balance suffices, and leaves it.                        *)
LEMMA PeakWhenFunded ==
  ASSUME IInv, FlowInv', Next, bal' = bal, bal[Sponsor] >= minSponsorBalance
  PROVE  PeakInv'
<1> DEFINE o == Cardinality(Open')
           i == Cardinality(Live')
<1>1. /\ o \in Nat /\ i \in Nat /\ i <= o /\ peak' \in Nat /\ o <= peak'
      /\ bal[Sponsor] \in Nat
  BY PeakNumbers
<1> HIDE DEF o, i
<1>2. (peak' - i) * MaxCost \in Nat
  <2>1. PICK j \in Nat, k \in Nat : j = peak' /\ k = i /\ k <= j
    BY <1>1, SMT
  <2>2. QED
    BY <2>1, Differences, Products, FloorType
<1>3. QED
  BY <1>1, <1>2, FloorType, SMT DEF PeakInv, o, i, Floor

(* A step that opens nothing, and either leaves the balance or charges it  *)
(* for one that was live.                                                  *)
LEMMA PeakWhenQuiet ==
  ASSUME IInv, FlowInv', Next, NoneOpened(reqs, approved, nonce, reqs', approved', nonce'),
         \/ bal'[Sponsor] = bal[Sponsor]
         \/ /\ bal'[Sponsor] + MaxCost >= bal[Sponsor]
            /\ \E p \in Live : p \notin Live'
  PROVE  PeakInv'
<1> DEFINE o == Cardinality(Open')
           i == Cardinality(Live')
           l == Cardinality(Live)
<1>1. /\ o \in Nat /\ i \in Nat /\ l \in Nat /\ i <= o /\ l <= peak
      /\ peak \in Nat /\ peak' \in Nat /\ peak' >= peak /\ o <= peak'
      /\ bal[Sponsor] \in Nat /\ bal'[Sponsor] \in Nat /\ IsFiniteSet(Live)
  BY PeakNumbers
<1>2. Live' \subseteq Live
  <2>1. \A b \in approved' : ApprovedOK(b)
    BY DEF FlowInv, ApprovalInv
  <2>2. QED
    BY <2>1, OpenIsOpen, OpenShrinks DEF IInv, FlowInv, LedgerInv, RequestsInv
<1>3. i <= l
  BY <1>1, <1>2, FS_Subset
<1>4. ASSUME NEW p \in Live, p \notin Live' PROVE i + 1 <= l
  <2>1. IsFiniteSet(Live \ {p}) /\ Cardinality(Live \ {p}) = l - 1
    BY <1>1, FS_RemoveElement
  <2>2. i <= Cardinality(Live \ {p})
    BY <1>2, <1>4, <2>1, FS_Subset
  <2> HIDE DEF i, l
  <2>3. QED
    BY <1>1, <2>1, <2>2, SMT
<1>5. bal[Sponsor] + (peak - l) * MaxCost >= Floor
  BY DEF IInv, PeakInv
<1> HIDE DEF o, i, l
<1>6. \/ bal'[Sponsor] = bal[Sponsor] /\ i <= l
      \/ bal'[Sponsor] + MaxCost >= bal[Sponsor] /\ i + 1 <= l
  BY <1>3, <1>4
<1>7. bal'[Sponsor] + (peak' - i) * MaxCost >= Floor
  <2>1. PICK b, c, k, j : b = bal[Sponsor] /\ c = bal'[Sponsor] /\ k = peak /\ j = peak'
    OBVIOUS
  <2>2. c + (j - i) * MaxCost >= Floor
    BY <1>1, <1>5, <1>6, <2>1, FloorType, Covers, SMT
  <2>3. QED
    BY <2>1, <2>2
<1>8. QED
  BY <1>1, <1>7 DEF PeakInv, o, i, Floor


(* A step of a client or of the service.                                   *)
LEMMA EffectsPeak ==
  ASSUME IInv, Next, FlowInv', NEW r, NEW q1, NEW X, Effects(r, q1, X)
  PROVE  PeakInv'
<1>1. /\ r \in Slot /\ reqs' = [reqs EXCEPT ![r] = q1]
      /\ ReqOK(q1, approved') /\ Loyal(reqs[r], q1)
      /\ Quiet(reqs[r], q1) \/ bal[Sponsor] >= minSponsorBalance
      /\ approved' = approved \cup X
      /\ \A a \in X : a[1] = Sponsor => /\ Ready(reqs[r])
                                        /\ a[2] = reqs[r].executor /\ a[3] = reqs[r].tx
      /\ bal' = bal /\ nonce' = nonce
  BY DEF Effects
<1>2. CASE bal[Sponsor] >= minSponsorBalance
  BY <1>1, <1>2, PeakWhenFunded
<1>3. CASE Quiet(reqs[r], q1)
  <2>1. reqs'[r] = q1 /\ \A s \in Slot : s # r => reqs'[s] = reqs[s]
    BY <1>1, OneRequest DEF IInv
  <2>2. \A a \in Account : nonce[a] <= nonce'[a]
    BY <1>1, SMT DEF FlowInv, LedgerInv
  <2>3. QED
    BY <1>1, <1>3, <2>1, <2>2, PeakWhenQuiet DEF NoneOpened, Quiet
<1>4. QED
  BY <1>1, <1>2, <1>3

(* A transaction is mined.                                                 *)
LEMMA MinePeak ==
  ASSUME IInv, Next, FlowInv', NEW t \in pool, Mine(t)
  PROVE  PeakInv'
<1>1. FlowInv
  BY DEF IInv
<1>2. /\ \A a \in Account : nonce[a] <= nonce'[a]
      /\ nonce'[t.from] = nonce[t.from] + 1
      /\ bal'[Sponsor] = IF t.payer = Sponsor THEN bal[Sponsor] - Cost(t.tx) ELSE bal[Sponsor]
  BY <1>1, MineLedger
<1>3. NoneOpened(reqs, approved, nonce, reqs', approved', nonce')
  BY <1>2 DEF Mine, NoneOpened, Quiet
<1>4. CASE t.payer # Sponsor
  BY <1>2, <1>3, <1>4, PeakWhenQuiet
<1>5. CASE t.payer = Sponsor
  <2>1. PICK e, tx, key : IsOf(t, e, tx, key)
    BY <1>1, MinedParts
  <2>2. /\ Genuine(e, tx, key, tx, approved)
        /\ t.from = e /\ t.payer = Payer(e, tx, key, tx)
        /\ SameFields(t.tx, tx)
    BY <2>1 DEF IsOf
  <2>3. e \in Account /\ key = Sponsor /\ tx \in Draft /\ key # None
    BY <1>5, <2>2, MinedAccounts, SMT DEF Account
  <2>4. <<Sponsor, e, tx>> \in approved
    BY <2>2, <2>3 DEF Genuine
  <2>5. Cost(t.tx) = Cost(tx) /\ t.tx.nonce = tx.nonce
    BY <2>2 DEF SameFields, Cost
  <2>6. Cost(tx) <= MaxCost
    <3>1. PICK k \in SponsorKey, x \in Executor, y \in Draft :
            <<Sponsor, e, tx>> = <<k, x, y>> /\ (k = Sponsor => Cost(y) <= MaxCost)
      BY <1>1, <2>4 DEF ApprovedOK, FlowInv, ApprovalInv
    <3>2. QED
      BY <3>1
  <2>7. bal'[Sponsor] + MaxCost >= bal[Sponsor]
    <3>1. bal'[Sponsor] = bal[Sponsor] - Cost(tx)
      BY <1>2, <1>5, <2>5
    <3>2. QED
      BY <1>1, <2>3, <2>6, <3>1, CostType, FloorType, SMTT(30) DEF FlowInv, LedgerInv,
         Account
  <2> DEFINE p == <<e, tx.nonce>>
  <2>8. tx.nonce = nonce[e] /\ nonce[e] \in Nat /\ nonce'[e] = nonce[e] + 1
    BY <1>1, <2>2, <2>3, <2>5 DEF Mine, FlowInv, LedgerInv
  <2>9. p \in Live
    <3>1. p \in SignedPairs(approved, nonce)
      <4> DEFINE a == <<Sponsor, e, tx>>
      <4>1. a[1] = Sponsor /\ a[2] = e /\ a[3] = tx /\ a \in approved
        BY <2>4
      <4> HIDE DEF a
      <4>2. a[3].nonce >= nonce[a[2]] /\ p = <<a[2], a[3].nonce>>
        BY <2>8, <4>1, SMT
      <4> HIDE DEF p
      <4>3. QED
        BY <4>1, <4>2 DEF SignedPairs
    <3>2. p[2] >= nonce[p[1]]
      BY <2>8, SMT
    <3> HIDE DEF p
    <3>3. QED
      BY <3>1, <3>2, OpenIsOpen DEF LiveOf, OpenOf
  <2>10. p \notin Live'
    <3>1. ~(p[2] >= nonce'[p[1]])
      BY <2>8, SMT
    <3> HIDE DEF p
    <3>2. QED
      BY <3>1, OpenIsOpen DEF LiveOf
  <2>11. QED
    BY <1>3, <2>7, <2>9, <2>10, PeakWhenQuiet
<1>6. QED
  BY <1>4, <1>5

-----------------------------------------------------------------------------
(* The inductive invariant.                                                *)

(* It holds at the start.                                                  *)
LEMMA InitIInv == Init => IInv
<1> SUFFICES ASSUME Init PROVE IInv
  OBVIOUS
<1>1. RequestsInv
  BY DEF Init, RequestsInv, ReqOK, ReqShape, NoRequest
<1>2. LedgerInv
  BY SponsorAssumption DEF Init, LedgerInv
<1>3. Open = {} /\ Live = {}
  <2>1. OpenOf(reqs, approved, nonce) = {}
    BY DEF Init, OpenOf, ReadyPairs, SignedPairs, NoRequest, Ready
  <2>2. QED
    BY <2>1, OpenIsOpen DEF LiveOf
<1>4. PeakInv
  <2>1. (0 - 0) * MaxCost = 0
    BY FloorType, SMT
  <2>2. QED
    BY <1>2, <1>3, <2>1, FloorType, FS_EmptySet, SMT DEF PeakInv, Init, LedgerInv,
       Account
<1>5. QED
  BY <1>1, <1>2, <1>4, FS_EmptySet DEF IInv, FlowInv, Init, NodeInv, ApprovalInv

(* A request's step has its effects.                                       *)
LEMMA RequestSteps ==
  ASSUME FlowInv, NEW r \in Slot,
         \/ \E e \in Executor, job \in Jobs : Start(r, e, job)
         \/ SignAndSend(r) \/ Reprice(r) \/ Resend(r)
         \/ HandleSendRaw(r) \/ sponsorIntent(r) \/ Receive(r) \/ Timeout(r)
         \/ AnswerBalance(r)
  PROVE  \E q1, X : Effects(r, q1, X)
<1>1. CASE \E e \in Executor, job \in Jobs : Start(r, e, job)
  BY <1>1, StartEffects
<1>2. CASE SignAndSend(r)
  BY <1>2, SignAndSendEffects
<1>3. CASE Reprice(r)
  BY <1>3, RepriceEffects
<1>4. CASE Resend(r)
  BY <1>4, ResendEffects
<1>5. CASE HandleSendRaw(r)
  BY <1>5, HandleSendRawEffects
<1>6. CASE sponsorIntent(r)
  BY <1>6, SponsorIntentEffects
<1>7. CASE Receive(r) \/ Timeout(r)
  BY <1>7, ReceiveEffects
<1>8. CASE AnswerBalance(r)
  BY <1>8, AnswerBalanceEffects
<1>9. QED
  BY <1>1, <1>2, <1>3, <1>4, <1>5, <1>6, <1>7, <1>8

(* Every step keeps it.                                                    *)
LEMMA NextIInv ==
  ASSUME IInv, Next
  PROVE  IInv'
<1>1. FlowInv
  BY DEF IInv
<1>2. ASSUME NEW r \in Slot,
             \/ \E e \in Executor, job \in Jobs : Start(r, e, job)
             \/ SignAndSend(r) \/ Reprice(r) \/ Resend(r)
             \/ HandleSendRaw(r) \/ sponsorIntent(r) \/ Receive(r) \/ Timeout(r)
             \/ AnswerBalance(r)
      PROVE  IInv'
  <2>1. PICK q1, X : Effects(r, q1, X)
    BY <1>1, <1>2, RequestSteps
  <2>2. QED
    BY <2>1, EffectsKeep, EffectsPeak DEF IInv
<1>3. ASSUME NEW call \in wire, SendRawTransaction(call) \/ LoseCall(call)
      PROVE  IInv'
  <2>1. /\ FlowInv' /\ \A s \in Slot : Quiet(reqs[s], reqs'[s])
        /\ approved' = approved /\ bal' = bal /\ nonce' = nonce
    BY <1>1, <1>3, CallKeeps
  <2>2. QED
    BY <1>1, <2>1, PeakWhenQuiet, SMTT(30) DEF IInv, NoneOpened, FlowInv, LedgerInv
<1>4. ASSUME NEW t \in pool, Mine(t)
      PROVE  IInv'
  BY <1>1, <1>4, MineKeeps, MinePeak DEF IInv
<1>5. QED
  BY <1>2, <1>3, <1>4 DEF Step, Next

(* So it is an invariant.                                                  *)
LEMMA Invariant == Spec => []IInv
<1>1. IInv /\ UNCHANGED vars => IInv'
  <2> SUFFICES ASSUME IInv, UNCHANGED vars PROVE IInv'
    OBVIOUS
  <2>1. /\ reqs' = reqs /\ wire' = wire /\ pool' = pool /\ mined' = mined /\ bal' = bal
        /\ nonce' = nonce /\ approved' = approved /\ peak' = peak
    BY DEF vars, system
  <2>2. PeakInv'
    BY <2>1, OpenIsOpen DEF IInv, PeakInv
  <2>3. QED
    BY <2>1, <2>2 DEF IInv, FlowInv, RequestsInv, NodeInv, LedgerInv, ApprovalInv
<1>2. IInv /\ [Next]_vars => IInv'
  BY <1>1, NextIInv
<1>3. QED
  BY <1>2, InitIInv, PTL DEF Spec

-----------------------------------------------------------------------------
(* The theorems.                                                           *)

(* What is read in the bytes that travel.                                  *)
LEMMA RawsAgree ==
  ASSUME NEW e, NEW tx, NEW key, NEW old, Parts(e, tx, key, old),
         decode_2718(Bytes(e, tx, key, old)) # Invalid
  PROVE  LET raw == Bytes(e, tx, key, old)
             ts == decodeEvNodeTransaction(raw)
             rs == decode_2718(raw)
             t == Recovered(rs)
         IN  /\ ts = rs
             /\ recoverExecutor(ts) = t.from /\ t.from \in Executor
             /\ recoverSponsor(t.tx, t.from) = IF IsSponsored(t.tx) THEN t.payer ELSE None
             /\ decode_2718(encodeSignedTransaction(ts)) = rs
             /\ decodeEvNodeTransaction(encode_2718(rs)) = ts
             /\ Recovered(from_tx_compact(to_tx_compact(rs))) = t
<1> DEFINE raw == Bytes(e, tx, key, old)
           c == Content(e, tx, key, old)
           t == Recovered(c)
<1>1. /\ decodeEvNodeTransaction(raw) = c /\ decode_2718(raw) = c
      /\ from_tx_compact(to_tx_compact(c)) = c
      /\ decodeEvNodeTransaction(encode_2718(c)) = c
  BY BytesRead
<1>2. encodeSignedTransaction(c) = raw
  BY DEF Bytes
<1>3. t = [signed |-> c, tx |-> c.transaction, from |-> e, payer |-> Payer(e, tx, key, old)]
  BY ContentParties, SMT
<1>4. /\ recoverExecutor(c) = e
      /\ key # None => recoverSponsor(c.transaction, e) = Payer(e, tx, key, old)
      /\ key = None => recoverSponsor(c.transaction, e) = None
  BY ContentParties, SMT
<1>5. IsSponsored(c.transaction) <=> key # None
  BY ContentShape
<1>6. e \in Executor
  BY DEF Parts
<1> HIDE DEF c, raw, t
<1>7. t.tx = c.transaction /\ t.from = e /\ t.payer = Payer(e, tx, key, old)
  BY <1>3
<1>8. /\ recoverExecutor(c) = t.from /\ t.from \in Executor
      /\ recoverSponsor(t.tx, t.from) = IF IsSponsored(t.tx) THEN t.payer ELSE None
  BY <1>4, <1>5, <1>6, <1>7
<1>9. QED
  BY <1>1, <1>2, <1>8 DEF raw, t

(* The client library and the node read the same transaction, executor and *)
(* sponsor in whatever bytes travel, re-encoded or stored.                 *)
THEOREM SignersAlwaysAgree == Spec => []SignersAgree
<1>1. FlowInv => SignersAgree
  <2> SUFFICES ASSUME FlowInv, NEW raw \in Raws, decode_2718(raw) # Invalid
               PROVE  LET ts == decodeEvNodeTransaction(raw)
                          rs == decode_2718(raw)
                          t == Recovered(rs)
                      IN  /\ ts = rs
                          /\ recoverExecutor(ts) = t.from /\ t.from \in Executor
                          /\ recoverSponsor(t.tx, t.from) = IF IsSponsored(t.tx) THEN t.payer ELSE None
                          /\ decode_2718(encodeSignedTransaction(ts)) = rs
                          /\ decodeEvNodeTransaction(encode_2718(rs)) = ts
                          /\ Recovered(from_tx_compact(to_tx_compact(rs))) = t
    BY ZenonT(30) DEF SignersAgree
  <2>1. \E e, tx, key, old : Parts(e, tx, key, old) /\ raw = Bytes(e, tx, key, old)
    <3>1. CASE \E r \in Slot : At(r, "service") /\ raw = reqs[r].raw
      <4>1. PICK r \in Slot : At(r, "service") /\ raw = reqs[r].raw
        BY <3>1
      <4>2. HasRaw(reqs[r], approved)
        BY <4>1, RequestOK, NotIdle DEF Started, At
      <4>3. QED
        BY <4>1, <4>2 DEF HasRaw, Genuine
    <3>2. CASE \E c \in wire : raw = c.raw
      <4>1. PICK c \in wire : raw = c.raw
        BY <3>2
      <4>2. QED
        BY <4>1 DEF CallOK, Genuine, FlowInv, NodeInv
    <3>3. QED
      BY <3>1, <3>2 DEF Raws
  <2>2. PICK e, tx, key, old : Parts(e, tx, key, old) /\ raw = Bytes(e, tx, key, old)
    BY <2>1
  <2>3. QED
    BY <2>2, RawsAgree, ZenonT(30)
<1>2. IInv => SignersAgree
  BY <1>1 DEF IInv
<1>3. QED
  BY <1>2, Invariant, PTL

(* What is known of a mined transaction.                                   *)
LEMMA MinedFacts ==
  ASSUME NEW m, NEW A, MinedOK(m, A)
  PROVE  \E e, tx, key :
           /\ Genuine(e, tx, key, tx, A) /\ m.charged = Payer(e, tx, key, tx)
           /\ from_tx_compact(m.stored) = Content(e, tx, key, tx)
<1>1. PICK e, tx, key, old :
        /\ Genuine(e, tx, key, old, A)
        /\ key # None => old = tx
        /\ m.stored = to_tx_compact(Content(e, tx, key, old))
        /\ m.charged = Payer(e, tx, key, old)
        /\ from_tx_compact(to_tx_compact(Content(e, tx, key, old))) = Content(e, tx, key, old)
  BY DEF MinedOK
<1>2. QED
  BY <1>1 DEF Genuine, Parts, Payer, Content, Carried

(* A sponsor is charged only for what it signed, with every field as       *)
(* signed; the account of the service only within its policy.              *)
THEOREM ChargesAlwaysApproved == Spec => []ChargesAreApproved
<1>1. FlowInv => ChargesAreApproved
  <2> SUFFICES ASSUME FlowInv, NEW m \in mined, NEW t, t = Recovered(from_tx_compact(m.stored)),
                      IsSponsored(t.tx)
               PROVE  /\ <<m.charged, t.from, Unsigned(t.tx)>> \in approved
                      /\ m.charged = Sponsor => Cost(t.tx) <= MaxCost
    BY DEF ChargesAreApproved
  <2>1. PICK e, tx, key :
          /\ Genuine(e, tx, key, tx, approved) /\ m.charged = Payer(e, tx, key, tx)
          /\ from_tx_compact(m.stored) = Content(e, tx, key, tx)
    BY MinedFacts DEF FlowInv, NodeInv
  <2> DEFINE c == Content(e, tx, key, tx)
  <2>2. Parts(e, tx, key, tx)
    BY <2>1 DEF Genuine
  <2>3. /\ SameFields(c.transaction, tx) /\ Unsigned(c.transaction) = tx
        /\ IsSponsored(c.transaction) <=> key # None
    BY <2>2, ContentShape, SMTT(30)
  <2>4. t = [signed |-> c, tx |-> c.transaction, from |-> e, payer |-> Payer(e, tx, key, tx)]
    BY <2>1, <2>2, ContentParties, SMTT(30)
  <2> HIDE DEF c
  <2>5. t.tx = c.transaction /\ t.from = e
    BY <2>4, SMT
  <2>6. <<m.charged, t.from, Unsigned(t.tx)>> \in approved
    BY <2>1, <2>3, <2>5 DEF Genuine, Payer
  <2>7. ASSUME m.charged = Sponsor PROVE Cost(t.tx) <= MaxCost
    <3>1. PICK k \in SponsorKey, x \in Executor, y \in Draft :
            <<Sponsor, e, tx>> = <<k, x, y>> /\ (k = Sponsor => Cost(y) <= MaxCost)
      BY <2>3, <2>5, <2>6, <2>7 DEF ApprovedOK, FlowInv, ApprovalInv
    <3>2. QED
      BY <2>3, <2>5, <3>1 DEF Cost, SameFields
  <2>8. QED
    BY <2>6, <2>7
<1>2. IInv => ChargesAreApproved
  BY <1>1 DEF IInv
<1>3. QED
  BY <1>2, Invariant, PTL

(* The RPC of the node reports who paid for a mined transaction.           *)
THEOREM ReportsAlwaysTrue == Spec => []ReportsAreTrue
<1>1. FlowInv => ReportsAreTrue
  <2> SUFFICES ASSUME FlowInv, NEW m \in mined
               PROVE  LET signed == from_tx_compact(m.stored)
                          signer == recover_signer(signed)
                          payer == convert_receipts(signed, signer)
                      IN  /\ convert_rpc_tx(signed, signer) = payer
                          /\ m.charged = IF payer = None THEN signer ELSE payer
    BY DEF ReportsAreTrue
  <2>1. PICK e, tx, key :
          /\ Genuine(e, tx, key, tx, approved) /\ m.charged = Payer(e, tx, key, tx)
          /\ from_tx_compact(m.stored) = Content(e, tx, key, tx)
    BY MinedFacts DEF FlowInv, NodeInv
  <2> DEFINE c == Content(e, tx, key, tx)
             payer == convert_receipts(c, e)
  <2>2. Parts(e, tx, key, tx)
    BY <2>1 DEF Genuine
  <2>3. IsSponsored(c.transaction) <=> key # None
    BY <2>2, ContentShape
  <2>4. /\ recover_signer(c) = e
        /\ key # None => recover_sponsor(c.transaction, e) = Payer(e, tx, key, tx)
    BY <2>2, ContentParties, SMT
  <2> HIDE DEF c
  <2>5. m.charged = IF payer = None THEN e ELSE payer
    <3>1. CASE key = None
      BY <2>1, <2>3, <3>1 DEF Payer, convert_receipts
    <3>2. CASE key # None
      BY <2>1, <2>3, <2>4, PartyAssumption DEF Payer, Parts, convert_receipts,
         SponsorKey, Account
    <3>3. QED
      BY <3>1, <3>2
  <2> HIDE DEF payer
  <2>6. QED
    BY <2>1, <2>4, <2>5 DEF c, payer, convert_rpc_tx, convert_receipts
<1>2. IInv => ReportsAreTrue
  BY <1>1 DEF IInv
<1>3. QED
  BY <1>2, Invariant, PTL

(* What the service signed belongs to a request that it did not refuse, or *)
(* refused only when it was repeated.                                      *)
THEOREM RefusalsAreClean == Spec => []RefusedIsUnsponsored
<1>1. IInv => RefusedIsUnsponsored
  BY DEF IInv, FlowInv, ApprovalInv, Accounts, RefusedIsUnsponsored
<1>2. QED
  BY <1>1, Invariant, PTL

(* The account of the service falls below minSponsorBalance by no more     *)
(* than the cost of the sponsorships that were open at once.               *)
THEOREM OverdraftAlwaysBounded == Spec => []OverdraftIsBounded
<1>1. IInv => OverdraftIsBounded
  <2> SUFFICES ASSUME IInv PROVE OverdraftIsBounded
    OBVIOUS
  <2> DEFINE o == Cardinality(Open)
             l == Cardinality(Live)
  <2>1. o \in Nat /\ l \in Nat /\ l <= o
    BY OpenIsOpen, OpenFinite DEF IInv, FlowInv, ApprovalInv
  <2>2. peak \in Nat /\ o <= peak /\ bal[Sponsor] + (peak - l) * MaxCost >= Floor
    BY DEF IInv, PeakInv
  <2> HIDE DEF o, l
  <2>3. peak - l \in Nat /\ peak - l <= peak
    BY <2>1, <2>2, SMT
  <2>4. bal[Sponsor] + peak * MaxCost >= Floor
    BY <2>2, <2>3, FloorType, SMT DEF IInv, FlowInv, LedgerInv, Account
  <2>5. QED
    BY <2>4 DEF OverdraftIsBounded, Floor
<1>2. QED
  BY <1>1, Invariant, PTL

=============================================================================
