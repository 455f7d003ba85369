------------------------------ MODULE FeeVault ------------------------------
(***************************************************************************)
(* contracts/src/FeeVault.sol: collects the redirected base fees and       *)
(* splits them between a bridge and another recipient.                     *)
(***************************************************************************)
EXTENDS MintPrecompile

CONSTANT FullShare    \* 10000 basis points

ASSUME ShareAssumption == FullShare \in Nat \ {0}

(* The constructor; a share of 0 stands for all.                           *)
NewVault(owner, minimum, fee, share, other) ==
  [owner |-> owner, bridge |-> Zero, other |-> other, minimum |-> minimum, fee |-> fee,
   share |-> IF share = 0 THEN FullShare ELSE share]

(* The vault's call{value}("") to an address: a plain account, the proxy   *)
(* and the vault itself take it, the precompile cannot decode it.          *)
Send(w, height, to, value) ==
  IF to = Mint /\ MintInstalled(height) THEN Revert(w) ELSE Transfer(w, Vault, to, value)

BridgeAmount(w) == (w.bal[Vault] * w.vault.share) \div FullShare

(* Mutant: the other amount is computed by its own share.                  *)
OtherAmountByShare(w) == (w.bal[Vault] * (FullShare - w.vault.share)) \div FullShare

OtherAmount(w) == w.bal[Vault] - BridgeAmount(w)

(* distribute: msg.value is part of the balance already.  A product that   *)
(* does not fit a word reverts.                                            *)
distribute(w, height, value) ==
  LET bridge == BridgeAmount(w)
      other == OtherAmount(w)
      paid == IF other = 0 THEN Ok(w)
              ELSE IF w.vault.other = Zero THEN Revert(w)
              ELSE Send(w, height, w.vault.other, other)
  IN IF \/ w.vault.bridge = Zero \/ value < w.vault.fee
        \/ w.bal[Vault] * w.vault.share > MaxWord
        \/ bridge < w.vault.minimum \/ ~paid.ok
       THEN Revert(w)
       ELSE Send(paid.w, height, w.vault.bridge, bridge)

VaultSet(w, field, new) == Ok([w EXCEPT !.vault[field] = new])

(* The external functions; those of the owner take no value.               *)
VaultCall(w, height, caller, value, data) ==
  LET owned == caller = w.vault.owner /\ value = 0
  IN CASE data.fn = "distribute" -> distribute(w, height, value)
       [] data.fn = "receive" -> Ok(w)
       [] data.fn = "setOwner" /\ owned /\ data.who # Zero -> VaultSet(w, "owner", data.who)
       [] data.fn = "setBridgeRecipient" /\ owned /\ data.who # Zero ->
            VaultSet(w, "bridge", data.who)
       [] data.fn = "setOtherRecipient" /\ owned /\ data.who # Zero ->
            VaultSet(w, "other", data.who)
       [] data.fn = "setMinimumAmount" /\ owned -> VaultSet(w, "minimum", data.amount)
       [] data.fn = "setCallFee" /\ owned -> VaultSet(w, "fee", data.amount)
       [] data.fn = "setBridgeShare" /\ owned /\ data.amount <= FullShare ->
            VaultSet(w, "share", data.amount)
       [] OTHER -> Revert(w)

=============================================================================
