------------------------------- MODULE Frames -------------------------------
(***************************************************************************)
(* The part of the EVM that the mint precompile and the contracts of       *)
(* contracts/src run on: balances, calls that either keep or revert what   *)
(* they did, and the clearing of empty accounts after a transaction.       *)
(*                                                                         *)
(* A world w holds                                                         *)
(*   bal      the balance of every address                                 *)
(*   marked   the mint precompile has its code 0xFE and nonce 1            *)
(*   allow    its storage: the addresses on the allowlist                  *)
(*   existed  the mint precompile was an account when the transaction began*)
(*   touched  the mint precompile was touched in this transaction          *)
(*   paid     a transfer brought its account value; history, of no effect  *)
(*   minted, burned  what the precompile created and destroyed so far      *)
(*   proxy    the storage of AdminProxy                                    *)
(*   vault    the storage of FeeVault                                      *)
(***************************************************************************)
EXTENDS Naturals, Sequences, FiniteSets

CONSTANTS
  Addr,        \* all addresses
  Zero,        \* address(0)
  Mint,        \* MINT_PRECOMPILE_ADDR
  Proxy,       \* the AdminProxy, which is `mintAdmin`
  Vault,       \* the FeeVault
  MaxWord      \* the largest balance, 2^256 - 1

ASSUME FramesAssumption ==
  /\ IsFiniteSet(Addr) /\ {Zero, Mint, Proxy, Vault} \subseteq Addr
  /\ Zero \notin {Mint, Proxy, Vault} /\ Mint \notin {Proxy, Vault} /\ Proxy # Vault
  /\ MaxWord \in Nat

Ok(w) == [ok |-> TRUE, w |-> w]

Revert(w) == [ok |-> FALSE, w |-> w]

(* A frame that fails leaves the world as it found it.                     *)
Frame(w, result) == IF result.ok THEN result ELSE Revert(w)

Touch(w, a) == [w EXCEPT !.touched = @ \/ a = Mint]

Move(w, from, to, value) ==
  [w EXCEPT !.bal = [a \in Addr |->
              @[a] - (IF a = from THEN value ELSE 0) + (IF a = to THEN value ELSE 0)],
            !.paid = @ \/ (to = Mint /\ value > 0)]

Transfer(w, from, to, value) ==
  IF w.bal[from] >= value /\ (from # to => w.bal[to] + value <= MaxWord)
    THEN Ok(Touch(Touch(Move(w, from, to, value), from), to))
    ELSE Revert(w)

MintExists(w) == w.marked \/ w.bal[Mint] > 0

Begin(w) == [w EXCEPT !.existed = MintExists(w), !.touched = FALSE]

(* EIP-161: an account that was touched and is empty goes, with its        *)
(* storage.                                                                *)
Clear(w) ==
  IF w.touched /\ ~MintExists(w) THEN [w EXCEPT !.allow = {}, !.paid = FALSE] ELSE w

=============================================================================
