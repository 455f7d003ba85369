--------------------------- MODULE MintPrecompile ---------------------------
(***************************************************************************)
(* The native token precompile (crates/ev-precompiles/src/mint.rs): mint   *)
(* and burn for the admin and the addresses on the allowlist, the list     *)
(* kept by the admin in the storage of the precompile's own account.       *)
(***************************************************************************)
EXTENDS Frames

CONSTANT MintActivation   \* mintPrecompileActivationHeight

ASSUME ActivationAssumption == MintActivation \in Nat

(* A call of the INativeToken interface; "none" is data that does not      *)
(* decode.                                                                 *)
MintCalls == {"mint", "burn", "addToAllowList", "removeFromAllowList", "allowlist"}

(* EvEvmFactory::install_mint_precompile.                                  *)
MintInstalled(height) == height >= MintActivation

(* Mutant: the account is only touched.                                    *)
ensure_account_created_bare(w, a) == Touch(w, a)

(* An account that did not exist when the transaction loaded it is         *)
(* touched; the precompile's own gets code and nonce.                      *)
ensure_account_created(w, a) ==
  IF a = Mint /\ ~w.existed THEN Touch([w EXCEPT !.marked = TRUE], a) ELSE w

(* Mutant: a mint that would overflow fills the balance.                   *)
add_balance_saturating(w, a, amount) ==
  Ok([w EXCEPT !.bal[a] = IF @ + amount <= MaxWord THEN @ + amount ELSE MaxWord,
               !.minted = @ + amount])

add_balance(w, a, amount) ==
  IF w.bal[a] + amount <= MaxWord
    THEN Ok([w EXCEPT !.bal[a] = @ + amount, !.minted = @ + amount])
    ELSE Revert(w)

sub_balance(w, a, amount) ==
  IF w.bal[a] >= amount
    THEN Ok([w EXCEPT !.bal[a] = @ - amount, !.burned = @ + amount])
    ELSE Revert(w)

is_allowlisted(w, a) == a \in w.allow

set_allowlisted(w, a, allowed) ==
  LET made == ensure_account_created(w, Mint)
  IN Touch([made EXCEPT !.allow = IF allowed THEN @ \cup {a} ELSE @ \ {a}], Mint)

(* ensure_authorized creates the precompile's account when it looks the    *)
(* caller up; the admin is not looked up.                                  *)
Authorized(w, caller) == caller = Proxy \/ is_allowlisted(w, caller)

LookedUp(w, caller) == IF caller = Proxy THEN w ELSE ensure_account_created(w, Mint)

Touched(result, a) == IF result.ok THEN Ok(Touch(result.w, a)) ELSE result

(* Precompile::call.                                                       *)
MintCall(w, caller, data) ==
  CASE data.fn = "mint" /\ Authorized(w, caller) ->
         Touched(add_balance(ensure_account_created(LookedUp(w, caller), data.who),
                             data.who, data.amount), data.who)
    [] data.fn = "burn" /\ Authorized(w, caller) ->
         Touched(sub_balance(ensure_account_created(LookedUp(w, caller), data.who),
                             data.who, data.amount), data.who)
    [] data.fn = "addToAllowList" /\ caller = Proxy ->
         Ok(set_allowlisted(w, data.who, TRUE))
    [] data.fn = "removeFromAllowList" /\ caller = Proxy ->
         Ok(set_allowlisted(w, data.who, FALSE))
    [] data.fn = "allowlist" -> Ok(ensure_account_created(w, Mint))
    [] OTHER -> Revert(w)

=============================================================================
