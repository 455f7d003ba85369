----------------------------- MODULE AdminProxy -----------------------------
(***************************************************************************)
(* contracts/src/AdminProxy.sol: holds the admin rights over the mint      *)
(* precompile and the fee vault for an owner that is handed over in two    *)
(* steps, and forwards the owner's calls, alone or in batches.             *)
(***************************************************************************)
EXTENDS FeeVault

(* The calls that change the proxy itself.                                 *)
OwnershipCall(w, caller, data) ==
  LET owned == caller = w.proxy.owner
  IN CASE data.fn = "transferOwnership" /\ owned /\ data.who # Zero ->
            Ok([w EXCEPT !.proxy.pending = data.who])
       [] data.fn = "acceptOwnership" /\ caller = w.proxy.pending ->
            Ok([w EXCEPT !.proxy = [owner |-> caller, pending |-> Zero]])
       [] data.fn = "cancelTransfer" /\ owned -> Ok([w EXCEPT !.proxy.pending = Zero])
       [] OTHER -> Revert(w)

(* A call from one account to another, up to the calls a proxy forwards.   *)
(* The contracts are the three of the treasury.  An execute that the proxy *)
(* forwards to itself reverts, as its caller, the proxy, is not the owner  *)
(* (a batch that first makes the proxy its own owner is left out).         *)
Dispatch(w, height, caller, to, value, data) ==
  CASE to = Mint /\ MintInstalled(height) -> MintCall(w, caller, data)
    [] to = Vault -> VaultCall(w, height, caller, value, data)
    [] to = Proxy -> IF data.fn = "receive" THEN Ok(w)
                     ELSE IF value > 0 THEN Revert(w)
                     ELSE OwnershipCall(w, caller, data)
    [] OTHER -> Ok(w)

Call(w, height, caller, to, value, data) ==
  LET moved == Transfer(w, caller, to, value)
  IN IF moved.ok THEN Frame(w, Dispatch(moved.w, height, caller, to, value, data)) ELSE moved

(* target.call{value}(data) of execute, executeBatch and executeWithValue. *)
Forward(w, height, c) == Call(w, height, Proxy, c.to, c.value, c.data)

(* The owner's calls in order; the first that fails fails them all.        *)
Execute(w, height, caller, calls) ==
  IF caller # w.proxy.owner THEN Revert(w)
  ELSE LET done[i \in 0 .. Len(calls)] ==
             IF i = 0 THEN Ok(w)
             ELSE IF done[i - 1].ok THEN Forward(done[i - 1].w, height, calls[i])
             ELSE done[i - 1]
       IN Frame(w, done[Len(calls)])

=============================================================================
