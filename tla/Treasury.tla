------------------------------ MODULE Treasury ------------------------------
(***************************************************************************)
(* The native token, the fee vault and their admin proxy together, as the  *)
(* comments of AdminProxy.sol set them up: the proxy is `mintAdmin` of the *)
(* chain and owner of the vault, an externally owned account owns the      *)
(* proxy.  Each transaction of a user is one step; blocks pass between     *)
(* transactions and activate the precompile.                               *)
(***************************************************************************)
EXTENDS AdminProxy

CONSTANTS
  User,        \* externally owned accounts
  Funds,       \* their balances at genesis
  Values,      \* the values transactions may carry
  Calls,       \* direct calls: to and data
  Batches,     \* the sequences of calls an owner may have forwarded
  Vaults,      \* constructor arguments of the vault
  MaxHeight,   \* bound: blocks that are told apart
  MaxTxs       \* bound: transactions

VARIABLES
  w,           \* the world (Frames)
  height,      \* the number of the block being executed
  txs          \* transactions so far

vars == <<w, height, txs>>

Calldata == [fn : STRING, who : Addr, amount : 0 .. MaxWord]

(* Accounts that are owned externally are none of the contracts.  The      *)
(* constructor of the vault requires the share to be a part of the whole.  *)
ASSUME TreasuryAssumption ==
  /\ User \subseteq Addr \ {Zero, Mint, Proxy, Vault}
  /\ Funds \in [User -> 0 .. MaxWord]
  /\ Values \subseteq 0 .. MaxWord
  /\ Calls \subseteq [to : Addr, data : Calldata]
  /\ Batches \subseteq Seq([to : Addr, value : 0 .. MaxWord, data : Calldata])
  /\ Vaults \subseteq [minimum : Nat, fee : Nat, share : 0 .. FullShare, other : Addr]
  /\ MaxHeight \in Nat /\ MaxTxs \in Nat

(* The balances of genesis.                                                *)
GenesisBalances == [a \in Addr |-> IF a \in User THEN Funds[a] ELSE 0]

Init ==
  /\ \E v \in Vaults, owner \in User :
       w = [bal |-> GenesisBalances,
            marked |-> FALSE, allow |-> {}, existed |-> FALSE, touched |-> FALSE,
            paid |-> FALSE, minted |-> 0, burned |-> 0,
            proxy |-> [owner |-> owner, pending |-> Zero],
            vault |-> NewVault(Proxy, v.minimum, v.fee, v.share, v.other)]
  /\ height = 0
  /\ txs = 0

(* A transaction ends with what its outermost frame left.                  *)
Transact(result) ==
  /\ txs < MaxTxs
  /\ txs' = txs + 1
  /\ w' = Clear(result.w)
  /\ UNCHANGED height

(* A user calls the precompile, a contract or another account.             *)
Direct(u, to, value, data) ==
  Transact(Call(Begin(w), height, u, to, value, data))

(* A user has the proxy forward calls (execute, executeBatch and           *)
(* executeWithValue).                                                      *)
Forwarded(u, calls) ==
  Transact(Execute(Begin(w), height, u, calls))

(* The last height stands for all that follow.                             *)
NextBlock ==
  /\ height' = IF height < MaxHeight THEN height + 1 ELSE height
  /\ UNCHANGED <<w, txs>>

Next ==
  \/ \E u \in User, c \in Calls, value \in Values : Direct(u, c.to, value, c.data)
  \/ \E u \in User, calls \in Batches : Forwarded(u, calls)
  \/ NextBlock

Spec == Init /\ [][Next]_vars

-----------------------------------------------------------------------------
(* Properties.                                                             *)

(* The wei that balances amount to: one <<a, i>> for the i-th of account a. *)
Wei(bal) == {x \in Addr \X (1 .. MaxWord) : x[2] <= bal[x[1]]}

Total(bal) == Cardinality(Wei(bal))

(* Whatever is reverted, forwarded, split or cleared, the balances are     *)
(* those of genesis plus what mint created minus what burn destroyed: a    *)
(* mint that would overflow halts, and a failed call of a batch leaves     *)
(* nothing behind.                                                         *)
SupplyIsAccounted == Total(w.bal) + w.burned = Total(GenesisBalances) + w.minted

(* The owner of the proxy has it forward addToAllowList or                 *)
(* removeFromAllowList for an account.                                     *)
Grants(calls, a) ==
  \E i \in 1 .. Len(calls) :
    /\ calls[i].to = Mint
    /\ calls[i].data.fn \in {"addToAllowList", "removeFromAllowList"}
    /\ calls[i].data.who = a

GrantedByOwner(a) ==
  \E calls \in Batches : Grants(calls, a) /\ Forwarded(w.proxy.owner, calls)

(* The account of the precompile, which was paid while it had neither code *)
(* nor nonce, is cleared when it holds nothing any more.                   *)
Emptied == w.paid /\ ~w.marked /\ w'.bal[Mint] = 0 /\ w'.allow = {}

(* The allowlist changes only where the owner of the proxy has it forward  *)
(* a change for that very account; in particular clearing never wipes the  *)
(* precompile's storage, which is what the comment of                      *)
(* ensure_account_created says it gives the account code and nonce for.    *)
AllowlistByOwner ==
  [][\A a \in Addr : (a \in w'.allow) # (a \in w.allow) => GrantedByOwner(a)]_vars

(* What the code does guarantee, at whatever height the precompile is      *)
(* activated and whoever pays it: the allowlist changes as the owner has   *)
(* it forwarded, or is lost as a whole with an account that a transfer     *)
(* made exist before ensure_account_created could mark it.  What mint and  *)
(* burn make of the account never costs the list.                          *)
AllowlistByOwnerOrEmptied ==
  [][\A a \in Addr :
       (a \in w'.allow) # (a \in w.allow) => GrantedByOwner(a) \/ Emptied]_vars

(* A distribution that succeeds empties the vault, the caller's payment    *)
(* included: the bridge gets its share rounded down, at least the minimum, *)
(* and the other recipient all the rest.                                   *)
Gain(a, u, value) == w'.bal[a] + (IF a = u THEN value ELSE 0) - w.bal[a]

Distribute == [fn |-> "distribute", who |-> Zero, amount |-> 0]

DistributionIsExact ==
  [][\A u \in User, value \in Values :
       (/\ Direct(u, Vault, value, Distribute)
        /\ w'.bal # w.bal
        /\ w.vault.bridge # w.vault.other
        /\ Vault \notin {w.vault.bridge, w.vault.other}) =>
            LET total == w.bal[Vault] + value
                bridge == Gain(w.vault.bridge, u, value)
            IN /\ w'.bal[Vault] = 0
               /\ bridge * FullShare <= total * w.vault.share
               /\ (bridge + 1) * FullShare > total * w.vault.share
               /\ bridge >= w.vault.minimum
               /\ w.vault.other # Zero => Gain(w.vault.other, u, value) = total - bridge]_vars

=============================================================================
