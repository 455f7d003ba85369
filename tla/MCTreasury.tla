----------------------------- MODULE MCTreasury -----------------------------
(***************************************************************************)
(* An instance of Treasury for TLC: two users, balances up to 5, shares of *)
(* 0, one and two halves.                                                  *)
(***************************************************************************)
EXTENDS Treasury

CONSTANTS alice, bob

Data(fn, who, amount) == [fn |-> fn, who |-> who, amount |-> amount]

To(to, value, data) == [to |-> to, value |-> value, data |-> data]

Plain == Data("receive", Zero, 0)

MCFunds == [u \in User |-> IF u = alice THEN 3 ELSE 1]

MCCalls ==
  {[to |-> Mint, data |-> Plain], [to |-> Vault, data |-> Plain],
   [to |-> Proxy, data |-> Plain],
   [to |-> Vault, data |-> Distribute],
   [to |-> Mint, data |-> Data("mint", Vault, 3)],
   [to |-> Mint, data |-> Data("burn", Mint, 1)],
   [to |-> Mint, data |-> Data("burn", alice, 2)],
   [to |-> Mint, data |-> Data("allowlist", bob, 0)],
   [to |-> Mint, data |-> Data("addToAllowList", alice, 0)],
   [to |-> Proxy, data |-> Data("acceptOwnership", Zero, 0)],
   [to |-> Proxy, data |-> Data("transferOwnership", bob, 0)],
   [to |-> Proxy, data |-> Data("cancelTransfer", Zero, 0)]}

Add(a) == To(Mint, 0, Data("addToAllowList", a, 0))
Remove(a) == To(Mint, 0, Data("removeFromAllowList", a, 0))
Set(fn, who, amount) == To(Vault, 0, Data(fn, who, amount))

MCBatches ==
  {<<Add(alice)>>, <<Remove(alice)>>, <<Add(bob), Remove(alice)>>,
   <<To(Mint, 0, Data("mint", bob, 2)), Add(alice)>>,
   <<To(Mint, 0, Data("mint", Mint, 1))>>,
   <<To(Mint, 1, Data("mint", bob, 1))>>,
   <<Add(alice), To(Mint, 0, Data("burn", bob, 2))>>,
   <<Set("setBridgeRecipient", bob, 0), Set("setOtherRecipient", alice, 0)>>,
   <<Set("setBridgeRecipient", Mint, 0)>>,
   <<Set("setBridgeShare", Zero, 1)>>,
   <<Set("setBridgeShare", Zero, 0), Set("setMinimumAmount", Zero, 1)>>,
   <<Set("setCallFee", Zero, 1)>>,
   <<Set("setOwner", bob, 0)>>,
   <<To(Vault, 1, Distribute)>>,
   <<To(Proxy, 0, Data("acceptOwnership", Zero, 0))>>}

MCVaults ==
  {[minimum |-> 0, fee |-> 0, share |-> 0, other |-> Zero],
   [minimum |-> 1, fee |-> 0, share |-> 1, other |-> alice]}

=============================================================================
