------------------------------- MODULE MCPool -------------------------------
(* Instances of Pool for TLC.                                              *)
EXTENDS Pool

CONSTANTS A, B, C

MCAccount == {A, B, C}

MCParams == [denominator |-> 2, elasticity |-> 2]

Extras ==
  [denominator |-> None, elasticity |-> None, initial_base_fee |-> None,
   base_fee_sink |-> None, redirect_height |-> None, mint_admin |-> None,
   mint_height |-> None, size_limit |-> None, size_height |-> None,
   allowlist |-> None, allowlist_height |-> None]

File(extras) ==
  [london |-> 0, merge |-> 0, cancun |-> 0, osaka |-> None, base_fee |-> None,
   excess |-> None, extras |-> extras]

(* Files that start: no extras, without Cancun and with all the forks and  *)
(* an excess of blob gas; every gate at its own height, with Cancun and    *)
(* Osaka on the way; London and the Merge later.                           *)
Good ==
  {[File(None) EXCEPT !.cancun = None],
   [File(None) EXCEPT !.osaka = 0, !.excess = 1],
   [File([Extras EXCEPT !.base_fee_sink = C, !.redirect_height = 1, !.mint_admin = A,
                        !.size_limit = 9, !.size_height = 2, !.initial_base_fee = 2,
                        !.allowlist = <<C, A>>, !.allowlist_height = 2])
      EXCEPT !.cancun = 1, !.osaka = 1],
   [File([Extras EXCEPT !.mint_admin = Zero, !.denominator = 1, !.base_fee_sink = C,
                        !.allowlist = <<>>])
      EXCEPT !.london = 2, !.merge = 2, !.cancun = None]}

(* Files that do not.                                                      *)
Bad ==
  {File(Invalid),
   File([Extras EXCEPT !.elasticity = Invalid]),
   File([Extras EXCEPT !.allowlist = Invalid]),
   File([Extras EXCEPT !.denominator = 0]),
   File([Extras EXCEPT !.elasticity = 0]),
   File([Extras EXCEPT !.allowlist = <<A, A>>]),
   File([Extras EXCEPT !.allowlist = <<Zero>>]),
   [File([Extras EXCEPT !.initial_base_fee = 2]) EXCEPT !.base_fee = 1],
   [File([Extras EXCEPT !.initial_base_fee = 2]) EXCEPT !.london = 1]}

MCFiles == Good \cup Bad

Tx(sender, n, gas, fee, value) ==
  [evnode |-> FALSE, calls |-> "calls", sender |-> sender, nonce |-> n, gas |-> gas,
   bytes |-> gas, fee |-> fee, value |-> value, sponsor |-> None]

EvNode(t, calls, sponsor) ==
  [t EXCEPT !.evnode = TRUE, !.calls = calls, !.sponsor = sponsor]

(* B pays its own and the sponsored transactions of A; C sponsors itself.  *)
MCTxs ==
  {Tx(B, 0, 1, 4, 1),
   [Tx(B, 0, 1, 7, 0) EXCEPT !.calls = "create"],
   EvNode(Tx(A, 0, 2, 5, 1), "calls", B),
   EvNode(Tx(A, 1, 1, 3, 0), "calls", B),
   EvNode(Tx(C, 0, 1, 6, 3), "calls", C),
   EvNode(Tx(C, 0, 1, 6, 0), "late_create", None),
   EvNode(Tx(C, 0, 1, 6, 0), "empty", None),
   EvNode(Tx(C, 0, 1, 6, 0), "calls", Invalid)}

MCRecipients == {Zero}

MCGenesis == (A :> 1) @@ (B :> 14) @@ (C :> 9)

=============================================================================
