-------------------------- MODULE MCBlockProduction --------------------------
(***************************************************************************)
(* An instance of BlockProduction for TLC: two senders, a genesis block    *)
(* with room for two small transactions or one large one, and a gas limit  *)
(* bound that lets 9 but neither 0 nor 12 follow 8.                        *)
(***************************************************************************)
EXTENDS BlockProduction

CONSTANTS alice, bob

Tx(kind, sender, nonce, gas_limit, used) ==
  [kind |-> kind, sender |-> sender, nonce |-> nonce, gas_limit |-> gas_limit,
   used |-> used]

first == Tx("ok", alice, 0, 4, 3)
second == Tx("ok", alice, 1, 4, 2)
large == Tx("ok", bob, 0, 6, 6)
garbled == Tx("undecodable", alice, 0, 0, 0)
unsigned == Tx("unrecoverable", bob, 0, 4, 3)

MCTxs == {first, second, large, garbled, unsigned}

(* One list for every block: on genesis the large transaction no longer    *)
(* fits after the first, one block later only the large one can run.  The  *)
(* other list fails half way.                                              *)
MCBatches == {<<garbled, first, large, second>>, <<first, unsigned>>}

=============================================================================
