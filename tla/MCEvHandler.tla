---------------------------- MODULE MCEvHandler ----------------------------
(* A small instance of EvHandler: one sender, a sponsor that may be the    *)
(* sender itself, a vault that is call target, fee sink and beneficiary in *)
(* turn, and the account that stands for created contracts.  The supply is *)
(* U256::MAX, so that an addition that creates wei saturates.              *)
EXTENDS EvHandler

CONSTANTS alice, sponsor, vault, contract

MCAddress == {alice, sponsor, vault, contract}

MCHasCode == {contract}

MCAllowlist == {sponsor}

C(to, value) == [to |-> to, value |-> value, intrinsic |-> 2, floor |-> 3]

(* The batches: empty, one call, one CREATE, two calls, a CREATE first, a  *)
(* CREATE second; values the sender can and cannot pay.                    *)
MCCalls ==
  {<<>>, <<C(vault, 4)>>, <<C(Create, 12)>>, <<C(vault, MaxU256)>>,
   <<C(vault, 5), C(sponsor, 5)>>, <<C(Create, 3), C(alice, 4)>>,
   <<C(vault, 1), C(Create, 1)>>}

T(from, n, limit, priority, calls, payer, bad, is_evnode) ==
  [caller |-> from, nonce |-> n, gas_limit |-> limit, max_fee |-> 2,
   priority |-> priority, access |-> 1, calls |-> calls, sponsor |-> payer,
   bad_sponsor |-> bad, evnode |-> is_evnode]

(* The last but two has values that add up to more than a word.            *)
MCTxs ==
  {T(alice, 0, 11, p, calls, payer, FALSE, TRUE) :
     p \in {0, 1}, calls \in MCCalls, payer \in {None, alice, sponsor}}
  \cup {T(alice, 0, limit, 0, <<C(vault, 5), C(sponsor, 5)>>, None, FALSE, TRUE) :
     limit \in {4, 5, 7}}
  \cup {T(alice, 1, 12, 0, <<C(vault, 1)>>, None, bad, TRUE) : bad \in BOOLEAN}
  \cup {T(alice, 0, 11, 0, <<C(contract, MaxU256), C(vault, 1)>>, None, FALSE, TRUE),
        T(contract, 0, 4, 0, <<C(alice, 0)>>, None, FALSE, FALSE),
        T(sponsor, 1, 12, 2, <<C(Create, 3)>>, None, FALSE, FALSE)}

E(number, fee, benef, redirect, floor, sim) ==
  [number |-> number, gas_limit |-> 10 + number, basefee |-> fee, beneficiary |-> benef,
   sink |-> redirect, prague |-> floor, simulate |-> sim]

MCEnvs ==
  {E(1, 1, vault, None, FALSE, FALSE), E(1, 1, alice, vault, TRUE, FALSE),
   E(2, 1, sponsor, sponsor, TRUE, FALSE), E(1, 2, vault, vault, FALSE, FALSE),
   E(1, 3, vault, None, FALSE, FALSE), E(1, 1, vault, None, TRUE, TRUE),
   E(1, 0, vault, None, FALSE, TRUE)}

W(a, s) ==
  [bal   |-> [x \in MCAddress |-> CASE x = alice -> a
                                    [] x = sponsor -> s
                                    [] x = vault -> 40 - (a + s)
                                    [] x = contract -> 0],
   nonce |-> [x \in MCAddress |-> IF x = sponsor THEN 1 ELSE 0],
   store |-> [x \in MCAddress |-> 0]]

MCGenesis == {W(30, 8), W(12, 22)}

MCGasUses == {0, 5}

MCRefunds == {-1, 0, 2}
=============================================================================
