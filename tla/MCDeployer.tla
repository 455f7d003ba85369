----------------------------- MODULE MCDeployer -----------------------------
(***************************************************************************)
(* An instance of Deployer for TLC: two chains, one of them the devnet, a  *)
(* genesis without factory, one that spells its entries with a prefix, and *)
(* one with other code in the factory's place.                             *)
(***************************************************************************)
EXTENDS Deployer

CONSTANTS zero, factory, proxy, permit2

Entry(address) == [address |-> address, owner |-> None]

Cfg(chain_id, contracts) == [chain_id |-> chain_id, contracts |-> contracts]

OnlyPermit2 == [n \in {"permit2"} |-> Entry(None)]

(* Nothing to deploy; Permit2 on either chain; everything for genesis; two *)
(* contracts at one address.                                               *)
MCConfigs ==
  {Cfg(1, [n \in {} |-> Entry(None)]),
   Cfg(1, OnlyPermit2),
   Cfg(2, OnlyPermit2),
   Cfg(2, [n \in {"permit2", "deterministic_deployer"} |->
             Entry(IF n = "permit2" THEN permit2 ELSE factory)]),
   Cfg(1, [n \in {"permit2", "deterministic_deployer"} |-> Entry(factory)])}

MCTemplates ==
  {[names |-> {"admin_proxy", "permit2", "deterministic_deployer"}, owner |-> permit2],
   [names |-> {"admin_proxy"}, owner |-> zero]}

MCGenesis ==
  {<<[k \in {<<proxy, "prefixed">>} |-> <<"other">>],
     [k \in {<<factory, "prefixed">>} |-> FactoryCode]>>,
   <<[k \in {<<factory, "canonical">>} |-> FactoryCode],
     [k \in {<<factory, "canonical">>} |-> <<"other">>]>>}

=============================================================================
