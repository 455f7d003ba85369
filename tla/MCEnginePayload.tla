--------------------------- MODULE MCEnginePayload ---------------------------
(* Instances of EnginePayload for TLC.                                     *)
EXTENDS EnginePayload

CONSTANTS R, W, Deposit

Tx(kind, gas) == [kind |-> kind, gas |-> gas, executes |-> TRUE, logs |-> {}]

Eth == Tx("eth", 1)

Ev == Tx("ev", 2)

Depositing == [Tx("eth", 3) EXCEPT !.logs = {Deposit}]

(* Blocks without, with one and with both types of transactions, with a    *)
(* request, and what a build drops and skips.                              *)
MCBatches ==
  {<<Eth, Ev>>,
   <<Depositing>>,
   <<Tx("undecodable", 1), [Ev EXCEPT !.executes = FALSE], Eth>>}

MCPoolTxs == {Ev, Depositing}

MCLogs == {Deposit}

MCRoots == {ZeroRoot, R}

MCWithdrawals == {W}

=============================================================================
