--------------------------- MODULE MCSponsorFlow ---------------------------
(* Instances of SponsorFlow for TLC.                                       *)
EXTENDS SponsorFlow

CONSTANTS A, B, S, Q, X, K

Pay == [to |-> X, value |-> 1, data |-> <<>>]
Deploy == [to |-> None, value |-> 0, data |-> <<K>>]

Plain == [calls |-> <<Pay>>, chainId |-> None, maxFeePerGas |-> None, gasLimit |-> None,
          accessList |-> <<>>]

Job(args, route, sponsored) == [args |-> args, route |-> route, sponsored |-> sponsored]

(* Sponsored by the service, by the client itself, by nobody; above the    *)
(* policy, and above what a word of the node holds; without gas, without a *)
(* call.                                                                   *)
MCJobs ==
  {Job(Plain, "service", FALSE),
   Job(Plain, "service", TRUE),
   Job([Plain EXCEPT !.calls = <<Deploy, Pay>>,
                     !.accessList = <<[address |-> X, keys |-> <<K>>]>>], "node", FALSE),
   Job([Plain EXCEPT !.gasLimit = 3], "service", FALSE),
   Job([Plain EXCEPT !.maxFeePerGas = 8], "node", TRUE),
   Job([Plain EXCEPT !.gasLimit = 0], "node", FALSE),
   Job([Plain EXCEPT !.calls = <<>>], "service", FALSE)}

MCExecutor == {A, B}

MCOpaque == {X, K}

MCParity == [a \in {A, B, S, Q, Stranger} |-> IF a \in {B, S} THEN 1 ELSE 0]

MCGenesis == [a \in {A, B, S, Q, Stranger} |->
                IF a = S THEN 6 ELSE IF a = Stranger THEN 0 ELSE 5]

=============================================================================
