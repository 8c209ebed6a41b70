------------------------- MODULE MCEndpointRequests -------------------------
(***************************************************************************)
(* TLC instances of EndpointRequests: an agent process with two requests   *)
(* and an API process with one, or three requests of one process, of which *)
(* one retries.                                                            *)
(***************************************************************************)
EXTENDS EndpointRequests, TLC

CONSTANTS a1, a2, b1, agent, api

TwoProcesses == (a1 :> agent) @@ (a2 :> agent) @@ (b1 :> api)

OneProcess == (a1 :> agent) @@ (a2 :> agent) @@ (b1 :> agent)

OneEachProcess == [r \in {a1, a2, b1} |-> IF r = a2 THEN 0 ELSE 1]

OneRetries == [r \in {a1, a2, b1} |-> IF r = a1 THEN 1 ELSE 0]
=============================================================================
