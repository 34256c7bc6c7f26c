--------------------------- MODULE MCExactSender ----------------------------
(* Instances of ExactSender for TLC.                                         *)
EXTENDS ExactSender, MCAgentDelivery

CONSTANTS a, b

(* A message and a hint over a lost router; a call for an exact session over *)
(* a lost router or an error; a call and its retry, at once or one after the *)
(* other, while the host answers late, closes or dies; a connection that is  *)
(* lost twice, the second time at whatever moment                            *)
Exact(asked) == Budget(asked @@ "commit" :> 0)
ExactScenarios ==
    RestartScenarios
    \cup Of(SameSession, {Exact("call" :> 1 @@ "stop" :> 1), Exact("call" :> 1 @@ "busy" :> 1),
                          Exact("call" :> 2),
                          Exact("stop" :> 2), Exact("break" :> 2),
                          Exact("stop" :> 1 @@ "break" :> 1)})
=============================================================================
