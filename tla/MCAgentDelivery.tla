-------------------------- MODULE MCAgentDelivery ---------------------------
(* Instances of AgentDelivery for TLC. A scenario says which session each    *)
(* process belongs to and how often each kind of event may happen; each      *)
(* behaviour draws one of them.                                              *)
EXTENDS AgentDelivery, TLC

CONSTANTS h1, h2, s1, s2, p1

OnePrincipal == [s \in Sessions |-> p1]
Twins == Permutations({h1, h2})

SameSession == {[h \in Hosts |-> s1]}
OwnSession == {f \in [Hosts -> {s1, s2}] : \A g, h \in Hosts : g # h => f[g] # f[h]}

(* Two processes, one message, and no mishap but those asked for             *)
Budget(asked) ==
    [x \in Events |-> IF x \in DOMAIN asked THEN asked[x]
                      ELSE CASE x = "process" -> 2 [] x = "commit" -> 1 [] OTHER -> 0]
Of(sessions, budgets) == [sessionOf : sessions, budget : budgets]

(* Two processes of one session: a lost router, leases that run out, a       *)
(* second hint, broken sockets and SQLite errors. One process that is pushed *)
(* two messages again and again. Two sessions of one principal.              *)
DeliveryScenarios ==
    Of(SameSession, {Budget("stop" :> 1), Budget("tick" :> 2), Budget("notify" :> 1),
                     Budget("break" :> 1 @@ "busy" :> 1),
                     Budget("process" :> 1 @@ "commit" :> 2 @@ "notify" :> 2)})
    \cup Of(OwnSession, {Budget("stop" :> 1)})

RestartScenarios == Of(SameSession, {Budget("stop" :> 1 @@ "notify" :> 1)})
TickScenarios == Of(SameSession, {Budget("tick" :> 2 @@ "notify" :> 1)})
=============================================================================
