-------------------------- MODULE MCAgentMessaging --------------------------
(* Instances of AgentMessaging for TLC.                                      *)
EXTENDS AgentMessaging, TLC

Req(sender, recipient, key, payload) ==
    [project |-> "p", sender |-> sender, recipient |-> recipient,
     key |-> key, payload |-> payload]

(* One key with two payloads (an exact retry and a conflict) and another key *)
MCSenderRequests == {Req("a", "x", 1, "hi"), Req("a", "x", 1, "ho"),
                     Req("b", "x", 1, "hi")}

MCOneRequest == {Req("a", "x", 1, "hi")}
MCSharedScope == [d \in Readers |-> <<"p", "x">>]

CONSTANTS w1, w2, d1, d2
MCTwoScopes == (d1 :> <<"p", "x">>) @@ (d2 :> <<"p", "y">>)
Twins == Permutations({w1, w2})

(* Bound: the other reader, whose cursor d1 may be restarted with, does all  *)
(* its polling before anything else happens                                  *)
OtherReaderFirst ==
    \A d \in Readers \ {d1} :
        \/ /\ rpc[d] = "idle"
           /\ \A t \in Tokens : cursors[t].scope = ScopeOf[d] <=> t = rcur[d]
        \/ /\ log = <<>> /\ answers = {} /\ rpc[d1] = "idle" /\ due[d]
           /\ \A w \in Writers : wpc[w] = "idle"

(* Bound: readers poll and do not wait, and not while both senders send      *)
PollsOnly ==
    /\ \A d \in Readers : due[d]
    /\ (\A d \in Readers : rpc[d] = "idle") \/ (\E w \in Writers : wpc[w] = "idle")
=============================================================================
