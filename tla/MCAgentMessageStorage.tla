----------------------- MODULE MCAgentMessageStorage -----------------------
(* Instances of AgentMessageStorage for TLC.                                 *)
EXTENDS AgentMessageStorage, TLC

CONSTANTS m1, m2

(* A payload smaller than its tombstone, and one larger                      *)
MCTwoSizes == (m1 :> 1) @@ (m2 :> 3)

(* Recorders and senders are interchangeable                                 *)
MCSymmetry == Permutations(Recorders) \cup Permutations(Senders)

Asked(tables) ==
    /\ \A i \in DOMAIN facts : facts[i].table \in tables
    /\ \A r \in Recorders :
          recording[r].request # Nothing => recording[r].request.table \in tables

(* Bound: two messages, one sender and one recorder                          *)
TwoMessages ==
    /\ Cardinality({s \in Senders : sending[s].message # Nothing}) <= 1
    /\ Cardinality({r \in Recorders : recording[r].request # Nothing}) <= 1
    /\ accepted = {} /\ Asked({"ack", "workflow"})

(* Bound: one message, and all senders and recorders                         *)
OneMessage ==
    /\ payload[m2] = "absent" /\ \A s \in Senders : sending[s].message # m2
    /\ Len(facts) <= 3
    /\ Asked({"ackFact", "disposition", "workflow"})

Either == TwoMessages \/ OneMessage
=============================================================================
