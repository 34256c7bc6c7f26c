--------------------------- MODULE DeliveryLedger ---------------------------
(* What the agent router promises, with no connection, attempt or process in *)
(* it: a delivery reaches only sessions it is meant for, reaches any of them *)
(* any number of times, and is settled at most once, with one it reached. A  *)
(* principal receives nothing that was committed before its activation.      *)
EXTENDS Naturals, Sequences

CONSTANTS Sessions, Principals, PrincipalOf

VARIABLES
    backlog,   \* the targets of the deliveries, in commit order
    active,    \* principals that were activated
    since,     \* how many deliveries there were when they were
    reached,   \* <<session, delivery>> pairs that were handed over
    settled    \* <<session, delivery>> pairs that are settled

ledgerVars == <<backlog, active, since, reached, settled>>

Init ==
    /\ backlog = <<>>
    /\ active = {}
    /\ since = [p \in Principals |-> 0]
    /\ reached = {}
    /\ settled = {}

(* The sessions a delivery is meant for                                      *)
MeantFor(s, d) ==
    \/ backlog[d] = [kind |-> "session", to |-> s]
    \/ /\ backlog[d] = [kind |-> "principal", to |-> PrincipalOf[s]]
       /\ PrincipalOf[s] \in active
       /\ d > since[PrincipalOf[s]]

Add(kind, to) ==
    /\ backlog' = Append(backlog, [kind |-> kind, to |-> to])
    /\ UNCHANGED <<active, since, reached, settled>>

Activate(p) ==
    /\ p \notin active
    /\ active' = active \cup {p}
    /\ since' = [since EXCEPT ![p] = Len(backlog)]
    /\ UNCHANGED <<backlog, reached, settled>>

Reach ==
    /\ \A r \in reached' : r \in Sessions \X DOMAIN backlog /\ MeantFor(r[1], r[2])
    /\ reached \subseteq reached'
    /\ UNCHANGED <<backlog, active, since, settled>>

Settle(r) ==
    /\ r \in reached
    /\ \A q \in settled : q[2] # r[2]
    /\ settled' = settled \cup {r}
    /\ UNCHANGED <<backlog, active, since, reached>>

Next ==
    \/ \E s \in Sessions : Add("session", s)
    \/ \E p \in Principals : Add("principal", p) \/ Activate(p)
    \/ Reach
    \/ \E r \in reached : Settle(r)

Spec == Init /\ [][Next]_ledgerVars
=============================================================================
