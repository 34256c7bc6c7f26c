---------------------------- MODULE MessageLedger ----------------------------
(* What the message store promises its senders, and nothing of how: one      *)
(* append-only ledger in which a key is used once. Taking a request and      *)
(* telling a sender are separate, atomic and in any order the promise        *)
(* allows; a request whose sender died is taken and never answered.          *)
EXTENDS Naturals, Sequences

CONSTANTS
    Requests,  \* the requests that may be sent
    KeyOf      \* the idempotency key of each

VARIABLES
    ledger,    \* the requests taken, oldest first
    answered   \* the answers given: [req, kind, msg]

Init == ledger = <<>> /\ answered = {}

Bound(k) == {m \in DOMAIN ledger : KeyOf[ledger[m]] = k}

(* A request with an unused key is taken                                     *)
Take(r) ==
    /\ Bound(KeyOf[r]) = {}
    /\ ledger' = Append(ledger, r)
    /\ UNCHANGED answered

Tell(r, kind, m) ==
    /\ answered' = answered \cup {[req |-> r, kind |-> kind, msg |-> m]}
    /\ UNCHANGED ledger

(* A sender learns which message its key stands for, or that the key stands  *)
(* for another request, or that nothing was promised                         *)
Confirm(r) == \E m \in Bound(KeyOf[r]) : ledger[m] = r /\ Tell(r, "sent", m)
Refuse(r) == \E m \in Bound(KeyOf[r]) : ledger[m] # r /\ Tell(r, "conflict", 0)
Fail(r) == Tell(r, "failed", 0)

Next == \E r \in Requests : Take(r) \/ Confirm(r) \/ Refuse(r) \/ Fail(r)

Spec == Init /\ [][Next]_<<ledger, answered>>
=============================================================================
