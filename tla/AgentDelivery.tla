---------------------------- MODULE AgentDelivery ---------------------------
(* The router and its host processes, composed over their sockets.           *)
EXTENDS AgentRouter, RouterHost

vars == <<routerVars, hostVars, wire, sessionOf, left>>

Init == WireInit /\ RouterInit /\ HostInit

(* A lease that is not full: a heartbeat renews it, or is refused            *)
Due(h) == \E c \in Conns : conns[c].sock = hsock[h] /\ conns[c].lease < LeaseTicks

Next ==
    \/ /\ RouterStep \/ RouterEnv \/ \E k \in Sockets : Heartbeat(k)
       /\ UNCHANGED <<hostVars, sessionOf>>
    \/ \E h \in Hosts :
          /\ HostStep(h, running) \/ SendHeartbeat(h, Due(h)) \/ HostEnv(h)
          /\ UNCHANGED <<routerVars, sessionOf>>

Spec == Init /\ [][Next]_vars

(* What the processes guarantee: an event loop that runs gets to every event *)
(* it has, timers fire, a host answers every delivery it is handed, and a    *)
(* host that finds no router starts one. Each host and each heartbeat timer  *)
(* is on its own, so that one cannot keep another from running.              *)
Fairness ==
    /\ WF_vars(RouterStep /\ UNCHANGED <<hostVars, sessionOf>>)
    /\ \A k \in Sockets : WF_vars(Heartbeat(k) /\ UNCHANGED <<hostVars, sessionOf>>)
    /\ WF_vars(/\ Restart /\ (\E h \in Hosts : hst[h] = "retry")
               /\ UNCHANGED <<hostVars, sessionOf>>)
    /\ \A h \in Hosts :
          /\ WF_vars(HostStep(h, running) /\ UNCHANGED <<routerVars, sessionOf>>)
          /\ WF_vars(SendHeartbeat(h, Due(h)) /\ UNCHANGED <<routerVars, sessionOf>>)

FairSpec == Spec /\ Fairness

-----------------------------------------------------------------------------
(* Properties *)

(* The tables and maps hold what their declarations say.                     *)
TypeOK ==
    /\ WireTypeOK
    /\ RouterTypeOK
    /\ HostTypeOK

(* The dispatch and acceptance tables, read together with what the hosts     *)
(* really took, keep the promise of the abstract ledger: at least once, to   *)
(* an eligible session, accepted at most once and only after a hand-over.    *)
Ledger == INSTANCE DeliveryLedger WITH
    backlog <- deliveries,
    active  <- active,
    since   <- checkpoint,
    reached <- native \cup UNION {{<<sessionOf[h], d>> : d \in {handed[h][i] : i \in DOMAIN handed[h]}} : h \in Hosts},
    settled <- {<<conns[attempts[d][accepted[d]].conn].session, d>> :
                   d \in {e \in Deliveries : accepted[e] # 0}}
KeepsLedger == Ledger!Spec

(* The tables agree: the open row of a session is its newest one and only    *)
(* open rows of this router process are bound to a socket, and a delivery is *)
(* accepted (agent_host_accepts) exactly when one of its attempts, and no    *)
(* other, has returned (agent_dispatch_attempts); through takeovers,         *)
(* restarts and failed commits.                                              *)
TablesAgree ==
    /\ \A b, c \in Conns : conns[b].open /\ conns[b].session = conns[c].session
                          => c <= b /\ conns[b].gen = lastGen[conns[b].session]
    /\ \A c \in bound : conns[c].open /\ conns[c].router = run /\ conns[c].sock \in routerEnd
    /\ \A d \in Deliveries : \A n \in DOMAIN attempts[d] :
          attempts[d][n].result = "returned" <=> accepted[d] = n

(* An acceptance is recorded only for the newest generation of its session,  *)
(* while that connection has its lease and its socket: an answer that comes  *)
(* after a takeover, an expiry or a disconnect is not counted.               *)
NoStaleAcceptance ==
    [][\A d \in Deliveries :
          accepted'[d] # accepted[d] =>
              LET c == attempts[d][accepted'[d]].conn
              IN  /\ accepted[d] = 0
                  /\ c \in bound /\ conns[c].open /\ conns[c].lease > 0
                  /\ conns[c].gen = lastGen[conns[c].session]]_vars

(* A host that believes it is connected, over a socket the router has open,  *)
(* is bound to it, or is about to read that it was superseded.               *)
NoForgottenHost ==
    \A h \in Hosts :
        hst[h] = "up" /\ hsock[h] \in routerEnd =>
            \E c \in Conns :
                /\ conns[c].sock = hsock[h]
                /\ \/ c \in bound
                   \/ \E i \in DOMAIN toHost[hsock[h]] : toHost[hsock[h]][i].type = "superseded"

(* session_superseded ends a host for good, so a host must never receive it  *)
(* on account of its own reconnection: the generation that replaced it was   *)
(* registered by another process of the session.                             *)
NoSelfSupersede ==
    \A b, c \in Conns :
        /\ conns[b].session = conns[c].session
        /\ conns[c].gen = conns[b].gen + 1
        /\ \E i \in DOMAIN toHost[conns[b].sock] : toHost[conns[b].sock][i].type = "superseded"
        => owner[conns[c].sock] # owner[conns[b].sock]

(* acceptedDeliveries: a process takes the same delivery twice only after    *)
(* more than DedupLimit hand-overs, however often it is pushed.              *)
NoRepeatInWindow ==
    \A h \in Hosts : \A i, j \in DOMAIN handed[h] :
        i < j /\ handed[h][i] = handed[h][j] => j - i > DedupLimit

DrainDone(c) ==
    /\ drain[c].pc = "on" /\ drain'[c].pc = "off"
    /\ left' = left
    /\ Current(c) /\ c \in bound

TriedByRun(d) == \E n \in DOMAIN attempts[d] : conns[attempts[d][n].conn].router = run

(* When the drain of a registration is over and the connection is current    *)
(* still, every eligible delivery that existed when it began is accepted or  *)
(* was attempted by this router process.                                     *)
DrainSkipsNothing ==
    [][\A c \in Sockets : DrainDone(c) =>
          \A d \in 1..drain[c].upper :
              /\ deliveries[d] = [kind |-> "principal",
                                  to |-> PrincipalOf[conns[c].session]]
              /\ d > checkpoint[PrincipalOf[conns[c].session]]
              => accepted[d] # 0 \/ TriedByRun(d)]_vars

(* An operation in flight ends, so what joined it is not stuck, and so does  *)
(* the drain of every registration: no delivery stays in inFlightDeliveries, *)
(* whatever became of its host.                                              *)
WorkEnds ==
    /\ \A d \in Deliveries : op[d].pc # "none" ~> op[d].pc = "none"
    /\ \A c \in Sockets : drain[c].pc # "off" ~> drain[c].pc = "off"

(* reconnectLoop and beginReconnect: a host that lost its connection, or an  *)
(* attempt at one, is registered again in the end unless it is closed or     *)
(* dies, also when the connection is lost before the loop that opened it has *)
(* ended, when beginReconnect returns at once.                               *)
HostsReconnect ==
    \A h \in Hosts : hst[h] \in {"retry", "lost"} ~> hst[h] \in {"up", "closed"}

(* src/src/host-runtime/router-client.ts:340, "Active hosts remain eligible  *)
(* for recovery": a host that is up without a current connection gets one    *)
(* again, or reconnects, or is closed.                                       *)
ActiveHostsRecover ==
    \A h \in Hosts : hst[h] = "up" ~>
        hst[h] # "up" \/ \E c \in bound : conns[c].sock = hsock[h] /\ Current(c)
=============================================================================
