----------------------------- MODULE RouterWire -----------------------------
(* The local sockets between the agent router and the host processes. A host *)
(* opens a new socket for every registration and registers on it once; the   *)
(* frames of one direction keep their order, and either end may vanish with  *)
(* frames in flight. A host process belongs to one session for its whole     *)
(* life; a restarted or a second host is another process of that session.    *)
EXTENDS Naturals, Sequences

CONSTANTS
    Hosts,       \* host processes
    Sessions,    \* session_instance_id
    MaxSockets,  \* bound: sockets ever opened
    MaxBacklog,  \* bound: messages ever committed
    Scenarios    \* bounds: the session of each process and how often each kind
                 \* of event may happen; one of these

Sockets == 1..MaxSockets
Deliveries == 1..MaxBacklog
Events == {"process",   \* host processes that are started
           "commit",    \* messages that are committed
           "call",      \* calls of senders to an exact session
           "stop",      \* the router stops or dies
           "notify",    \* post-commit hints
           "break",     \* sockets that close without their client asking
           "tick",      \* heartbeat intervals that pass
           "busy"}      \* SQLite errors

ASSUME WireAssumption ==
    /\ MaxSockets \in Nat
    /\ MaxBacklog \in Nat
    /\ Scenarios \subseteq [sessionOf : [Hosts -> Sessions], budget : [Events -> Nat]]

VARIABLES
    owner,       \* the host at the client end of each socket opened so far
    clientEnd,   \* sockets whose client end is open
    routerEnd,   \* sockets whose router end is open
    toRouter,    \* frames on their way, per socket
    toHost,
    sessionOf,   \* the session of each process
    left         \* what is left of the budget

wire == <<owner, clientEnd, routerEnd, toRouter, toHost>>

(* d is the delivery and n the number of the attempt a frame is about        *)
Frame(type, d, n) == [type |-> type, d |-> d, n |-> n]
HostFrames == [type : {"register", "heartbeat", "disconnect"}, d : {0}, n : {0}]
                \cup [type : {"accept", "reject"}, d : Deliveries, n : Nat]
RouterFrames == [type : {"registered", "superseded"}, d : {0}, n : {0}]
                  \cup [type : {"deliver"}, d : Deliveries, n : Nat]

WireTypeOK ==
    /\ owner \in Seq(Hosts)
    /\ Len(owner) <= MaxSockets
    /\ clientEnd \subseteq DOMAIN owner
    /\ routerEnd \subseteq DOMAIN owner
    /\ toRouter \in [Sockets -> Seq(HostFrames)]
    /\ toHost \in [Sockets -> Seq(RouterFrames)]
    /\ sessionOf \in [Hosts -> Sessions]
    /\ left \in [Events -> Nat]

WireInit ==
    /\ owner = <<>>
    /\ clientEnd = {}
    /\ routerEnd = {}
    /\ toRouter = [k \in Sockets |-> <<>>]
    /\ toHost = [k \in Sockets |-> <<>>]
    /\ \E s \in Scenarios : sessionOf = s.sessionOf /\ left = s.budget

(* A write to an end that is gone is dropped                                 *)
SendToHost(queues, k, f) ==
    IF k \in clientEnd THEN [queues EXCEPT ![k] = Append(@, f)] ELSE queues
SendToRouter(queues, k, f) ==
    IF k \in routerEnd THEN [queues EXCEPT ![k] = Append(@, f)] ELSE queues

Spend(event) ==
    /\ left[event] > 0
    /\ left' = [left EXCEPT ![event] = @ - 1]
=============================================================================
