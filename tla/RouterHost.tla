----------------------------- MODULE RouterHost -----------------------------
(* A host process's side of the router connection, ActiveRouterHostConnection *)
(* of src/src/host-runtime/router-client.ts: it registers, reconnects with a  *)
(* delay after every loss, hands deliveries to the host one at a time, and    *)
(* answers at once for those it remembers to have accepted.                   *)
EXTENDS RouterWire

CONSTANT DedupLimit   \* 1024 in the code: how many acceptances are remembered

ASSUME HostAssumption == DedupLimit \in Nat

VARIABLES
    hst,      \* off, registering, up, retry (the delay of a loop that connects),
              \* lost (no connection, and no loop has been begun for it) or closed
    task,     \* reconnectTask: a reconnectLoop runs, or its finally is due
    hsock,    \* connectingSocket or currentSocket, 0 for none
    tail,     \* deliveryTail: the frames that wait their turn
    busy,     \* input.deliver is awaited for the head of tail
    handed    \* history: the deliveries input.deliver took, in order

hostVars == <<hst, task, hsock, tail, busy, handed>>

HostTypeOK ==
    /\ hst \in [Hosts -> {"off", "registering", "up", "retry", "lost", "closed"}]
    /\ task \in [Hosts -> BOOLEAN]
    /\ hsock \in [Hosts -> {0} \cup DOMAIN owner]
    /\ tail \in [Hosts -> Seq([sock : DOMAIN owner, d : Deliveries, n : Nat])]
    /\ busy \in [Hosts -> BOOLEAN]
    /\ handed \in [Hosts -> Seq(Deliveries)]

HostInit ==
    /\ hst = [h \in Hosts |-> "off"]
    /\ task = [h \in Hosts |-> FALSE]
    /\ hsock = [h \in Hosts |-> 0]
    /\ tail = [h \in Hosts |-> <<>>]
    /\ busy = [h \in Hosts |-> FALSE]
    /\ handed = [h \in Hosts |-> <<>>]

(* Mutant: the eviction comes one too early                                  *)
Forgetful(h) ==
    {handed[h][i] : i \in {j \in DOMAIN handed[h] : j > Len(handed[h]) + 1 - DedupLimit}}

(* acceptedDeliveries: a map in insertion order, its oldest key is evicted   *)
Remembered(h) ==
    {handed[h][i] : i \in {j \in DOMAIN handed[h] : j > Len(handed[h]) - DedupLimit}}

Became(h, state, k) ==
    /\ hst' = [hst EXCEPT ![h] = state]
    /\ hsock' = [hsock EXCEPT ![h] = k]

Started(h) == IF hst[h] = "off" THEN Spend("process") ELSE UNCHANGED left

(* connectOnce and registerSocket, for the first time or after a delay       *)
Connect(h, up) ==
    LET k == Len(owner) + 1
    IN  /\ hst[h] \in {"off", "retry"}
        /\ up
        /\ k \in Sockets
        /\ owner' = Append(owner, h)
        /\ clientEnd' = clientEnd \cup {k}
        /\ routerEnd' = routerEnd \cup {k}
        /\ toRouter' = [toRouter EXCEPT ![k] = <<Frame("register", 0, 0)>>]
        /\ Became(h, "registering", k)
        /\ Started(h)
        /\ UNCHANGED <<task, tail, busy, handed, toHost>>

(* The client end of the socket closes and what was not read is gone         *)
DropClient(k) ==
    /\ clientEnd' = clientEnd \ {k}
    /\ toHost' = [toHost EXCEPT ![k] = <<>>]

Receives(h, type) ==
    /\ hst[h] \in {"registering", "up"}
    /\ toHost[hsock[h]] # <<>>
    /\ Head(toHost[hsock[h]]).type = type

Read(h) == toHost' = [toHost EXCEPT ![hsock[h]] = Tail(@)]

(* activate                                                                  *)
Registered(h) ==
    /\ Receives(h, "registered")
    /\ Read(h)
    /\ Became(h, "up", hsock[h])
    /\ UNCHANGED <<task, tail, busy, handed, owner, clientEnd, routerEnd, toRouter, left>>

ReceiveDelivery(h) ==
    LET f == Head(toHost[hsock[h]])
    IN  /\ Receives(h, "deliver")
        /\ Read(h)
        /\ tail' = [tail EXCEPT ![h] = Append(@, [sock |-> hsock[h], d |-> f.d, n |-> f.n])]
        /\ UNCHANGED <<hst, task, hsock, busy, handed, owner, clientEnd, routerEnd,
                       toRouter, left>>

(* session_superseded closes the host for good                               *)
Superseded(h) ==
    /\ Receives(h, "superseded")
    /\ DropClient(hsock[h])
    /\ Became(h, "closed", 0)
    /\ UNCHANGED <<task, tail, busy, handed, owner, routerEnd, toRouter, left>>

(* The close event of the router's end. An attempt that was registering has  *)
(* failed, and the loop that made it waits and tries again. For a connection *)
(* that was up, handleDisconnect: beginReconnect begins a loop, unless       *)
(* another is not over yet.                                                  *)
ConnectionLost(h) ==
    /\ hst[h] \in {"registering", "up"}
    /\ hsock[h] \notin routerEnd
    /\ DropClient(hsock[h])
    /\ Became(h, IF hst[h] = "up" /\ task[h] THEN "lost" ELSE "retry", 0)
    /\ task' = [task EXCEPT ![h] = @ \/ hst[h] = "up"]
    /\ UNCHANGED <<tail, busy, handed, owner, routerEnd, toRouter, left>>

(* Mutant: the finally of a reconnectLoop only clears its task               *)
ClearTask(h) ==
    /\ task[h]
    /\ hst[h] \in {"up", "lost", "closed"}
    /\ task' = [task EXCEPT ![h] = FALSE]
    /\ UNCHANGED <<hst, hsock, tail, busy, handed, wire, left>>

(* reconnectLoop returns, connected or closed, and its finally runs: the     *)
(* task is cleared, and a connection lost meanwhile gets a loop of its own   *)
ReconnectEnds(h) ==
    /\ task[h]
    /\ hst[h] \in {"up", "lost", "closed"}
    /\ task' = [task EXCEPT ![h] = hst[h] = "lost"]
    /\ Became(h, IF hst[h] = "lost" THEN "retry" ELSE hst[h], hsock[h])
    /\ UNCHANGED <<tail, busy, handed, wire, left>>

(* registration_timeout_ms: the socket is destroyed although the router may  *)
(* have registered it                                                        *)
RegistrationTimesOut(h) ==
    /\ hst[h] = "registering"
    /\ Spend("break")
    /\ DropClient(hsock[h])
    /\ Became(h, "retry", 0)
    /\ UNCHANGED <<task, tail, busy, handed, owner, routerEnd, toRouter>>

(* The heartbeat timer. One frame is in flight at a time, and only when it   *)
(* is due, which is when it can change something; the reply, an error for a  *)
(* connection that is not current any more, is ignored.                      *)
SendHeartbeat(h, due) ==
    /\ hst[h] = "up"
    /\ due
    /\ \A i \in DOMAIN toRouter[hsock[h]] : toRouter[hsock[h]][i].type # "heartbeat"
    /\ toRouter' = SendToRouter(toRouter, hsock[h], Frame("heartbeat", 0, 0))
    /\ UNCHANGED <<hostVars, owner, clientEnd, routerEnd, toHost, left>>

(* close(): a disconnect frame and the end of the socket                     *)
Close(h) ==
    /\ hst[h] \notin {"off", "closed"}
    /\ toRouter' = IF hst[h] = "up"
                   THEN SendToRouter(toRouter, hsock[h], Frame("disconnect", 0, 0))
                   ELSE toRouter
    /\ clientEnd' = clientEnd \ {hsock[h]}
    /\ toHost' = [k \in Sockets |-> IF k = hsock[h] THEN <<>> ELSE toHost[k]]
    /\ Became(h, "closed", 0)
    /\ UNCHANGED <<task, tail, busy, handed, owner, routerEnd, left>>

(* The process dies, and with it what it queued and remembered               *)
HostCrash(h) ==
    /\ hst[h] # "off"
    /\ hst[h] # "closed" \/ tail[h] # <<>>
    /\ clientEnd' = clientEnd \ {hsock[h]}
    /\ toHost' = [k \in Sockets |-> IF k = hsock[h] THEN <<>> ELSE toHost[k]]
    /\ Became(h, "closed", 0)
    /\ tail' = [tail EXCEPT ![h] = <<>>]
    /\ busy' = [busy EXCEPT ![h] = FALSE]
    /\ task' = [task EXCEPT ![h] = FALSE]
    /\ UNCHANGED <<handed, owner, routerEnd, toRouter, left>>

-----------------------------------------------------------------------------
(* handleDelivery *)

Reply(h, type) ==
    LET e == Head(tail[h])
    IN  /\ tail' = [tail EXCEPT ![h] = Tail(@)]
        /\ toRouter' = IF e.sock \in clientEnd
                       THEN SendToRouter(toRouter, e.sock, Frame(type, e.d, e.n))
                       ELSE toRouter
        /\ UNCHANGED <<hst, task, hsock, owner, clientEnd, routerEnd, toHost, left>>

MayDeliver(h) == tail[h] # <<>> /\ ~busy[h]

DeliverToClosed(h) ==
    /\ MayDeliver(h)
    /\ hst[h] = "closed"
    /\ tail' = [tail EXCEPT ![h] = Tail(@)]
    /\ UNCHANGED <<hst, task, hsock, busy, handed, wire, left>>

AcceptDuplicate(h) ==
    /\ MayDeliver(h)
    /\ hst[h] # "closed"
    /\ Head(tail[h]).d \in Remembered(h)
    /\ Reply(h, "accept")
    /\ UNCHANGED <<busy, handed>>

BeginDeliver(h) ==
    /\ MayDeliver(h)
    /\ hst[h] # "closed"
    /\ Head(tail[h]).d \notin Remembered(h)
    /\ busy' = [busy EXCEPT ![h] = TRUE]
    /\ UNCHANGED <<hst, task, hsock, tail, handed, wire, left>>

EndDeliver(h) ==
    /\ busy[h]
    /\ busy' = [busy EXCEPT ![h] = FALSE]
    /\ \/ /\ handed' = [handed EXCEPT ![h] = Append(@, Head(tail[h]).d)]
          /\ Reply(h, "accept")
       \/ Reply(h, "reject") /\ UNCHANGED handed

(* What a host does by itself; up says that the router listens               *)
HostStep(h, up) ==
    \/ Connect(h, up) \/ Registered(h) \/ ReceiveDelivery(h) \/ Superseded(h)
    \/ ConnectionLost(h) \/ ReconnectEnds(h)
    \/ DeliverToClosed(h) \/ AcceptDuplicate(h) \/ BeginDeliver(h) \/ EndDeliver(h)

HostEnv(h) == RegistrationTimesOut(h) \/ Close(h) \/ HostCrash(h)
=============================================================================
