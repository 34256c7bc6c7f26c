---------------------------- MODULE AgentRouter -----------------------------
(* The router of src/src/core/agent-router.ts: it registers host sessions    *)
(* with a generation and a lease, pushes durable deliveries to the current   *)
(* connection of their target, and records a host acceptance in SQLite.      *)
(*                                                                           *)
(* One project. Rows outlive the process, maps do not. The process is        *)
(* single-threaded: a frame, a timer or a socket event is one step           *)
(* (a macrotask), and a continuation after an await is a step that runs      *)
(* before the next macrotask (see Settled). Message i is the delivery with   *)
(* event_sequence i; connection c is row c of agent_session_connections.     *)
EXTENDS RouterWire, FiniteSets

CONSTANTS
    Principals,
    PrincipalOf,   \* the principal each session registers
    InRouter,      \* sessions whose adapter dispatches inside the router
    LeaseTicks     \* a lease, in heartbeat intervals

Targets == [kind : {"principal"}, to : Principals]
             \cup [kind : {"session"}, to : Sessions]

ASSUME RouterAssumption ==
    /\ PrincipalOf \in [Sessions -> Principals]
    /\ InRouter \subseteq Sessions
    /\ LeaseTicks \in Nat \ {0}

VARIABLES
    deliveries,   \* agent_message_deliveries joined with their events
    active,       \* agent_principals: those that have a row
    checkpoint,   \* their activation_event_sequence
    lastGen,      \* agent_session_instances.last_generation, 0 for no row
    conns,        \* agent_session_connections
    attempts,     \* agent_dispatch_attempts of each delivery, in order
    accepted,     \* agent_host_accepts: the attempt accepted, 0 for none
    run,          \* router_instance_id
    running,      \* the router process is up
    bound,        \* externalConnections: connections bound to their socket
    op,           \* inFlightDeliveries and pendingExternal
    drain,        \* drainConnection of each connection
    native        \* history: <<session, delivery>> an in-router adapter queued

rows == <<deliveries, active, checkpoint, lastGen, conns, attempts, accepted>>
memory == <<run, running, bound, op, drain>>
routerVars == <<rows, memory, native>>

Conns == DOMAIN conns
NoOp == [pc |-> "none", conn |-> 0, n |-> 0, ok |-> FALSE]
NoDrain == [pc |-> "off", upper |-> 0, cur |-> 0]

ConnRows == [sock : DOMAIN owner, session : Sessions, gen : Nat \ {0},
             router : Nat \ {0}, open : BOOLEAN, lease : 0..LeaseTicks]
Attempts == [conn : DOMAIN conns,
             result : {"started", "returned", "rejected", "stale"}]

RouterTypeOK ==
    /\ deliveries \in Seq(Targets) /\ Len(deliveries) <= MaxBacklog
    /\ active \subseteq Principals
    /\ checkpoint \in [Principals -> 0..MaxBacklog]
    /\ lastGen \in [Sessions -> Nat]
    /\ conns \in Seq(ConnRows)
    /\ attempts \in [Deliveries -> Seq(Attempts)]
    /\ accepted \in [Deliveries -> Nat]
    /\ run \in Nat \ {0}
    /\ running \in BOOLEAN
    /\ bound \subseteq DOMAIN conns
    /\ op \in [Deliveries ->
                 [pc : {"none", "waiting", "queueing", "answered", "resolved"},
                  conn : {0} \cup DOMAIN conns, n : Nat, ok : BOOLEAN]]
    /\ drain \in [Sockets -> [pc : {"off", "scheduled", "on"},
                              upper : 0..MaxBacklog, cur : 0..MaxBacklog]]
    /\ native \subseteq Sessions \X Deliveries

RouterInit ==
    /\ deliveries = <<>>
    /\ active = {}
    /\ checkpoint = [p \in Principals |-> 0]
    /\ lastGen = [s \in Sessions |-> 0]
    /\ conns = <<>>
    /\ attempts = [d \in Deliveries |-> <<>>]
    /\ accepted = [d \in Deliveries |-> 0]
    /\ run = 1
    /\ running = TRUE
    /\ bound = {}
    /\ op = [d \in Deliveries |-> NoOp]
    /\ drain = [c \in Sockets |-> NoDrain]
    /\ native = {}

-----------------------------------------------------------------------------
(* Scheduling *)

Runnable(c) ==
    /\ drain[c].pc = "on"
    /\ drain[c].cur # 0 => op[drain[c].cur].pc = "none"

(* No continuation is due: the next macrotask may run                        *)
Settled ==
    /\ running
    /\ \A d \in Deliveries : op[d].pc \notin {"answered", "resolved"}
    /\ \A c \in Sockets : ~Runnable(c)

(* All complete frames of a chunk are handled before any continuation        *)
SettledBut(k) ==
    /\ running
    /\ \A d \in Deliveries :
          /\ op[d].pc # "resolved"
          /\ op[d].pc = "answered" => conns[op[d].conn].sock = k
    /\ \A c \in Sockets : ~Runnable(c)

Received(k, type) ==
    /\ k \in routerEnd
    /\ toRouter[k] # <<>>
    /\ Head(toRouter[k]).type = type

Consume(k) == toRouter' = [toRouter EXCEPT ![k] = Tail(@)]

-----------------------------------------------------------------------------
(* Connections *)

(* requireCurrentConnection                                                  *)
Current(c) == conns[c].router = run /\ conns[c].open /\ conns[c].lease > 0

(* pending.resolve of every external delivery that waits on a connection     *)
RejectPending(ops, C) ==
    [d \in Deliveries |->
        IF ops[d].pc = "waiting" /\ ops[d].conn \in C
        THEN [ops[d] EXCEPT !.pc = "resolved", !.ok = FALSE] ELSE ops[d]]

CloseRows(cs, C) ==
    [c \in DOMAIN cs |-> IF c \in C THEN [cs[c] EXCEPT !.open = FALSE] ELSE cs[c]]

(* Mutant: only the rows whose socket this process knows                     *)
KnownRows(s) == {c \in bound : conns[c].session = s /\ conns[c].open}

(* The rows a registration of the session supersedes                         *)
OpenRows(s) == {c \in Conns : conns[c].session = s /\ conns[c].open}

(* Mutant: authenticate waits, and registrations overtake each other         *)
AnyTurn(k) == k \in Sockets

(* The event loop reads sockets in the order in which they became readable,  *)
(* and authenticate does not wait: what a host wrote to an earlier socket is *)
(* read before what it wrote to a later one                                  *)
InTurn(k) ==
    \A j \in DOMAIN owner : j < k /\ owner[j] = owner[k] => toRouter[j] = <<>>

(* register, registerConnection and bindExternalConnection: activate the     *)
(* principal, supersede every open row of the session, take the next         *)
(* generation, bind the socket and schedule the drain                        *)
Register(k) ==
    LET s == sessionOf[owner[k]]
        old == OpenRows(s)
        new == [sock |-> k, session |-> s, gen |-> lastGen[s] + 1,
                router |-> run, open |-> TRUE, lease |-> LeaseTicks]
        told == [j \in Sockets |->
                   IF \E c \in old \cap bound : conns[c].sock = j /\ j \in clientEnd
                   THEN Append(toHost[j], Frame("superseded", 0, 0))
                   ELSE toHost[j]]
    IN  /\ Settled
        /\ Received(k, "register")
        /\ InTurn(k)
        /\ Consume(k)
        /\ active' = active \cup {PrincipalOf[s]}
        /\ checkpoint' = IF PrincipalOf[s] \in active THEN checkpoint
                         ELSE [checkpoint EXCEPT ![PrincipalOf[s]] = Len(deliveries)]
        /\ lastGen' = [lastGen EXCEPT ![s] = @ + 1]
        /\ conns' = Append(CloseRows(conns, old), new)
        /\ bound' = (bound \ old) \cup {Len(conns) + 1}
        /\ op' = RejectPending(op, old)
        /\ drain' = [drain EXCEPT ![Len(conns) + 1].pc = "scheduled"]
        /\ toHost' = SendToHost(told, k, Frame("registered", 0, 0))
        /\ UNCHANGED <<deliveries, attempts, accepted, run, running, native, left,
                       owner, clientEnd, routerEnd>>

ConnectionsOf(k) == {c \in Conns : conns[c].sock = k}

Renewed(row) == [row EXCEPT !.lease = LeaseTicks]

(* A heartbeat of a connection that is still current renews its lease; any   *)
(* other is answered with stale_generation                                   *)
Heartbeat(k) ==
    /\ SettledBut(k)
    /\ Received(k, "heartbeat")
    /\ Consume(k)
    /\ conns' = [c \in Conns |-> IF c \in ConnectionsOf(k) /\ Current(c)
                                 THEN Renewed(conns[c])
                                 ELSE conns[c]]
    /\ UNCHANGED <<deliveries, active, checkpoint, lastGen, attempts, accepted,
                   memory, native, left, owner, clientEnd, routerEnd, toHost>>

(* A client that closes: its row is closed and its binding dropped, and      *)
(* what waits for its answer goes on waiting                                 *)
Disconnect(k) ==
    LET gone == {c \in ConnectionsOf(k) : Current(c)}
    IN  /\ SettledBut(k)
        /\ Received(k, "disconnect")
        /\ Consume(k)
        /\ conns' = CloseRows(conns, gone)
        /\ bound' = bound \ gone
        /\ UNCHANGED <<deliveries, active, checkpoint, lastGen, attempts, accepted,
                       run, running, op, drain, native, left,
                       owner, clientEnd, routerEnd, toHost>>

(* Mutant: the binding goes, the socket stays                                *)
DropBinding(k) ==
    LET gone == ConnectionsOf(k) \cap bound
    IN  /\ conns' = CloseRows(conns, gone)
        /\ bound' = bound \ gone
        /\ op' = RejectPending(op, gone)
        /\ UNCHANGED <<deliveries, active, checkpoint, lastGen, attempts, accepted,
                       run, running, drain, native, owner, clientEnd, routerEnd,
                       toRouter, toHost>>

(* disconnectSocket                                                          *)
DropSocket(k) ==
    LET gone == ConnectionsOf(k) \cap bound
    IN  /\ conns' = CloseRows(conns, gone)
        /\ bound' = bound \ gone
        /\ op' = RejectPending(op, gone)
        /\ routerEnd' = routerEnd \ {k}
        /\ toRouter' = [toRouter EXCEPT ![k] = <<>>]
        /\ UNCHANGED <<deliveries, active, checkpoint, lastGen, attempts, accepted,
                       run, running, drain, native, owner, clientEnd, toHost>>

(* The router sees the close of a client that is gone; frames it had not     *)
(* read yet may be lost                                                      *)
SocketClosed(k) ==
    /\ Settled
    /\ k \in routerEnd \ clientEnd
    /\ DropSocket(k)
    /\ UNCHANGED left

(* The router itself destroys a socket (frame rate or size) or it breaks     *)
SocketBreaks(k) ==
    /\ Settled
    /\ k \in routerEnd
    /\ Spend("break")
    /\ DropSocket(k)

(* A heartbeat interval passes without a heartbeat for this connection       *)
LeaseTick(c) ==
    /\ Settled
    /\ conns[c].open /\ conns[c].lease > 0
    /\ Spend("tick")
    /\ conns' = [conns EXCEPT ![c].lease = @ - 1]
    /\ UNCHANGED <<deliveries, active, checkpoint, lastGen, attempts, accepted,
                   memory, native, wire>>

-----------------------------------------------------------------------------
(* Deliveries *)

(* sendAgentMessage stores a message while the router runs or not            *)
Stored(t) ==
    /\ Len(deliveries) < MaxBacklog
    /\ deliveries' = Append(deliveries, t)
    /\ UNCHANGED <<active, checkpoint, lastGen, conns, attempts, accepted,
                   memory, native, wire>>

Commit(t) == Spend("commit") /\ Stored(t)

(* The newest of a set of connections: ORDER BY connected_at, rowid DESC     *)
Newest(C) == {c \in C : \A b \in C : b <= c}

(* Mutant: an exact session falls back to another session                    *)
ResolveAny(d) ==
    LET t == deliveries[d]
    IN  Newest({c \in Conns : /\ t.kind = "principal" => d > checkpoint[t.to]
                              /\ Current(c)})

(* resolveConnection without a preferred connection                          *)
Resolve(d) ==
    LET t == deliveries[d]
    IN  IF t.kind = "principal"
        THEN Newest({c \in Conns : /\ t.to \in active /\ d > checkpoint[t.to]
                                   /\ PrincipalOf[conns[c].session] = t.to
                                   /\ Current(c)})
        ELSE Newest({c \in Conns : conns[c].session = t.to /\ Current(c)})

(* dispatchDeliveryOnce up to the adapter's answer: no dispatch of what is   *)
(* accepted, or without a current connection with a bound socket             *)
Dispatch(d, C) ==
    LET chosen == {c \in C : accepted[d] = 0 /\ c \in bound}
        n == Len(attempts[d]) + 1
    IN  \/ /\ chosen = {}
           /\ UNCHANGED <<attempts, op, toHost>>
        \/ \E c \in chosen :
             /\ attempts' = [attempts EXCEPT ![d] =
                               Append(@, [conn |-> c, result |-> "started"])]
             /\ op' = [op EXCEPT ![d] =
                         [pc |-> IF conns[c].session \in InRouter
                                 THEN "queueing" ELSE "waiting",
                          conn |-> c, n |-> n, ok |-> FALSE]]
             /\ toHost' = IF conns[c].session \in InRouter THEN toHost
                          ELSE SendToHost(toHost, conns[c].sock,
                                          Frame("deliver", d, n))

(* dispatchDelivery of a notify request: a delivery in flight is joined, not *)
(* dispatched again                                                          *)
HandleNotify(d) ==
    /\ Settled
    /\ IF op[d].pc = "none" THEN Dispatch(d, Resolve(d))
                            ELSE UNCHANGED <<attempts, op, toHost>>
    /\ UNCHANGED <<deliveries, active, checkpoint, lastGen, conns, accepted,
                   run, running, bound, drain, native,
                   owner, clientEnd, routerEnd, toRouter>>

(* The hint after a commit; one that joins changes nothing                   *)
Notify(d) ==
    /\ d \in DOMAIN deliveries
    /\ op[d].pc = "none"
    /\ Spend("notify")
    /\ HandleNotify(d)

(* setImmediate after a registration, possibly other macrotasks later: the   *)
(* backlog is what exists by then                                            *)
StartDrain(c) ==
    /\ Settled
    /\ drain[c].pc = "scheduled"
    /\ drain' = [drain EXCEPT ![c] = [pc |-> "on", upper |-> Len(deliveries),
                                      cur |-> 0]]
    /\ UNCHANGED <<rows, run, running, bound, op, native, left, wire>>

(* Mutants: the checkpoint is forgotten; the upper bound is exclusive        *)
WholeBacklog(c) ==
    {d \in drain[c].cur + 1 .. drain[c].upper :
        /\ deliveries[d] = [kind |-> "principal", to |-> PrincipalOf[conns[c].session]]
        /\ accepted[d] = 0}
ShortBacklog(c) == {d \in WholeBacklog(c) : d < drain[c].upper}

(* Mutant: what an exact session missed is replayed when it registers        *)
SessionBacklog(c) ==
    LET s == conns[c].session
    IN  {d \in drain[c].cur + 1 .. drain[c].upper :
            /\ \/ /\ deliveries[d] = [kind |-> "principal", to |-> PrincipalOf[s]]
                  /\ d > checkpoint[PrincipalOf[s]]
               \/ deliveries[d] = [kind |-> "session", to |-> s]
            /\ accepted[d] = 0}

(* What drainConnection selects after the delivery it handled last           *)
Backlog(c) ==
    LET p == PrincipalOf[conns[c].session]
    IN  {d \in drain[c].cur + 1 .. drain[c].upper :
            /\ deliveries[d] = [kind |-> "principal", to |-> p]
            /\ d > checkpoint[p]
            /\ accepted[d] = 0}

(* The next delivery of the backlog, once the last one is settled; one that  *)
(* is in flight already is joined                                            *)
DrainStep(c) ==
    /\ running
    /\ Runnable(c)
    /\ \A d \in Deliveries : op[d].pc \notin {"answered", "resolved"}
    /\ \/ /\ Backlog(c) = {}
          /\ drain' = [drain EXCEPT ![c] = NoDrain]
          /\ UNCHANGED <<attempts, op, toHost>>
       \/ \E d \in Backlog(c) :
             /\ \A e \in Backlog(c) : d <= e
             /\ drain' = [drain EXCEPT ![c].cur = d]
             /\ IF op[d].pc = "none"
                THEN Dispatch(d, {b \in {c} : Current(b)})
                ELSE UNCHANGED <<attempts, op, toHost>>
    /\ UNCHANGED <<deliveries, active, checkpoint, lastGen, conns, accepted,
                   run, running, bound, native, left,
                   owner, clientEnd, routerEnd, toRouter>>

(* handleHostOutcome: only the attempt that is pending, and only from the    *)
(* connection it was sent to, is answered                                    *)
Pending(k, f) ==
    /\ op[f.d].pc = "waiting"
    /\ op[f.d].n = f.n
    /\ op[f.d].conn \in ConnectionsOf(k) \cap bound

HostOutcome(k, type) ==
    LET f == Head(toRouter[k])
    IN  /\ SettledBut(k)
        /\ Received(k, type)
        /\ Consume(k)
        /\ op' = IF Pending(k, f) THEN [op EXCEPT ![f.d].pc = "answered",
                                         ![f.d].ok = (type = "accept")]
                 ELSE op
        /\ UNCHANGED <<rows, run, running, bound, drain, native, left,
                       owner, clientEnd, routerEnd, toHost>>

(* Mutant: the timer dies with the binding                                   *)
TimeoutOfBound(d) ==
    /\ Settled
    /\ op[d].pc = "waiting"
    /\ op[d].conn \in bound
    /\ op' = [op EXCEPT ![d].pc = "resolved", ![d].ok = FALSE]
    /\ UNCHANGED <<rows, run, running, bound, drain, native, left, wire>>

(* delivery_timeout_ms                                                       *)
Timeout(d) ==
    /\ Settled
    /\ op[d].pc = "waiting"
    /\ op' = [op EXCEPT ![d].pc = "resolved", ![d].ok = FALSE]
    /\ UNCHANGED <<rows, run, running, bound, drain, native, left, wire>>

(* An in-router adapter (the Codex CLI queue) returns: it took the message,  *)
(* or not, or it took it and its process failed or outlived its timeout      *)
QueueReturns(d, took, ok) ==
    /\ Settled
    /\ op[d].pc = "queueing"
    /\ ok => took
    /\ native' = IF took THEN native \cup {<<conns[op[d].conn].session, d>>}
                 ELSE native
    /\ op' = [op EXCEPT ![d].pc = "resolved", ![d].ok = ok]
    /\ UNCHANGED <<rows, run, running, bound, drain, left, wire>>

(* Mutant: the lease is not looked at again                                  *)
StillBound(c) == c \in bound

(* The connection an answer came from is current and has its socket still    *)
Fresh(c) == Current(c) /\ c \in bound

(* dispatchDeliveryOnce after the answer                                     *)
Finish(d) ==
    LET o == op[d]
        Result(r) == attempts' = [attempts EXCEPT ![d][o.n].result = r]
    IN  /\ running
        /\ o.pc \in {"answered", "resolved"}
        /\ op' = [op EXCEPT ![d] = NoOp]
        /\ \/ ~o.ok /\ Result("rejected") /\ UNCHANGED accepted
           \/ o.ok /\ ~Fresh(o.conn) /\ Result("stale") /\ UNCHANGED accepted
           \/ /\ o.ok /\ Fresh(o.conn)
              /\ IF accepted[d] # 0 THEN UNCHANGED <<attempts, accepted>>
                 ELSE Result("returned") /\ accepted' = [accepted EXCEPT ![d] = o.n]
        /\ UNCHANGED <<deliveries, active, checkpoint, lastGen, conns, run, running,
                       bound, drain, native, left, wire>>

(* Mutant: the attempt is finished outside the transaction that fails        *)
FinishHalf(d) ==
    /\ running
    /\ op[d].pc \in {"answered", "resolved"}
    /\ Spend("busy")
    /\ attempts' = [attempts EXCEPT ![d][op[d].n].result = "returned"]
    /\ op' = [op EXCEPT ![d] = NoOp]
    /\ drain' = [c \in Sockets |->
                   IF drain[c].pc = "on" /\ drain[c].cur = d THEN NoDrain ELSE drain[c]]
    /\ UNCHANGED <<deliveries, active, checkpoint, lastGen, conns, accepted,
                   run, running, bound, native, wire>>

(* A SQLite error instead of the acceptance, or in the drain's own reads: it *)
(* rejects the operation, and with it every drain that waits for it          *)
FinishFails(d) ==
    /\ running
    /\ op[d].pc \in {"answered", "resolved"}
    /\ Spend("busy")
    /\ op' = [op EXCEPT ![d] = NoOp]
    /\ drain' = [c \in Sockets |->
                   IF drain[c].pc = "on" /\ drain[c].cur = d THEN NoDrain ELSE drain[c]]
    /\ UNCHANGED <<rows, run, running, bound, native, wire>>

DrainFails(c) ==
    /\ running
    /\ Runnable(c)
    /\ Spend("busy")
    /\ drain' = [drain EXCEPT ![c] = NoDrain]
    /\ UNCHANGED <<rows, run, running, bound, op, native, wire>>

-----------------------------------------------------------------------------
(* The process *)

(* Everything in memory is gone and every socket with it; a queue command    *)
(* that is under way may still reach its session                             *)
Die ==
    /\ running
    /\ Spend("stop")
    /\ running' = FALSE
    /\ bound' = {}
    /\ op' = [d \in Deliveries |-> NoOp]
    /\ drain' = [c \in Sockets |-> NoDrain]
    /\ routerEnd' = {}
    /\ toRouter' = [k \in Sockets |-> <<>>]
    /\ \E D \in SUBSET {d \in Deliveries : op[d].pc = "queueing"} :
          native' = native \cup {<<conns[op[d].conn].session, d>> : d \in D}
    /\ UNCHANGED <<deliveries, active, checkpoint, lastGen, accepted, run,
                   owner, clientEnd, toHost>>

Crash == Die /\ UNCHANGED <<conns, attempts>>

(* stop(): disconnectSocket for every socket, and what waited is rejected    *)
Stop ==
    /\ Settled
    /\ Die
    /\ conns' = CloseRows(conns, bound)
    /\ attempts' = [d \in Deliveries |->
                      IF op[d].pc = "waiting" /\ op[d].conn \in bound
                      THEN [attempts[d] EXCEPT ![op[d].n].result = "rejected"]
                      ELSE attempts[d]]

(* A host that finds no router starts one                                    *)
Restart ==
    /\ ~running
    /\ running' = TRUE
    /\ run' = run + 1
    /\ UNCHANGED <<rows, bound, op, drain, native, left, wire>>

-----------------------------------------------------------------------------
(* The steps of the router itself, and what happens to it                    *)
RouterStep ==
    \/ \E k \in Sockets :
          \/ Register(k) \/ Disconnect(k) \/ SocketClosed(k)
          \/ \E type \in {"accept", "reject"} : HostOutcome(k, type)
    \/ \E c \in Sockets : StartDrain(c) \/ DrainStep(c)
    \/ \E d \in Deliveries :
          \/ Timeout(d) \/ Finish(d)
          \/ \E took, ok \in BOOLEAN : QueueReturns(d, took, ok)

RouterEnv ==
    \/ \E t \in Targets : Commit(t)
    \/ \E d \in Deliveries : Notify(d) \/ FinishFails(d)
    \/ \E k \in Sockets : SocketBreaks(k)
    \/ \E c \in Sockets : DrainFails(c)
    \/ \E c \in Conns : LeaseTick(c)
    \/ Crash \/ Stop \/ Restart
=============================================================================
