-------------------------- MODULE AgentDeliveryProofs --------------------------
(* What AgentDelivery guarantees for any hosts, sessions, principals, leases *)
(* and numbers of sockets and messages, and ExactSender for any senders too. *)
EXTENDS ExactSender, SequenceTheorems, TLAPS

-----------------------------------------------------------------------------
(* Queues of frames and tables of rows *)

LEMMA Appended ==
    ASSUME NEW S, NEW q \in Seq(S), NEW e \in S
    PROVE  /\ Append(q, e) \in Seq(S)
           /\ Len(Append(q, e)) = Len(q) + 1 /\ Len(q) \in Nat
           /\ DOMAIN q = 1..Len(q) /\ DOMAIN Append(q, e) = 1..(Len(q) + 1)
           /\ \A i \in DOMAIN q : Append(q, e)[i] = q[i]
           /\ Append(q, e)[Len(q) + 1] = e
  OBVIOUS

LEMMA Removed ==
    ASSUME NEW S, NEW q \in Seq(S), q # <<>>
    PROVE  /\ Head(q) \in S /\ Tail(q) \in Seq(S)
           /\ Len(q) \in Nat /\ Len(q) > 0 /\ Len(Tail(q)) = Len(q) - 1
           /\ DOMAIN q = 1..Len(q) /\ DOMAIN Tail(q) = 1..(Len(q) - 1)
           /\ Head(q) = q[1]
           /\ \A i \in DOMAIN Tail(q) : Tail(q)[i] = q[i + 1]
<1>1. Len(q) \in Nat /\ Len(q) # 0 /\ DOMAIN q = 1..Len(q)
  BY EmptySeq, LenProperties
<1> QED
  BY <1>1, HeadTailProperties, LenProperties

LEMMA Tabulated ==
    ASSUME NEW S, NEW n \in Nat, NEW f \in [1..n -> S]
    PROVE  f \in Seq(S) /\ Len(f) = n
  OBVIOUS

LEMMA Rewritten ==
    ASSUME NEW S, NEW q \in Seq(S), NEW f, DOMAIN f = DOMAIN q, \A i \in DOMAIN q : f[i] \in S,
           f = [i \in DOMAIN q |-> f[i]]
    PROVE  f \in Seq(S) /\ Len(f) = Len(q)
<1>1. Len(q) \in Nat /\ DOMAIN q = 1..Len(q)
  BY LenProperties
<1>2. f \in [1..Len(q) -> S]
  BY <1>1
<1> QED
  BY <1>1, <1>2, Tabulated

-----------------------------------------------------------------------------
(* Types *)

(* What the types rest on: a host has a socket exactly while it is           *)
(* registering or up, and something to deliver while it delivers             *)
Shape ==
    /\ \A h \in Hosts : hst[h] \in {"registering", "up"} <=> hsock[h] # 0
    /\ \A h \in Hosts : busy[h] => tail[h] # <<>>
    /\ \A d \in Deliveries : op[d].pc # "none" => op[d].conn # 0

Typed == TypeOK /\ Shape

USE WireAssumption, RouterAssumption, HostAssumption

LEMMA TypedInit == Init => Typed
<1> SUFFICES ASSUME Init PROVE Typed
  OBVIOUS
<1>1. PICK s \in Scenarios : sessionOf = s.sessionOf /\ left = s.budget
  BY DEF Init, WireInit
<1>2. sessionOf \in [Hosts -> Sessions] /\ left \in [Events -> Nat]
  BY <1>1
<1>3. WireTypeOK
  BY <1>2 DEF Init, WireInit, WireTypeOK, Sockets
<1>4. RouterTypeOK
  BY DEF Init, RouterInit, RouterTypeOK, NoOp, NoDrain
<1>5. HostTypeOK /\ Shape
  BY <1>2 DEF Init, WireInit, RouterInit, HostInit, HostTypeOK, Shape, Events, NoOp
<1> QED
  BY <1>3, <1>4, <1>5 DEF Typed, TypeOK

LEMMA Opened ==
    ASSUME Typed
    PROVE  /\ Len(owner) \in Nat /\ DOMAIN owner = 1..Len(owner) /\ DOMAIN owner \subseteq Sockets
           /\ \A k \in DOMAIN owner : owner[k] \in Hosts
           /\ Len(conns) \in Nat /\ Conns = 1..Len(conns) /\ DOMAIN conns = 1..Len(conns)
           /\ \A c \in Conns : conns[c] \in ConnRows
           /\ Len(deliveries) \in Nat /\ DOMAIN deliveries = 1..Len(deliveries)
           /\ DOMAIN deliveries \subseteq Deliveries
           /\ \A d \in DOMAIN deliveries : deliveries[d] \in Targets
           /\ \A d \in Deliveries : Len(attempts[d]) \in Nat /\ DOMAIN attempts[d] = 1..Len(attempts[d])
           /\ \A d \in Deliveries : \A n \in DOMAIN attempts[d] : attempts[d][n] \in Attempts
<1>1. Len(owner) \in Nat /\ DOMAIN owner = 1..Len(owner) /\ DOMAIN owner \subseteq Sockets
      /\ \A k \in DOMAIN owner : owner[k] \in Hosts
  BY LenProperties, ElementOfSeq DEF Typed, TypeOK, WireTypeOK, Sockets
<1>2. /\ Len(conns) \in Nat /\ Conns = 1..Len(conns)
      /\ \A c \in Conns : conns[c] \in ConnRows
  BY LenProperties, ElementOfSeq DEF Typed, TypeOK, RouterTypeOK, Conns
<1>3. /\ Len(deliveries) \in Nat /\ DOMAIN deliveries = 1..Len(deliveries)
      /\ DOMAIN deliveries \subseteq Deliveries
      /\ \A d \in DOMAIN deliveries : deliveries[d] \in Targets
  BY LenProperties, ElementOfSeq, SMTT(30) DEF Typed, TypeOK, RouterTypeOK, Deliveries
<1>4. ASSUME NEW d \in Deliveries
      PROVE  /\ Len(attempts[d]) \in Nat /\ DOMAIN attempts[d] = 1..Len(attempts[d])
             /\ \A n \in DOMAIN attempts[d] : attempts[d][n] \in Attempts
  BY LenProperties, ElementOfSeq DEF Typed, TypeOK, RouterTypeOK
<1> QED
  BY <1>1, <1>2, <1>3, <1>4 DEF Conns

(* Rows that are closed, renewed or let expire are rows                      *)
LEMMA RowsEdited ==
    ASSUME NEW r \in ConnRows
    PROVE  /\ [r EXCEPT !.open = FALSE] \in ConnRows
           /\ \A n \in 0..LeaseTicks : [r EXCEPT !.lease = n] \in ConnRows
           /\ Renewed(r) \in ConnRows
<1>1. /\ [r EXCEPT !.open = FALSE] \in ConnRows
      /\ \A n \in 0..LeaseTicks : [r EXCEPT !.lease = n] \in ConnRows
  BY DEF ConnRows
<1>2. LeaseTicks \in 0..LeaseTicks
  OBVIOUS
<1> QED
  BY <1>1, <1>2 DEF Renewed

LEMMA ToHosts ==
    ASSUME NEW queues \in [Sockets -> Seq(RouterFrames)], NEW k, NEW f \in RouterFrames
    PROVE  /\ SendToHost(queues, k, f) \in [Sockets -> Seq(RouterFrames)]
           /\ \A j \in Sockets : SendToHost(queues, k, f)[j] =
                 IF j = k /\ k \in clientEnd THEN Append(queues[j], f) ELSE queues[j]
<1>1. CASE k \in Sockets /\ k \in clientEnd
  <2>1. queues[k] \in Seq(RouterFrames) /\ Append(queues[k], f) \in Seq(RouterFrames)
    BY <1>1
  <2>2. SendToHost(queues, k, f) = [queues EXCEPT ![k] = Append(queues[k], f)]
    BY <1>1 DEF SendToHost
  <2> QED
    BY <1>1, <2>1, <2>2
<1>2. CASE ~(k \in Sockets /\ k \in clientEnd)
  <2>1. SendToHost(queues, k, f) = queues
    BY <1>2 DEF SendToHost
  <2> QED
    BY <1>2, <2>1
<1> QED
  BY <1>1, <1>2

LEMMA ToRouters ==
    ASSUME NEW queues \in [Sockets -> Seq(HostFrames)], NEW k, NEW f \in HostFrames
    PROVE  /\ SendToRouter(queues, k, f) \in [Sockets -> Seq(HostFrames)]
           /\ \A j \in Sockets : SendToRouter(queues, k, f)[j] =
                 IF j = k /\ k \in routerEnd THEN Append(queues[j], f) ELSE queues[j]
<1>1. CASE k \in Sockets /\ k \in routerEnd
  <2>1. queues[k] \in Seq(HostFrames) /\ Append(queues[k], f) \in Seq(HostFrames)
    BY <1>1
  <2>2. SendToRouter(queues, k, f) = [queues EXCEPT ![k] = Append(queues[k], f)]
    BY <1>1 DEF SendToRouter
  <2> QED
    BY <1>1, <2>1, <2>2
<1>2. CASE ~(k \in Sockets /\ k \in routerEnd)
  <2>1. SendToRouter(queues, k, f) = queues
    BY <1>2 DEF SendToRouter
  <2> QED
    BY <1>2, <2>1
<1> QED
  BY <1>1, <1>2

LEMMA Spent ==
    ASSUME Typed, NEW e \in Events, Spend(e)
    PROVE  left' \in [Events -> Nat] /\ left' # left
<1>1. left \in [Events -> Nat] /\ left[e] > 0
      /\ left' = [left EXCEPT ![e] = @ - 1]
  BY DEF Typed, TypeOK, WireTypeOK, Spend, Events
<1>2. left[e] - 1 \in Nat /\ left'[e] = left[e] - 1
  BY <1>1
<1> QED
  BY <1>1, <1>2

LEMMA Consumed ==
    ASSUME Typed, NEW k \in Sockets, NEW type, Received(k, type), Consume(k)
    PROVE  /\ toRouter' \in [Sockets -> Seq(HostFrames)]
           /\ k \in DOMAIN owner /\ Head(toRouter[k]) \in HostFrames
           /\ \A j \in Sockets : toRouter'[j] = IF j = k THEN Tail(toRouter[j]) ELSE toRouter[j]
<1>1. toRouter \in [Sockets -> Seq(HostFrames)] /\ toRouter[k] # <<>>
  BY DEF Typed, TypeOK, WireTypeOK, Received
<1>2. Head(toRouter[k]) \in HostFrames /\ Tail(toRouter[k]) \in Seq(HostFrames)
  BY <1>1, Removed
<1> QED
  BY <1>1, <1>2 DEF Typed, TypeOK, WireTypeOK, Received, Consume

Ops == {o \in [pc : {"none", "waiting", "queueing", "answered", "resolved"},
                conn : {0} \cup DOMAIN conns, n : Nat, ok : BOOLEAN] :
          o.pc # "none" => o.conn # 0}

LEMMA Rejected ==
    ASSUME Typed, NEW C
    PROVE  /\ RejectPending(op, C) \in [Deliveries -> Ops]
           /\ \A d \in Deliveries :
                /\ RejectPending(op, C)[d].conn = op[d].conn
                /\ RejectPending(op, C)[d].n = op[d].n
                /\ \/ RejectPending(op, C)[d] = op[d]
                   \/ /\ op[d].pc = "waiting"
                      /\ RejectPending(op, C)[d].pc = "resolved"
                      /\ RejectPending(op, C)[d].ok = FALSE
<1>1. op \in [Deliveries -> Ops]
  BY DEF Typed, TypeOK, RouterTypeOK, Shape, Ops
<1>2. ASSUME NEW d \in Deliveries, op[d].pc = "waiting"
      PROVE  LET o == [op[d] EXCEPT !.pc = "resolved", !.ok = FALSE]
             IN  o \in Ops /\ o.conn = op[d].conn /\ o.n = op[d].n
                 /\ o.pc = "resolved" /\ o.ok = FALSE
  <2>1. op[d] \in Ops
    BY <1>1
  <2>2. op[d].conn # 0 /\ op[d].conn \in {0} \cup DOMAIN conns /\ op[d].n \in Nat
    BY <1>2, <2>1 DEF Ops
  <2> QED
    BY <2>1, <2>2 DEF Ops
<1> QED
  BY <1>1, <1>2 DEF RejectPending

(* What a router step keeps of the hosts                                     *)
LEMMA HostsKept ==
    ASSUME Typed, UNCHANGED <<hostVars, sessionOf, owner>>
    PROVE  /\ HostTypeOK'
           /\ \A h \in Hosts : hst'[h] \in {"registering", "up"} <=> hsock'[h] # 0
           /\ \A h \in Hosts : busy'[h] => tail'[h] # <<>>
  BY DEF Typed, TypeOK, HostTypeOK, Shape, hostVars

LEMMA RegisterTyped ==
    ASSUME Typed, NEW k \in Sockets, Register(k), UNCHANGED <<hostVars, sessionOf>>
    PROVE  Typed'
<1> DEFINE s == sessionOf[owner[k]]
           old == OpenRows(s)
           new == [sock |-> k, session |-> s, gen |-> lastGen[s] + 1,
                   router |-> run, open |-> TRUE, lease |-> LeaseTicks]
           told == [j \in Sockets |->
                      IF \E c \in old \cap bound : conns[c].sock = j /\ j \in clientEnd
                      THEN Append(toHost[j], Frame("superseded", 0, 0))
                      ELSE toHost[j]]
<1>1. k \in DOMAIN owner /\ owner[k] \in Hosts /\ s \in Sessions
      /\ toRouter' \in [Sockets -> Seq(HostFrames)]
  <2>1. Received(k, "register") /\ Consume(k)
    BY DEF Register
  <2> QED
    BY <2>1, Opened, Consumed DEF Typed, TypeOK, WireTypeOK
<1>2. new \in ConnRows
  BY <1>1 DEF Typed, TypeOK, RouterTypeOK, ConnRows
<1>3. CloseRows(conns, old) \in Seq(ConnRows) /\ Len(CloseRows(conns, old)) = Len(conns)
  <2>1. \A c \in DOMAIN conns : CloseRows(conns, old)[c] \in ConnRows
    BY Opened, RowsEdited DEF CloseRows
  <2>2. DOMAIN CloseRows(conns, old) = DOMAIN conns /\ conns \in Seq(ConnRows)
        /\ CloseRows(conns, old) = [i \in DOMAIN conns |-> CloseRows(conns, old)[i]]
    BY DEF CloseRows, Typed, TypeOK, RouterTypeOK
  <2> QED
    BY <2>1, <2>2, Rewritten
<1>4. conns' \in Seq(ConnRows) /\ DOMAIN conns' = 1..(Len(conns) + 1)
  BY <1>2, <1>3, Appended DEF Register
<1>5. \A j \in Sockets : told[j] \in Seq(RouterFrames)
  <2>1. Frame("superseded", 0, 0) \in RouterFrames
    BY DEF Frame, RouterFrames
  <2> QED
    BY <2>1, Appended DEF Typed, TypeOK, WireTypeOK
<1>6. toHost' \in [Sockets -> Seq(RouterFrames)]
  <2>1. Frame("registered", 0, 0) \in RouterFrames
    BY DEF Frame, RouterFrames
  <2>2. told \in [Sockets -> Seq(RouterFrames)]
    BY <1>5
  <2>3. toHost' = SendToHost(told, k, Frame("registered", 0, 0))
    BY DEF Register
  <2> HIDE DEF told
  <2> QED
    BY <2>1, <2>2, <2>3, ToHosts
<1>7. WireTypeOK'
  BY <1>1, <1>6 DEF Register, Typed, TypeOK, WireTypeOK
<1>a. /\ active' = active \cup {PrincipalOf[s]}
      /\ checkpoint' = IF PrincipalOf[s] \in active THEN checkpoint
                       ELSE [checkpoint EXCEPT ![PrincipalOf[s]] = Len(deliveries)]
      /\ lastGen' = [lastGen EXCEPT ![s] = @ + 1]
      /\ bound' = (bound \ old) \cup {Len(conns) + 1}
      /\ op' = RejectPending(op, old)
  BY DEF Register
<1> HIDE DEF s, old, new, told
<1>8. /\ active' \subseteq Principals
      /\ checkpoint' \in [Principals -> 0..MaxBacklog]
      /\ lastGen' \in [Sessions -> Nat]
  <2>1. Len(deliveries) \in 0..MaxBacklog
    BY Opened DEF Typed, TypeOK, RouterTypeOK
  <2>2. PrincipalOf[s] \in Principals
    BY <1>1
  <2>3. lastGen \in [Sessions -> Nat] /\ lastGen[s] + 1 \in Nat
    BY <1>1 DEF Typed, TypeOK, RouterTypeOK
  <2>4. active \subseteq Principals /\ checkpoint \in [Principals -> 0..MaxBacklog]
    BY DEF Typed, TypeOK, RouterTypeOK
  <2> QED
    BY <1>1, <1>a, <2>1, <2>2, <2>3, <2>4
<1>9. bound' \subseteq DOMAIN conns' /\ DOMAIN conns \subseteq DOMAIN conns'
  <2>1. bound \subseteq DOMAIN conns
    BY DEF Typed, TypeOK, RouterTypeOK
  <2> QED
    BY <1>4, <1>a, <2>1, Opened
<1>10. op' \in [Deliveries -> [pc : {"none", "waiting", "queueing", "answered", "resolved"},
                               conn : {0} \cup DOMAIN conns', n : Nat, ok : BOOLEAN]]
  <2>1. Ops \subseteq [pc : {"none", "waiting", "queueing", "answered", "resolved"},
                       conn : {0} \cup DOMAIN conns', n : Nat, ok : BOOLEAN]
    BY <1>9 DEF Ops
  <2>2. op' \in [Deliveries -> Ops]
    BY <1>a, Rejected
  <2> QED
    BY <2>1, <2>2
<1>11. drain' \in [Sockets -> [pc : {"off", "scheduled", "on"},
                               upper : 0..MaxBacklog, cur : 0..MaxBacklog]]
  BY DEF Register, Typed, TypeOK, RouterTypeOK
<1>12. attempts' \in [Deliveries -> Seq(Attempts')]
  <2>1. Attempts \subseteq Attempts'
    BY <1>9 DEF Attempts
  <2> QED
    BY <2>1, SeqMonotonic DEF Register, Typed, TypeOK, RouterTypeOK
<1>13. conns' \in Seq(ConnRows')
  BY <1>4 DEF Register, ConnRows
<1>14. RouterTypeOK'
  BY <1>8, <1>9, <1>10, <1>11, <1>12, <1>13 DEF Register, Typed, TypeOK, RouterTypeOK
<1>15. HostTypeOK' /\ Shape'
  <2>1. \A d \in Deliveries : op'[d].pc # "none" => op'[d].conn # 0
    <3>1. \A d \in Deliveries : op'[d] \in Ops
      BY <1>a, Rejected
    <3> QED
      BY <3>1 DEF Ops
  <2> QED
    BY <2>1, HostsKept DEF Register, Typed, Shape
<1> QED
  BY <1>7, <1>14, <1>15 DEF Typed, TypeOK

LEMMA Closed ==
    ASSUME Typed, NEW C
    PROVE  /\ CloseRows(conns, C) \in Seq(ConnRows)
           /\ DOMAIN CloseRows(conns, C) = DOMAIN conns
           /\ \A c \in Conns :
                 /\ c \notin C => CloseRows(conns, C)[c] = conns[c]
                 /\ c \in C => CloseRows(conns, C)[c] = [conns[c] EXCEPT !.open = FALSE]
<1>1. conns \in Seq(ConnRows) /\ DOMAIN CloseRows(conns, C) = DOMAIN conns
      /\ CloseRows(conns, C) = [i \in DOMAIN conns |-> CloseRows(conns, C)[i]]
  BY DEF CloseRows, Typed, TypeOK, RouterTypeOK
<1>2. \A c \in DOMAIN conns : CloseRows(conns, C)[c] \in ConnRows
  BY Opened, RowsEdited DEF CloseRows
<1> QED
  BY <1>1, <1>2, Rewritten DEF Conns, CloseRows

(* Steps that rewrite the rows of connections but add none                   *)
LEMMA RowsTyped ==
    ASSUME Typed, UNCHANGED <<hostVars, sessionOf>>,
           conns' \in Seq(ConnRows), DOMAIN conns' = DOMAIN conns,
           bound' \subseteq bound, op' \in [Deliveries -> Ops],
           toRouter' \in [Sockets -> Seq(HostFrames)],
           toHost' \in [Sockets -> Seq(RouterFrames)],
           routerEnd' \subseteq routerEnd,
           left' \in [Events -> Nat],
           drain' \in [Sockets -> [pc : {"off", "scheduled", "on"},
                                   upper : 0..MaxBacklog, cur : 0..MaxBacklog]],
           attempts' \in [Deliveries -> Seq(Attempts)],
           accepted' \in [Deliveries -> Nat],
           native' \subseteq Sessions \X Deliveries,
           run' \in Nat \ {0}, running' \in BOOLEAN,
           UNCHANGED <<deliveries, active, checkpoint, lastGen, owner, clientEnd>>
    PROVE  Typed'
<1>1. WireTypeOK'
  BY DEF Typed, TypeOK, WireTypeOK
<1>2. RouterTypeOK'
  BY DEF Typed, TypeOK, RouterTypeOK, ConnRows, Attempts, Ops
<1>3. HostTypeOK' /\ Shape'
  BY HostsKept DEF Typed, Shape, Ops
<1> QED
  BY <1>1, <1>2, <1>3 DEF Typed, TypeOK

(* The types one by one, for steps that leave most of them alone             *)
LEMMA Types ==
    ASSUME Typed
    PROVE  /\ conns \in Seq(ConnRows) /\ bound \subseteq DOMAIN conns
           /\ op \in [Deliveries -> Ops]
           /\ toRouter \in [Sockets -> Seq(HostFrames)]
           /\ toHost \in [Sockets -> Seq(RouterFrames)]
           /\ left \in [Events -> Nat]
           /\ drain \in [Sockets -> [pc : {"off", "scheduled", "on"},
                                     upper : 0..MaxBacklog, cur : 0..MaxBacklog]]
           /\ attempts \in [Deliveries -> Seq(Attempts)]
           /\ accepted \in [Deliveries -> Nat]
           /\ native \subseteq Sessions \X Deliveries
           /\ run \in Nat \ {0} /\ running \in BOOLEAN
  BY DEF Typed, TypeOK, WireTypeOK, RouterTypeOK, Shape, Ops

LEMMA HeartbeatTyped ==
    ASSUME Typed, NEW k \in Sockets, Heartbeat(k), UNCHANGED <<hostVars, sessionOf>>
    PROVE  Typed'
<1>1. toRouter' \in [Sockets -> Seq(HostFrames)]
  BY Consumed DEF Heartbeat
<1>2. conns' \in Seq(ConnRows) /\ DOMAIN conns' = DOMAIN conns
  <2>1. conns' = [c \in Conns |-> IF c \in ConnectionsOf(k) /\ Current(c)
                                 THEN Renewed(conns[c]) ELSE conns[c]]
    BY DEF Heartbeat
  <2>2. \A c \in DOMAIN conns : conns[c] \in ConnRows /\ Renewed(conns[c]) \in ConnRows
    BY Opened, RowsEdited
  <2>3. DOMAIN conns' = DOMAIN conns /\ conns' = [c \in DOMAIN conns |-> conns'[c]]
        /\ \A c \in DOMAIN conns : conns'[c] \in ConnRows
    BY <2>1, <2>2 DEF Conns
  <2> QED
    BY <2>3, Types, Rewritten
<1> QED
  BY <1>1, <1>2, Types, RowsTyped DEF Heartbeat, memory

LEMMA DisconnectTyped ==
    ASSUME Typed, NEW k \in Sockets, Disconnect(k), UNCHANGED <<hostVars, sessionOf>>
    PROVE  Typed'
<1>1. toRouter' \in [Sockets -> Seq(HostFrames)]
  BY Consumed DEF Disconnect
<1>2. conns' \in Seq(ConnRows) /\ DOMAIN conns' = DOMAIN conns
  BY Closed DEF Disconnect
<1> QED
  BY <1>1, <1>2, Types, RowsTyped DEF Disconnect

LEMMA DropSocketTyped ==
    ASSUME Typed, NEW k \in Sockets, DropSocket(k), UNCHANGED <<hostVars, sessionOf>>,
           left' \in [Events -> Nat]
    PROVE  Typed'
<1>1. conns' \in Seq(ConnRows) /\ DOMAIN conns' = DOMAIN conns
  BY Closed DEF DropSocket
<1>2. op' \in [Deliveries -> Ops]
  BY Rejected DEF DropSocket
<1>3. toRouter' \in [Sockets -> Seq(HostFrames)]
  BY Types DEF DropSocket
<1> QED
  BY <1>1, <1>2, <1>3, Types, RowsTyped DEF DropSocket

LEMMA SocketClosedTyped ==
    ASSUME Typed, NEW k \in Sockets, SocketClosed(k), UNCHANGED <<hostVars, sessionOf>>
    PROVE  Typed'
  BY DropSocketTyped, Types DEF SocketClosed

LEMMA SocketBreaksTyped ==
    ASSUME Typed, NEW k \in Sockets, SocketBreaks(k), UNCHANGED <<hostVars, sessionOf>>
    PROVE  Typed'
<1>1. "break" \in Events
  BY DEF Events
<1> QED
  BY <1>1, Spent, DropSocketTyped DEF SocketBreaks

LEMMA LeaseTickTyped ==
    ASSUME Typed, NEW c \in Conns, LeaseTick(c), UNCHANGED <<hostVars, sessionOf>>
    PROVE  Typed'
<1>1. "tick" \in Events
  BY DEF Events
<1>2. left' \in [Events -> Nat]
  BY <1>1, Spent DEF LeaseTick
<1>3. conns' \in Seq(ConnRows) /\ DOMAIN conns' = DOMAIN conns
  <2>1. [conns[c] EXCEPT !.lease = @ - 1] \in ConnRows
    <3>1. conns[c] \in ConnRows /\ conns[c].lease > 0
      BY Opened DEF LeaseTick
    <3>2. conns[c].lease - 1 \in 0..LeaseTicks
      BY <3>1 DEF ConnRows
    <3> QED
      BY <3>1, <3>2, RowsEdited
  <2>2. conns' = [conns EXCEPT ![c] = [conns[c] EXCEPT !.lease = @ - 1]]
    BY DEF LeaseTick
  <2>3. c \in 1..Len(conns)
    BY Opened
  <2> QED
    BY <2>1, <2>2, <2>3, ExceptSeq, Types
<1> QED
  BY <1>2, <1>3, Types, RowsTyped DEF LeaseTick, memory, wire

LEMMA StoredTyped ==
    ASSUME Typed, NEW t \in Targets, Stored(t), left' \in [Events -> Nat],
           UNCHANGED <<hostVars, sessionOf>>
    PROVE  Typed'
<1>1. /\ deliveries' \in Seq(Targets) /\ Len(deliveries') = Len(deliveries) + 1
      /\ Len(deliveries) \in Nat /\ Len(deliveries) < MaxBacklog
  BY Appended, Opened DEF Stored, Typed, TypeOK, RouterTypeOK
<1>2. WireTypeOK'
  BY DEF Stored, Typed, TypeOK, WireTypeOK, wire
<1>3. RouterTypeOK'
  <2>1. UNCHANGED <<active, checkpoint, lastGen, conns, attempts, accepted, run, running, bound,
                    op, drain, native, owner>>
    BY DEF Stored, memory, wire
  <2>2. ConnRows' = ConnRows /\ Attempts' = Attempts /\ Len(deliveries') <= MaxBacklog
    BY <1>1, <2>1 DEF ConnRows, Attempts
  <2> QED
    BY <1>1, <2>1, <2>2 DEF Typed, TypeOK, RouterTypeOK
<1>4. HostTypeOK' /\ Shape'
  BY HostsKept DEF Stored, Typed, Shape, memory, wire
<1> QED
  BY <1>2, <1>3, <1>4 DEF Typed, TypeOK

(* A dispatch: nothing, or an attempt through one of the connections         *)
Attempt(d, c) ==
    /\ accepted[d] = 0 /\ c \in bound
    /\ attempts' = [attempts EXCEPT ![d] = Append(@, [conn |-> c, result |-> "started"])]
    /\ op' = [op EXCEPT ![d] =
                [pc |-> IF conns[c].session \in InRouter THEN "queueing" ELSE "waiting",
                 conn |-> c, n |-> Len(attempts[d]) + 1, ok |-> FALSE]]
    /\ toHost' = IF conns[c].session \in InRouter THEN toHost
                 ELSE SendToHost(toHost, conns[c].sock, Frame("deliver", d, Len(attempts[d]) + 1))

LEMMA Dispatches ==
    ASSUME NEW d, NEW C, Dispatch(d, C)
    PROVE  \/ UNCHANGED <<attempts, op, toHost>> /\ \A c \in C : accepted[d] # 0 \/ c \notin bound
           \/ \E c \in C : Attempt(d, c)
  BY DEF Dispatch, Attempt

LEMMA AttemptTyped ==
    ASSUME Typed, NEW d \in Deliveries, NEW c, Attempt(d, c)
    PROVE  /\ attempts' \in [Deliveries -> Seq(Attempts)]
           /\ op' \in [Deliveries -> Ops]
           /\ toHost' \in [Sockets -> Seq(RouterFrames)]
<1>1. c \in DOMAIN conns /\ Len(attempts[d]) \in Nat
  BY Opened, Types DEF Attempt
<1>2. [conn |-> c, result |-> "started"] \in Attempts
  BY <1>1 DEF Attempts
<1>3. Append(attempts[d], [conn |-> c, result |-> "started"]) \in Seq(Attempts)
  BY <1>2, Appended, Types
<1>4. attempts' \in [Deliveries -> Seq(Attempts)]
  BY <1>3, Types DEF Attempt
<1>5. [pc |-> IF conns[c].session \in InRouter THEN "queueing" ELSE "waiting",
       conn |-> c, n |-> Len(attempts[d]) + 1, ok |-> FALSE] \in Ops
  <2>1. c # 0
    BY <1>1, Opened
  <2> QED
    BY <1>1, <2>1 DEF Ops
<1>6. op' \in [Deliveries -> Ops]
  BY <1>5, Types DEF Attempt
<1>7. Frame("deliver", d, Len(attempts[d]) + 1) \in RouterFrames
  BY <1>1 DEF Frame, RouterFrames
<1>8. toHost' \in [Sockets -> Seq(RouterFrames)]
  BY <1>7, Types, ToHosts DEF Attempt
<1> QED
  BY <1>4, <1>6, <1>8

LEMMA DispatchTyped ==
    ASSUME Typed, NEW d \in Deliveries, NEW C, Dispatch(d, C)
    PROVE  /\ attempts' \in [Deliveries -> Seq(Attempts)]
           /\ op' \in [Deliveries -> Ops]
           /\ toHost' \in [Sockets -> Seq(RouterFrames)]
  BY Dispatches, AttemptTyped, Types

(* The request that is not joined                                            *)
Notified(d) == d \in DOMAIN deliveries /\ op[d].pc = "none" /\ HandleNotify(d)

LEMMA NotifiedTyped ==
    ASSUME Typed, NEW d \in Deliveries, Notified(d), left' \in [Events -> Nat],
           UNCHANGED <<hostVars, sessionOf>>
    PROVE  Typed'
  BY DispatchTyped, Types, RowsTyped DEF Notified, HandleNotify

Drains == [pc : {"off", "scheduled", "on"}, upper : 0..MaxBacklog, cur : 0..MaxBacklog]

LEMMA StartDrainTyped ==
    ASSUME Typed, NEW c \in Sockets, StartDrain(c), UNCHANGED <<hostVars, sessionOf>>
    PROVE  Typed'
<1>1. [pc |-> "on", upper |-> Len(deliveries), cur |-> 0] \in Drains
  BY Opened DEF Drains, Typed, TypeOK, RouterTypeOK
<1>2. drain' \in [Sockets -> Drains]
  BY <1>1, Types DEF StartDrain, Drains
<1> QED
  BY <1>2, Types, RowsTyped DEF StartDrain, Drains, rows, wire

LEMMA DrainStepTyped ==
    ASSUME Typed, NEW c \in Sockets, DrainStep(c), UNCHANGED <<hostVars, sessionOf>>
    PROVE  Typed'
<1>1. NoDrain \in Drains /\ drain \in [Sockets -> Drains]
  BY Types DEF Drains, NoDrain
<1>2. CASE Backlog(c) = {} /\ drain' = [drain EXCEPT ![c] = NoDrain]
           /\ UNCHANGED <<attempts, op, toHost>>
  BY <1>1, <1>2, Types, RowsTyped DEF DrainStep, Drains
<1>3. ASSUME NEW d \in Backlog(c), drain' = [drain EXCEPT ![c].cur = d],
             IF op[d].pc = "none" THEN Dispatch(d, {b \in {c} : Current(b)})
             ELSE UNCHANGED <<attempts, op, toHost>>
      PROVE  Typed'
  <2>1. d \in Deliveries /\ d \in 0..MaxBacklog
    BY <1>1 DEF Backlog, Drains, Deliveries
  <2>2. drain' \in [Sockets -> Drains]
    BY <1>1, <1>3, <2>1 DEF Drains
  <2>3. /\ attempts' \in [Deliveries -> Seq(Attempts)]
        /\ op' \in [Deliveries -> Ops]
        /\ toHost' \in [Sockets -> Seq(RouterFrames)]
    BY <1>3, <2>1, DispatchTyped, Types
  <2> QED
    BY <2>2, <2>3, Types, RowsTyped DEF DrainStep, Drains
<1> QED
  BY <1>2, <1>3 DEF DrainStep

LEMMA HostOutcomeTyped ==
    ASSUME Typed, NEW k \in Sockets, NEW type \in {"accept", "reject"}, HostOutcome(k, type),
           UNCHANGED <<hostVars, sessionOf>>
    PROVE  Typed'
<1>1. toRouter' \in [Sockets -> Seq(HostFrames)]
  BY Consumed DEF HostOutcome
<1>2. op' \in [Deliveries -> Ops]
  <2> DEFINE f == Head(toRouter[k])
             o == [op[f.d] EXCEPT !.pc = "answered", !.ok = (type = "accept")]
  <2>1. f \in HostFrames /\ f.type = type
    BY Consumed DEF HostOutcome, Received
  <2>2. f.d \in Deliveries
    BY <2>1 DEF HostFrames
  <2>3. op[f.d] \in Ops
    BY <2>2, Types
  <2>4. op[f.d].pc # "none" => o \in Ops
    BY <2>3 DEF Ops
  <2>5. op' = op \/ (op[f.d].pc # "none" /\ op' = [op EXCEPT ![f.d] = o])
    BY DEF HostOutcome, Pending
  <2> QED
    BY <2>2, <2>4, <2>5, Types
<1> QED
  BY <1>1, <1>2, Types, RowsTyped DEF HostOutcome, rows

LEMMA TimeoutTyped ==
    ASSUME Typed, NEW d \in Deliveries, Timeout(d), UNCHANGED <<hostVars, sessionOf>>
    PROVE  Typed'
<1>1. [op[d] EXCEPT !.pc = "resolved", !.ok = FALSE] \in Ops
  <2>1. op[d] \in Ops /\ op[d].pc # "none"
    BY Types DEF Timeout
  <2> QED
    BY <2>1 DEF Ops
<1>2. op' \in [Deliveries -> Ops]
  BY <1>1, Types DEF Timeout
<1> QED
  BY <1>2, Types, RowsTyped DEF Timeout, rows, wire

LEMMA QueueReturnsTyped ==
    ASSUME Typed, NEW d \in Deliveries, NEW took \in BOOLEAN, NEW ok \in BOOLEAN,
           QueueReturns(d, took, ok), UNCHANGED <<hostVars, sessionOf>>
    PROVE  Typed'
<1>1. [op[d] EXCEPT !.pc = "resolved", !.ok = ok] \in Ops
  <2>1. op[d] \in Ops /\ op[d].pc # "none"
    BY Types DEF QueueReturns
  <2> QED
    BY <2>1 DEF Ops
<1>2. op' \in [Deliveries -> Ops]
  BY <1>1, Types DEF QueueReturns
<1>3. conns[op[d].conn].session \in Sessions
  <2>1. op[d] \in Ops /\ op[d].pc # "none"
    BY Types DEF QueueReturns
  <2>2. op[d].conn \in Conns
    BY <2>1 DEF Ops, Conns
  <2> QED
    BY <2>2, Opened DEF ConnRows
<1>4. native' \subseteq Sessions \X Deliveries
  BY <1>3, Types DEF QueueReturns
<1> QED
  BY <1>2, <1>4, Types, RowsTyped DEF QueueReturns, rows, wire

(* The result of an attempt                                                  *)
Marked(q, n, r) == [q EXCEPT ![n].result = r]

LEMMA Resulted ==
    ASSUME Typed, NEW d \in Deliveries, NEW n, NEW r \in {"started", "returned", "rejected", "stale"}
    PROVE  /\ Marked(attempts[d], n, r) \in Seq(Attempts)
           /\ DOMAIN Marked(attempts[d], n, r) = DOMAIN attempts[d]
           /\ Len(Marked(attempts[d], n, r)) = Len(attempts[d])
           /\ \A i \in DOMAIN attempts[d] :
                 /\ Marked(attempts[d], n, r)[i].conn = attempts[d][i].conn
                 /\ Marked(attempts[d], n, r)[i].result = IF i = n THEN r ELSE attempts[d][i].result
<1> DEFINE q == attempts[d]
<1>1. q \in Seq(Attempts) /\ DOMAIN q = 1..Len(q)
      /\ \A i \in DOMAIN q : q[i] \in Attempts
  BY Opened, Types
<1> HIDE DEF q
<1>2. CASE n \in DOMAIN q
  <2>1. [q[n] EXCEPT !.result = r] \in Attempts
    BY <1>1, <1>2 DEF Attempts
  <2>2. Marked(q, n, r) = [q EXCEPT ![n] = [q[n] EXCEPT !.result = r]]
    BY DEF Marked
  <2>3. Marked(q, n, r) \in Seq(Attempts) /\ Len(Marked(q, n, r)) = Len(q)
        /\ DOMAIN Marked(q, n, r) = DOMAIN q
        /\ \A i \in DOMAIN q :
             Marked(q, n, r)[i] = IF i = n THEN [q[n] EXCEPT !.result = r] ELSE q[i]
    BY <1>1, <1>2, <2>1, <2>2, ExceptSeq
  <2> QED
    BY <1>1, <1>2, <2>3 DEF Attempts, q
<1>3. CASE n \notin DOMAIN q
  <2>1. Marked(q, n, r) = q
    BY <1>1, <1>3 DEF Marked
  <2> QED
    BY <1>1, <1>3, <2>1 DEF q
<1> QED
  BY <1>2, <1>3

LEMMA FinishTyped ==
    ASSUME Typed, NEW d \in Deliveries, Finish(d), UNCHANGED <<hostVars, sessionOf>>
    PROVE  Typed'
<1>1. NoOp \in Ops /\ op' \in [Deliveries -> Ops]
  BY Types DEF NoOp, Ops, Finish
<1>2. ASSUME NEW r \in {"returned", "rejected", "stale"},
             attempts' = [attempts EXCEPT ![d][op[d].n].result = r]
      PROVE  attempts' \in [Deliveries -> Seq(Attempts)]
  <2>1. Marked(attempts[d], op[d].n, r) \in Seq(Attempts)
    BY Resulted
  <2>2. attempts' = [attempts EXCEPT ![d] = Marked(attempts[d], op[d].n, r)]
    BY <1>2 DEF Marked
  <2> QED
    BY <2>1, <2>2, Types
<1>3. attempts' \in [Deliveries -> Seq(Attempts)]
  BY <1>2, Types DEF Finish
<1>4. accepted' \in [Deliveries -> Nat]
  BY Types DEF Finish, Ops
<1> QED
  BY <1>1, <1>3, <1>4, Types, RowsTyped DEF Finish, wire

LEMMA FinishFailsTyped ==
    ASSUME Typed, NEW d \in Deliveries, FinishFails(d), UNCHANGED <<hostVars, sessionOf>>
    PROVE  Typed'
<1>1. NoOp \in Ops /\ op' \in [Deliveries -> Ops]
  BY Types DEF NoOp, Ops, FinishFails
<1>2. left' \in [Events -> Nat]
  BY Spent DEF FinishFails, Events
<1>3. drain' \in [Sockets -> Drains]
  BY Types DEF FinishFails, Drains, NoDrain
<1> QED
  BY <1>1, <1>2, <1>3, Types, RowsTyped DEF FinishFails, rows, wire, Drains

LEMMA DrainFailsTyped ==
    ASSUME Typed, NEW c \in Sockets, DrainFails(c), UNCHANGED <<hostVars, sessionOf>>
    PROVE  Typed'
<1>2. left' \in [Events -> Nat]
  BY Spent DEF DrainFails, Events
<1>3. drain' \in [Sockets -> Drains]
  BY Types DEF DrainFails, Drains, NoDrain
<1> QED
  BY <1>2, <1>3, Types, RowsTyped DEF DrainFails, rows, wire, Drains

(* What a queue command that outlives the router may still have reached      *)
LEMMA DieTyped ==
    ASSUME Typed, Die, UNCHANGED <<hostVars, sessionOf>>,
           conns' \in Seq(ConnRows), DOMAIN conns' = DOMAIN conns,
           attempts' \in [Deliveries -> Seq(Attempts)]
    PROVE  Typed'
<1>1. left' \in [Events -> Nat]
  BY Spent DEF Die, Events
<1>2. op' \in [Deliveries -> Ops]
  BY DEF Die, NoOp, Ops
<1>3. drain' \in [Sockets -> Drains]
  BY WireAssumption DEF Die, NoDrain, Drains
<1>4. native' \subseteq Sessions \X Deliveries
  <2>1. PICK D \in SUBSET {d \in Deliveries : op[d].pc = "queueing"} :
          native' = native \cup {<<conns[op[d].conn].session, d>> : d \in D}
    BY DEF Die
  <2>2. ASSUME NEW d \in D PROVE d \in Deliveries /\ conns[op[d].conn].session \in Sessions
    <3>1. op[d] \in Ops /\ op[d].pc # "none"
      BY Types
    <3>2. op[d].conn \in Conns
      BY <3>1 DEF Ops, Conns
    <3> QED
      BY <3>2, Opened DEF ConnRows
  <2> QED
    BY <2>1, <2>2, Types
<1>5. toRouter' \in [Sockets -> Seq(HostFrames)] /\ routerEnd' \subseteq routerEnd
      /\ bound' \subseteq bound /\ running' \in BOOLEAN
  <2>1. <<>> \in Seq(HostFrames)
    BY EmptySeq
  <2> QED
    BY <2>1 DEF Die
<1> QED
  BY <1>1, <1>2, <1>3, <1>4, <1>5, Types, RowsTyped DEF Die, Drains

LEMMA CrashTyped == ASSUME Typed, Crash, UNCHANGED <<hostVars, sessionOf>> PROVE Typed'
  BY DieTyped, Types DEF Crash

LEMMA StopTyped == ASSUME Typed, Stop, UNCHANGED <<hostVars, sessionOf>> PROVE Typed'
<1>1. conns' \in Seq(ConnRows) /\ DOMAIN conns' = DOMAIN conns
  BY Closed DEF Stop
<1>2. ASSUME NEW d \in Deliveries PROVE attempts'[d] \in Seq(Attempts)
  <2>1. /\ Marked(attempts[d], op[d].n, "rejected") \in Seq(Attempts)
        /\ attempts[d] \in Seq(Attempts)
    BY Resulted, Types
  <2>2. attempts'[d] \in {Marked(attempts[d], op[d].n, "rejected"), attempts[d]}
    BY DEF Stop, Marked
  <2> QED
    BY <2>1, <2>2
<1>3. attempts' \in [Deliveries -> Seq(Attempts)]
  BY <1>2 DEF Stop
<1> QED
  BY <1>1, <1>3, DieTyped DEF Stop

LEMMA RestartTyped == ASSUME Typed, Restart, UNCHANGED <<hostVars, sessionOf>> PROVE Typed'
  BY Types, RowsTyped DEF Restart, rows, wire

-----------------------------------------------------------------------------
(* The types of the hosts *)

(* What a host step keeps of the router                                      *)
LEMMA RouterKept ==
    ASSUME Typed, UNCHANGED <<routerVars, sessionOf>>, DOMAIN owner \subseteq DOMAIN owner',
           left' \in [Events -> Nat]
    PROVE  /\ RouterTypeOK'
           /\ \A d \in Deliveries : op'[d].pc # "none" => op'[d].conn # 0
<1>1. ConnRows \subseteq ConnRows'
  BY DEF ConnRows
<1>2. conns' \in Seq(ConnRows')
  BY <1>1, Types, SeqMonotonic DEF routerVars, rows
<1> QED
  BY <1>2 DEF Typed, TypeOK, RouterTypeOK, Shape, Attempts, routerVars, rows, memory

Queued == [sock : DOMAIN owner, d : Deliveries, n : Nat]

LEMMA HostTypes ==
    ASSUME Typed
    PROVE  /\ hst \in [Hosts -> {"off", "registering", "up", "retry", "lost", "closed"}]
           /\ task \in [Hosts -> BOOLEAN]
           /\ hsock \in [Hosts -> {0} \cup DOMAIN owner]
           /\ tail \in [Hosts -> Seq(Queued)]
           /\ busy \in [Hosts -> BOOLEAN]
           /\ handed \in [Hosts -> Seq(Deliveries)]
           /\ clientEnd \subseteq DOMAIN owner /\ routerEnd \subseteq DOMAIN owner
           /\ toRouter \in [Sockets -> Seq(HostFrames)]
           /\ toHost \in [Sockets -> Seq(RouterFrames)]
           /\ left \in [Events -> Nat]
           /\ \A h \in Hosts : hst[h] \in {"registering", "up"} <=> hsock[h] # 0
           /\ \A h \in Hosts : busy[h] => tail[h] # <<>>
  BY DEF Typed, TypeOK, WireTypeOK, HostTypeOK, Shape, Queued

(* Steps of a host that opens no socket                                      *)
LEMMA HostTyped ==
    ASSUME Typed, UNCHANGED <<routerVars, sessionOf, owner>>,
           left' \in [Events -> Nat],
           clientEnd' \subseteq clientEnd, routerEnd' = routerEnd,
           toRouter' \in [Sockets -> Seq(HostFrames)],
           toHost' \in [Sockets -> Seq(RouterFrames)],
           hst' \in [Hosts -> {"off", "registering", "up", "retry", "lost", "closed"}],
           task' \in [Hosts -> BOOLEAN],
           hsock' \in [Hosts -> {0} \cup DOMAIN owner],
           tail' \in [Hosts -> Seq(Queued)],
           busy' \in [Hosts -> BOOLEAN],
           handed' \in [Hosts -> Seq(Deliveries)],
           \A h \in Hosts : hst'[h] \in {"registering", "up"} <=> hsock'[h] # 0,
           \A h \in Hosts : busy'[h] => tail'[h] # <<>>
    PROVE  Typed'
<1>1. WireTypeOK'
  BY DEF Typed, TypeOK, WireTypeOK
<1>2. HostTypeOK'
  BY DEF HostTypeOK, Queued
<1>3. RouterTypeOK' /\ Shape'
  BY RouterKept DEF Shape
<1> QED
  BY <1>1, <1>2, <1>3 DEF Typed, TypeOK

LEMMA DroppedClient ==
    ASSUME Typed, NEW k, DropClient(k)
    PROVE  /\ clientEnd' = clientEnd \ {k} /\ toHost' \in [Sockets -> Seq(RouterFrames)]
           /\ \A j \in Sockets : toHost'[j] = IF j = k THEN <<>> ELSE toHost[j]
<1>1. <<>> \in Seq(RouterFrames)
  BY EmptySeq
<1> QED
  BY <1>1, HostTypes DEF DropClient

LEMMA ReadFrame ==
    ASSUME Typed, NEW h \in Hosts, NEW type, Receives(h, type), Read(h)
    PROVE  /\ hsock[h] \in DOMAIN owner /\ hsock[h] \in Sockets
           /\ toHost[hsock[h]] \in Seq(RouterFrames) /\ toHost[hsock[h]] # <<>>
           /\ Head(toHost[hsock[h]]) \in RouterFrames
           /\ toHost' \in [Sockets -> Seq(RouterFrames)]
           /\ \A j \in Sockets : toHost'[j] = IF j = hsock[h] THEN Tail(toHost[j]) ELSE toHost[j]
<1>1. hsock[h] \in DOMAIN owner /\ hsock[h] \in Sockets
  BY HostTypes, Opened DEF Receives
<1>2. toHost[hsock[h]] \in Seq(RouterFrames) /\ toHost[hsock[h]] # <<>>
  BY <1>1, HostTypes DEF Receives
<1>3. /\ Head(toHost[hsock[h]]) \in RouterFrames
      /\ Tail(toHost[hsock[h]]) \in Seq(RouterFrames)
  BY <1>2, Removed
<1> QED
  BY <1>1, <1>2, <1>3, HostTypes DEF Read

LEMMA BecameTyped ==
    ASSUME Typed, NEW h \in Hosts, NEW state, NEW k, Became(h, state, k),
           \/ state \in {"retry", "lost", "closed"} /\ k = 0
           \/ state = "up" /\ k # 0 /\ k = hsock[h]
    PROVE  /\ hst' \in [Hosts -> {"off", "registering", "up", "retry", "lost", "closed"}]
           /\ hsock' \in [Hosts -> {0} \cup DOMAIN owner]
           /\ \A g \in Hosts : hst'[g] \in {"registering", "up"} <=> hsock'[g] # 0
  BY HostTypes DEF Became

LEMMA RegisteredTyped ==
    ASSUME Typed, NEW h \in Hosts, Registered(h), UNCHANGED <<routerVars, sessionOf>>
    PROVE  Typed'
<1>1. Receives(h, "registered") /\ Read(h) /\ Became(h, "up", hsock[h]) /\ hsock[h] # 0
  BY HostTypes DEF Registered, Receives
<1> QED
  BY <1>1, ReadFrame, BecameTyped, HostTypes, HostTyped DEF Registered

LEMMA ReceiveDeliveryTyped ==
    ASSUME Typed, NEW h \in Hosts, ReceiveDelivery(h), UNCHANGED <<routerVars, sessionOf>>
    PROVE  Typed'
<1> DEFINE f == Head(toHost[hsock[h]])
           e == [sock |-> hsock[h], d |-> f.d, n |-> f.n]
<1>1. Receives(h, "deliver") /\ Read(h) /\ tail' = [tail EXCEPT ![h] = Append(@, e)]
  BY DEF ReceiveDelivery
<1>2. f \in RouterFrames /\ f.type = "deliver" /\ hsock[h] \in DOMAIN owner
  BY <1>1, ReadFrame DEF Receives
<1>3. e \in Queued
  BY <1>2 DEF Queued, RouterFrames
<1> HIDE DEF e
<1>4. Append(tail[h], e) \in Seq(Queued) /\ Append(tail[h], e) # <<>>
  <2>1. tail[h] \in Seq(Queued)
    BY HostTypes
  <2>2. Append(tail[h], e) \in Seq(Queued) /\ Len(Append(tail[h], e)) # 0
    BY <1>3, <2>1, Appended
  <2> QED
    BY <2>2, EmptySeq
<1>5. tail' \in [Hosts -> Seq(Queued)] /\ \A g \in Hosts : busy[g] => tail'[g] # <<>>
  BY <1>1, <1>4, HostTypes
<1> QED
  BY <1>1, <1>5, ReadFrame, HostTypes, HostTyped DEF ReceiveDelivery

LEMMA SupersededTyped ==
    ASSUME Typed, NEW h \in Hosts, Superseded(h), UNCHANGED <<routerVars, sessionOf>>
    PROVE  Typed'
  BY DroppedClient, BecameTyped, HostTypes, HostTyped DEF Superseded

LEMMA ConnectionLostTyped ==
    ASSUME Typed, NEW h \in Hosts, ConnectionLost(h), UNCHANGED <<routerVars, sessionOf>>
    PROVE  Typed'
<1> DEFINE state == IF hst[h] = "up" /\ task[h] THEN "lost" ELSE "retry"
<1>1. DropClient(hsock[h]) /\ Became(h, state, 0) /\ state \in {"retry", "lost", "closed"}
  BY DEF ConnectionLost
<1>2. task' \in [Hosts -> BOOLEAN]
  BY HostTypes DEF ConnectionLost
<1> HIDE DEF state
<1> QED
  BY <1>1, <1>2, DroppedClient, BecameTyped, HostTypes, HostTyped DEF ConnectionLost

(* The finally of a reconnectLoop touches no socket                          *)
LEMMA ReconnectKeeps ==
    ASSUME Typed, NEW h \in Hosts, ReconnectEnds(h)
    PROVE  /\ UNCHANGED <<hsock, tail, busy, handed, wire, left>>
           /\ task' \in [Hosts -> BOOLEAN]
           /\ hst' \in [Hosts -> {"off", "registering", "up", "retry", "lost", "closed"}]
           /\ \A g \in Hosts : hst'[g] = "up" <=> hst[g] = "up"
           /\ \A g \in Hosts : hst'[g] \in {"registering", "up"} <=> hst[g] \in {"registering", "up"}
  BY HostTypes DEF ReconnectEnds, Became

LEMMA ReconnectEndsTyped ==
    ASSUME Typed, NEW h \in Hosts, ReconnectEnds(h), UNCHANGED <<routerVars, sessionOf>>
    PROVE  Typed'
<1>1. /\ UNCHANGED <<hsock, tail, busy, handed, left>>
      /\ UNCHANGED <<owner, clientEnd, routerEnd, toRouter, toHost>>
  BY ReconnectKeeps DEF wire
<1> QED
  BY <1>1, ReconnectKeeps, HostTypes, HostTyped

LEMMA RegistrationTimesOutTyped ==
    ASSUME Typed, NEW h \in Hosts, RegistrationTimesOut(h), UNCHANGED <<routerVars, sessionOf>>
    PROVE  Typed'
<1>1. left' \in [Events -> Nat]
  BY Spent DEF RegistrationTimesOut, Events
<1> QED
  BY <1>1, DroppedClient, BecameTyped, HostTypes, HostTyped DEF RegistrationTimesOut

(* A client end that closes without a socket changes nothing                 *)
LEMMA HungUp ==
    ASSUME Typed, NEW k,
           toHost' = [j \in Sockets |-> IF j = k THEN <<>> ELSE toHost[j]]
    PROVE  /\ toHost' \in [Sockets -> Seq(RouterFrames)]
           /\ \A j \in Sockets : toHost'[j] = IF j = k THEN <<>> ELSE toHost[j]
<1>1. <<>> \in Seq(RouterFrames)
  BY EmptySeq
<1> QED
  BY <1>1, HostTypes

LEMMA CloseTyped ==
    ASSUME Typed, NEW h \in Hosts, Close(h), UNCHANGED <<routerVars, sessionOf>>
    PROVE  Typed'
<1>1. Frame("disconnect", 0, 0) \in HostFrames
  BY DEF Frame, HostFrames
<1>2. toRouter' \in [Sockets -> Seq(HostFrames)]
  BY <1>1, ToRouters, HostTypes DEF Close
<1>3. toHost' \in [Sockets -> Seq(RouterFrames)]
  BY HungUp DEF Close
<1> QED
  BY <1>2, <1>3, BecameTyped, HostTypes, HostTyped DEF Close

LEMMA HostCrashTyped ==
    ASSUME Typed, NEW h \in Hosts, HostCrash(h), UNCHANGED <<routerVars, sessionOf>>
    PROVE  Typed'
<1>1. toHost' \in [Sockets -> Seq(RouterFrames)]
  BY HungUp DEF HostCrash
<1>2. tail' \in [Hosts -> Seq(Queued)] /\ busy' \in [Hosts -> BOOLEAN]
      /\ \A g \in Hosts : busy'[g] => tail'[g] # <<>>
  BY HostTypes, EmptySeq DEF HostCrash
<1> QED
  BY <1>1, <1>2, BecameTyped, HostTypes, HostTyped DEF HostCrash

LEMMA SendHeartbeatTyped ==
    ASSUME Typed, NEW h \in Hosts, NEW due, SendHeartbeat(h, due), UNCHANGED <<routerVars, sessionOf>>
    PROVE  Typed'
<1>1. Frame("heartbeat", 0, 0) \in HostFrames
  BY DEF Frame, HostFrames
<1>2. toRouter' \in [Sockets -> Seq(HostFrames)]
  BY <1>1, ToRouters, HostTypes DEF SendHeartbeat
<1> QED
  BY <1>2, HostTypes, HostTyped DEF SendHeartbeat, hostVars

(* The head of the queue leaves it, with an answer or without                *)
LEMMA Dequeued ==
    ASSUME Typed, NEW h \in Hosts, tail[h] # <<>>
    PROVE  /\ Head(tail[h]) \in Queued /\ Tail(tail[h]) \in Seq(Queued)
           /\ Head(tail[h]) = tail[h][1]
           /\ Len(tail[h]) \in Nat /\ DOMAIN tail[h] = 1..Len(tail[h]) /\ 1 \in DOMAIN tail[h]
           /\ \A i \in DOMAIN Tail(tail[h]) :
                 i + 1 \in DOMAIN tail[h] /\ Tail(tail[h])[i] = tail[h][i + 1]
<1>1. tail[h] \in Seq(Queued)
  BY HostTypes
<1> QED
  BY <1>1, Removed

LEMMA Replied ==
    ASSUME Typed, NEW h \in Hosts, tail[h] # <<>>, NEW type \in {"accept", "reject"},
           Reply(h, type)
    PROVE  /\ tail' \in [Hosts -> Seq(Queued)]
           /\ \A g \in Hosts : tail'[g] = IF g = h THEN Tail(tail[g]) ELSE tail[g]
           /\ toRouter' \in [Sockets -> Seq(HostFrames)]
           /\ Frame(type, Head(tail[h]).d, Head(tail[h]).n) \in HostFrames
           /\ \A j \in Sockets :
                 \/ toRouter'[j] = toRouter[j]
                 \/ /\ j = Head(tail[h]).sock /\ j \in clientEnd
                    /\ toRouter'[j] = Append(toRouter[j], Frame(type, Head(tail[h]).d, Head(tail[h]).n))
<1> DEFINE e == Head(tail[h])
           f == Frame(type, e.d, e.n)
<1>1. e \in Queued /\ Tail(tail[h]) \in Seq(Queued)
  BY Dequeued
<1>2. f \in HostFrames
  BY <1>1 DEF Queued, Frame, HostFrames
<1>3. tail' = [tail EXCEPT ![h] = Tail(@)]
      /\ toRouter' = IF e.sock \in clientEnd THEN SendToRouter(toRouter, e.sock, f) ELSE toRouter
  BY DEF Reply
<1> HIDE DEF e, f
<1>4. /\ toRouter' \in [Sockets -> Seq(HostFrames)]
      /\ \A j \in Sockets :
            \/ toRouter'[j] = toRouter[j]
            \/ j = e.sock /\ j \in clientEnd /\ toRouter'[j] = Append(toRouter[j], f)
  <2>1. CASE e.sock \in clientEnd
    <3>1. toRouter' = SendToRouter(toRouter, e.sock, f) /\ toRouter \in [Sockets -> Seq(HostFrames)]
      BY <1>3, <2>1, HostTypes
    <3>2. /\ SendToRouter(toRouter, e.sock, f) \in [Sockets -> Seq(HostFrames)]
          /\ \A j \in Sockets : SendToRouter(toRouter, e.sock, f)[j] =
                IF j = e.sock /\ e.sock \in routerEnd THEN Append(toRouter[j], f) ELSE toRouter[j]
      BY <1>2, <3>1, ToRouters
    <3> QED
      BY <2>1, <3>1, <3>2
  <2>2. CASE e.sock \notin clientEnd
    BY <1>3, <2>2, HostTypes
  <2> QED
    BY <2>1, <2>2
<1>5. /\ tail' \in [Hosts -> Seq(Queued)]
      /\ \A g \in Hosts : tail'[g] = IF g = h THEN Tail(tail[g]) ELSE tail[g]
  BY <1>1, <1>3, HostTypes
<1> QED
  BY <1>2, <1>4, <1>5 DEF e, f

LEMMA DeliverToClosedTyped ==
    ASSUME Typed, NEW h \in Hosts, DeliverToClosed(h), UNCHANGED <<routerVars, sessionOf>>
    PROVE  Typed'
<1>1. Tail(tail[h]) \in Seq(Queued) /\ ~busy[h]
  BY Dequeued DEF DeliverToClosed, MayDeliver
<1>2. tail' \in [Hosts -> Seq(Queued)] /\ \A g \in Hosts : busy[g] => tail'[g] # <<>>
  BY <1>1, HostTypes DEF DeliverToClosed
<1> QED
  BY <1>2, HostTypes, HostTyped DEF DeliverToClosed, wire

LEMMA AcceptDuplicateTyped ==
    ASSUME Typed, NEW h \in Hosts, AcceptDuplicate(h), UNCHANGED <<routerVars, sessionOf>>
    PROVE  Typed'
<1>1. tail[h] # <<>> /\ ~busy[h] /\ Reply(h, "accept")
  BY DEF AcceptDuplicate, MayDeliver
<1>2. /\ tail' \in [Hosts -> Seq(Queued)] /\ toRouter' \in [Sockets -> Seq(HostFrames)]
      /\ \A g \in Hosts : busy[g] => tail'[g] # <<>>
  BY <1>1, Replied, HostTypes
<1> QED
  BY <1>2, HostTypes, HostTyped DEF AcceptDuplicate, Reply

LEMMA BeginDeliverTyped ==
    ASSUME Typed, NEW h \in Hosts, BeginDeliver(h), UNCHANGED <<routerVars, sessionOf>>
    PROVE  Typed'
<1>1. busy' \in [Hosts -> BOOLEAN] /\ \A g \in Hosts : busy'[g] => tail[g] # <<>>
  BY HostTypes DEF BeginDeliver, MayDeliver
<1> QED
  BY <1>1, HostTypes, HostTyped DEF BeginDeliver, wire

LEMMA EndDeliverTyped ==
    ASSUME Typed, NEW h \in Hosts, EndDeliver(h), UNCHANGED <<routerVars, sessionOf>>
    PROVE  Typed'
<1>1. tail[h] # <<>>
  BY HostTypes DEF EndDeliver
<1>2. PICK type \in {"accept", "reject"} : Reply(h, type)
  BY DEF EndDeliver
<1>3. /\ tail' \in [Hosts -> Seq(Queued)] /\ toRouter' \in [Sockets -> Seq(HostFrames)]
      /\ busy' \in [Hosts -> BOOLEAN]
      /\ \A g \in Hosts : busy'[g] => tail'[g] # <<>>
  BY <1>1, <1>2, Replied, HostTypes DEF EndDeliver
<1>4. handed' \in [Hosts -> Seq(Deliveries)]
  <2>1. Head(tail[h]).d \in Deliveries
    BY <1>1, Dequeued DEF Queued
  <2>2. Append(handed[h], Head(tail[h]).d) \in Seq(Deliveries)
    BY <2>1, HostTypes, Appended
  <2> QED
    BY <2>2, HostTypes DEF EndDeliver
<1> QED
  BY <1>2, <1>3, <1>4, HostTypes, HostTyped DEF EndDeliver, Reply

LEMMA ConnectTyped ==
    ASSUME Typed, NEW h \in Hosts, NEW up, Connect(h, up), UNCHANGED <<routerVars, sessionOf>>
    PROVE  Typed'
<1> DEFINE k == Len(owner) + 1
<1>1. /\ owner' = Append(owner, h) /\ k \in Sockets
      /\ clientEnd' = clientEnd \cup {k} /\ routerEnd' = routerEnd \cup {k}
      /\ toRouter' = [toRouter EXCEPT ![k] = <<Frame("register", 0, 0)>>]
      /\ hst' = [hst EXCEPT ![h] = "registering"] /\ hsock' = [hsock EXCEPT ![h] = k]
      /\ UNCHANGED <<task, tail, busy, handed, toHost>>
  BY DEF Connect, Became
<1>2. left' \in [Events -> Nat]
  BY Spent, HostTypes DEF Connect, Started, Events
<1>3. /\ owner' \in Seq(Hosts) /\ Len(owner') = k /\ k \in Nat /\ k # 0
      /\ DOMAIN owner = 1..Len(owner) /\ DOMAIN owner' = 1..k
      /\ DOMAIN owner \subseteq DOMAIN owner' /\ k \in DOMAIN owner'
  BY <1>1, Appended, Opened DEF Typed, TypeOK, WireTypeOK
<1>4. Len(owner') <= MaxSockets
  BY <1>1, <1>3 DEF Sockets
<1> HIDE DEF k
<1>5. toRouter' \in [Sockets -> Seq(HostFrames)]
  <2>1. Frame("register", 0, 0) \in HostFrames
    BY DEF Frame, HostFrames
  <2>2. <<Frame("register", 0, 0)>> \in Seq(HostFrames)
    BY <2>1
  <2> QED
    BY <1>1, <2>2, HostTypes
<1>6. WireTypeOK'
  BY <1>1, <1>2, <1>3, <1>4, <1>5 DEF Typed, TypeOK, WireTypeOK
<1>7. HostTypeOK'
  <2>1. Queued \subseteq Queued'
    BY <1>3 DEF Queued
  <2>2. tail' \in [Hosts -> Seq(Queued')]
    BY <1>1, <2>1, HostTypes, SeqMonotonic
  <2> QED
    BY <1>1, <1>3, <2>2, HostTypes DEF HostTypeOK, Queued
<1>8. RouterTypeOK' /\ Shape'
  BY <1>1, <1>2, <1>3, RouterKept, HostTypes DEF Shape
<1> QED
  BY <1>6, <1>7, <1>8 DEF Typed, TypeOK

-----------------------------------------------------------------------------
(* Steps by who takes them *)

(* Messages and requests may come as the budget of AgentDelivery allows, or  *)
(* from the senders of ExactSender: what the router does is the same         *)
Mishap ==
    \/ \E d \in Deliveries : FinishFails(d)
    \/ \E k \in Sockets : SocketBreaks(k)
    \/ \E c \in Sockets : DrainFails(c)
    \/ \E c \in Conns : LeaseTick(c)
    \/ Crash \/ Stop \/ Restart
RouterSteps ==
    \/ RouterStep
    \/ Mishap
    \/ \E k \in Sockets : Heartbeat(k)
    \/ /\ left' \in [Events -> Nat]
       /\ (\E t \in Targets : Stored(t)) \/ (\E d \in Deliveries : Notified(d))
HostSteps(h) == HostStep(h, running) \/ SendHeartbeat(h, Due(h)) \/ HostEnv(h)
Steps ==
    \/ RouterSteps /\ UNCHANGED <<hostVars, sessionOf>>
    \/ \E h \in Hosts : HostSteps(h) /\ UNCHANGED <<routerVars, sessionOf>>
    \/ UNCHANGED <<routerVars, hostVars, wire, sessionOf>> /\ left' \in [Events -> Nat]

LEMMA NextSteps == Typed /\ [Next]_vars => Steps
<1> SUFFICES ASSUME Typed, [Next]_vars PROVE Steps
  OBVIOUS
<1>1. ASSUME NEW t \in Targets, Commit(t) PROVE Stored(t) /\ left' \in [Events -> Nat]
  BY <1>1, Spent DEF Commit, Events
<1>2. ASSUME NEW d \in Deliveries, Notify(d) PROVE Notified(d) /\ left' \in [Events -> Nat]
  BY <1>2, Spent DEF Notify, Notified, Events
<1>3. ASSUME RouterEnv PROVE RouterSteps
  BY <1>1, <1>2, <1>3 DEF RouterEnv, RouterSteps, Mishap
<1>4. ASSUME UNCHANGED vars PROVE Steps
  BY <1>4 DEF vars, Steps, Typed, TypeOK, WireTypeOK
<1> QED
  BY <1>3, <1>4 DEF Next, Steps, RouterSteps, HostSteps

LEMMA RouterTyped ==
    ASSUME Typed, RouterSteps, UNCHANGED <<hostVars, sessionOf>> PROVE Typed'
<1>1. ASSUME RouterStep PROVE Typed'
  BY <1>1, RegisterTyped, DisconnectTyped, SocketClosedTyped, HostOutcomeTyped, StartDrainTyped,
     DrainStepTyped, TimeoutTyped, FinishTyped, QueueReturnsTyped DEF RouterStep
<1>2. ASSUME Mishap PROVE Typed'
  BY <1>2, FinishFailsTyped, SocketBreaksTyped, DrainFailsTyped,
     LeaseTickTyped, CrashTyped, StopTyped, RestartTyped DEF Mishap
<1> QED
  BY <1>1, <1>2, HeartbeatTyped, StoredTyped, NotifiedTyped DEF RouterSteps

LEMMA OneHostTyped ==
    ASSUME Typed, NEW h \in Hosts, HostSteps(h), UNCHANGED <<routerVars, sessionOf>>
    PROVE  Typed'
<1>1. ASSUME HostStep(h, running) PROVE Typed'
  BY <1>1, ConnectTyped, RegisteredTyped, ReceiveDeliveryTyped, SupersededTyped,
     ConnectionLostTyped, ReconnectEndsTyped, DeliverToClosedTyped, AcceptDuplicateTyped, BeginDeliverTyped,
     EndDeliverTyped DEF HostStep
<1>2. ASSUME HostEnv(h) PROVE Typed'
  BY <1>2, RegistrationTimesOutTyped, CloseTyped, HostCrashTyped DEF HostEnv
<1> QED
  BY <1>1, <1>2, SendHeartbeatTyped DEF HostSteps

LEMMA IdleTyped ==
    ASSUME Typed, UNCHANGED <<routerVars, hostVars, wire, sessionOf>>, left' \in [Events -> Nat]
    PROVE  Typed'
  BY DEF Typed, TypeOK, WireTypeOK, RouterTypeOK, HostTypeOK, Shape, routerVars, rows,
         memory, hostVars, wire, ConnRows, Attempts

LEMMA TypedStep == ASSUME Typed, Steps PROVE Typed'
  BY RouterTyped, OneHostTyped, IdleTyped DEF Steps

LEMMA TypedNext == Typed /\ [Next]_vars => Typed'
  BY TypedStep, NextSteps

(* The tables of the router, its maps, the frames on the sockets and the     *)
(* queues of the hosts keep their types.                                     *)
THEOREM DeliveryTyped == Spec => []TypeOK
<1>1. Typed => TypeOK
  BY DEF Typed
<1> QED
  BY <1>1, TypedInit, TypedNext, PTL DEF Spec

-----------------------------------------------------------------------------
(* Frames *)

Carries(q, type) == \E i \in DOMAIN q : q[i].type = type

LEMMA CarriesMore ==
    ASSUME NEW S, NEW q \in Seq(S), NEW f \in S, NEW type
    PROVE  Carries(Append(q, f), type) <=> Carries(q, type) \/ f.type = type
<1>1. /\ DOMAIN q = 1..Len(q) /\ DOMAIN Append(q, f) = 1..(Len(q) + 1) /\ Len(q) \in Nat
      /\ \A i \in DOMAIN q : Append(q, f)[i] = q[i]
      /\ Append(q, f)[Len(q) + 1] = f
  BY Appended
<1>2. ASSUME Carries(q, type) PROVE Carries(Append(q, f), type)
  <2>1. PICK i \in DOMAIN q : q[i].type = type
    BY <1>2 DEF Carries
  <2>2. i \in DOMAIN Append(q, f) /\ Append(q, f)[i].type = type
    BY <1>1, <2>1
  <2> QED
    BY <2>2 DEF Carries
<1>3. ASSUME f.type = type PROVE Carries(Append(q, f), type)
  <2>1. Len(q) + 1 \in DOMAIN Append(q, f)
    BY <1>1
  <2> QED
    BY <1>1, <1>3, <2>1 DEF Carries
<1>4. ASSUME Carries(Append(q, f), type) PROVE Carries(q, type) \/ f.type = type
  <2>1. PICK i \in DOMAIN Append(q, f) : Append(q, f)[i].type = type
    BY <1>4 DEF Carries
  <2>2. CASE i = Len(q) + 1
    BY <1>1, <2>1, <2>2
  <2>3. CASE i # Len(q) + 1
    <3>1. i \in DOMAIN q /\ q[i].type = type
      BY <1>1, <2>1, <2>3
    <3> QED
      BY <3>1 DEF Carries
  <2> QED
    BY <2>2, <2>3
<1> QED
  BY <1>2, <1>3, <1>4

LEMMA CarriesLess ==
    ASSUME NEW S, NEW q \in Seq(S), q # <<>>, NEW type
    PROVE  Carries(q, type) <=> Head(q).type = type \/ Carries(Tail(q), type)
<1>1. /\ Len(q) \in Nat /\ Len(q) > 0 /\ DOMAIN q = 1..Len(q)
      /\ DOMAIN Tail(q) = 1..(Len(q) - 1) /\ Head(q) = q[1]
      /\ \A i \in DOMAIN Tail(q) : Tail(q)[i] = q[i + 1]
  BY Removed
<1>2. ASSUME NEW i \in DOMAIN q, q[i].type = type
      PROVE  Head(q).type = type \/ Carries(Tail(q), type)
  <2>1. CASE i = 1
    BY <1>1, <1>2, <2>1
  <2>2. CASE i # 1
    <3>1. i - 1 \in DOMAIN Tail(q) /\ Tail(q)[i - 1] = q[i]
      BY <1>1, <2>2
    <3> QED
      BY <1>2, <3>1 DEF Carries
  <2> QED
    BY <2>1, <2>2
<1>3. ASSUME NEW i \in DOMAIN Tail(q), Tail(q)[i].type = type PROVE Carries(q, type)
  <2>1. i + 1 \in DOMAIN q /\ q[i + 1].type = type
    BY <1>1, <1>3
  <2> QED
    BY <2>1 DEF Carries
<1>4. Head(q).type = type => Carries(q, type)
  <2>1. 1 \in DOMAIN q
    BY <1>1
  <2> QED
    BY <1>1, <2>1 DEF Carries
<1> QED
  BY <1>2, <1>3, <1>4 DEF Carries

LEMMA CarriesNothing == \A type : ~Carries(<<>>, type)
  BY DEF Carries

(* A registration is the first frame of its socket                           *)
FirstOnly(q) == \A i \in DOMAIN q : q[i].type = "register" => i = 1

LEMMA FirstOnlyMore ==
    ASSUME NEW S, NEW q \in Seq(S), NEW f \in S, f.type # "register", FirstOnly(q)
    PROVE  FirstOnly(Append(q, f))
  BY Appended DEF FirstOnly

LEMMA FirstOnlyLess ==
    ASSUME NEW S, NEW q \in Seq(S), q # <<>>, FirstOnly(q)
    PROVE  FirstOnly(Tail(q)) /\ ~Carries(Tail(q), "register")
<1>1. /\ Len(q) \in Nat /\ DOMAIN q = 1..Len(q) /\ DOMAIN Tail(q) = 1..(Len(q) - 1)
      /\ \A i \in DOMAIN Tail(q) : Tail(q)[i] = q[i + 1]
  BY Removed
<1>2. ASSUME NEW i \in DOMAIN Tail(q) PROVE Tail(q)[i].type # "register"
  <2>1. i + 1 \in DOMAIN q /\ i + 1 # 1
    BY <1>1
  <2> QED
    BY <1>1, <2>1 DEF FirstOnly
<1> QED
  BY <1>2 DEF FirstOnly, Carries

(* What a step may do to the frames of a socket that is open already: the    *)
(* router reads them or loses them, and hosts write more                     *)
Drained(k) ==
    \/ toRouter'[k] = toRouter[k]
    \/ toRouter'[k] = <<>>
    \/ toRouter[k] # <<>> /\ toRouter'[k] = Tail(toRouter[k])
Passed(k) ==
    \/ Drained(k)
    \/ \E f \in HostFrames : f.type # "register" /\ toRouter'[k] = Append(toRouter[k], f)

LEMMA PassedFrames ==
    ASSUME Typed, NEW k \in Sockets, Passed(k)
    PROVE  /\ Carries(toRouter'[k], "register") => Carries(toRouter[k], "register")
           /\ FirstOnly(toRouter[k]) => FirstOnly(toRouter'[k])
<1>0. toRouter[k] \in Seq(HostFrames)
  BY Types
<1>1. CASE toRouter'[k] = toRouter[k]
  BY <1>1
<1>2. CASE toRouter'[k] = <<>>
  BY <1>2, CarriesNothing DEF FirstOnly
<1>3. CASE toRouter[k] # <<>> /\ toRouter'[k] = Tail(toRouter[k])
  BY <1>0, <1>3, CarriesLess, FirstOnlyLess
<1>4. ASSUME NEW f \in HostFrames, f.type # "register", toRouter'[k] = Append(toRouter[k], f)
      PROVE  /\ Carries(toRouter'[k], "register") => Carries(toRouter[k], "register")
             /\ FirstOnly(toRouter[k]) => FirstOnly(toRouter'[k])
  BY <1>0, <1>4, CarriesMore, FirstOnlyMore
<1> QED
  BY <1>1, <1>2, <1>3, <1>4 DEF Passed, Drained

LEMMA DrainedFrames ==
    ASSUME Typed, NEW k \in Sockets, Drained(k), NEW type
    PROVE  Carries(toRouter'[k], type) => Carries(toRouter[k], type)
<1>1. toRouter[k] \in Seq(HostFrames)
  BY Types
<1> QED
  BY <1>1, CarriesLess, CarriesNothing DEF Drained

-----------------------------------------------------------------------------
(* Rows of connections *)

(* The open row of a session is the newest one                               *)
Generations ==
    \A b, c \in Conns : conns[b].open /\ conns[b].session = conns[c].session
                          => c <= b /\ conns[b].gen = lastGen[conns[b].session]

(* A row belongs to the process that opened its socket, and no two rows      *)
(* share one                                                                 *)
Origins ==
    /\ \A c \in Conns :
          /\ conns[c].gen <= lastGen[conns[c].session]
          /\ conns[c].session = sessionOf[owner[conns[c].sock]]
          /\ PrincipalOf[conns[c].session] \in active
    /\ \A b, c \in Conns : conns[b].sock = conns[c].sock => b = c

(* A socket registers once, and those of one process in turn                 *)
Registrations ==
    /\ \A k \in Sockets :
          /\ FirstOnly(toRouter[k])
          /\ Carries(toRouter[k], "register") => \A c \in Conns : conns[c].sock # k
    /\ \A c \in Conns : \A j \in DOMAIN owner :
          j < conns[c].sock /\ owner[j] = owner[conns[c].sock] => ~Carries(toRouter[j], "register")

RowsInv == Generations /\ Origins /\ Registrations

Kept(r, q) ==
    /\ q.sock = r.sock /\ q.session = r.session /\ q.gen = r.gen /\ q.router = r.router
    /\ q.open => r.open
    /\ q.lease > 0 => r.lease > 0

KeepRows ==
    /\ DOMAIN conns' = DOMAIN conns
    /\ UNCHANGED <<lastGen, active, checkpoint>>
    /\ \A c \in Conns : Kept(conns[c], conns'[c])

LEMMA RowsKept ==
    ASSUME Typed, RowsInv, KeepRows, \A k \in Sockets : Passed(k), UNCHANGED <<owner, sessionOf>>
    PROVE  RowsInv'
<1>1. \A k \in Sockets : /\ Carries(toRouter'[k], "register") => Carries(toRouter[k], "register")
                         /\ FirstOnly(toRouter[k]) => FirstOnly(toRouter'[k])
  BY PassedFrames
<1>2. Conns' = Conns
  BY DEF KeepRows, Conns
<1>3. Generations'
  BY <1>2 DEF RowsInv, Generations, KeepRows, Kept
<1>4. Origins'
  BY <1>2 DEF RowsInv, Origins, KeepRows, Kept
<1>5. Registrations'
  BY <1>1, <1>2, Opened DEF RowsInv, Registrations, KeepRows, Kept
<1> QED
  BY <1>3, <1>4, <1>5 DEF RowsInv

(* The tables after a registration: one row more, and the others of its      *)
(* session closed                                                            *)
LEMMA NewRow ==
    ASSUME Typed, NEW k \in Sockets, Register(k)
    PROVE  LET s == sessionOf[owner[k]]
               n == Len(conns) + 1
           IN  /\ k \in DOMAIN owner /\ k \in routerEnd /\ s \in Sessions
               /\ n \in Nat \ {0} /\ Conns = 1..(n - 1) /\ Conns' = 1..n
               /\ Conns' = Conns \cup {n} /\ n \notin Conns
               /\ conns'[n] = [sock |-> k, session |-> s, gen |-> lastGen[s] + 1,
                               router |-> run, open |-> TRUE, lease |-> LeaseTicks]
               /\ \A c \in Conns :
                     /\ Kept(conns[c], conns'[c]) /\ conns'[c].lease = conns[c].lease
                     /\ conns'[c].open <=> conns[c].open /\ conns[c].session # s
               /\ lastGen[s] \in Nat
               /\ \A t \in Sessions : lastGen'[t] = IF t = s THEN lastGen[t] + 1 ELSE lastGen[t]
               /\ active' = active \cup {PrincipalOf[s]}
               /\ bound' = (bound \ OpenRows(s)) \cup {n}
<1> DEFINE s == sessionOf[owner[k]]
           n == Len(conns) + 1
           new == [sock |-> k, session |-> s, gen |-> lastGen[s] + 1,
                   router |-> run, open |-> TRUE, lease |-> LeaseTicks]
           closed == CloseRows(conns, OpenRows(s))
<1>1. /\ Received(k, "register") /\ conns' = Append(closed, new)
      /\ lastGen' = [lastGen EXCEPT ![s] = @ + 1]
      /\ active' = active \cup {PrincipalOf[s]}
      /\ bound' = (bound \ OpenRows(s)) \cup {n}
  BY DEF Register
<1>2. k \in routerEnd /\ k \in DOMAIN owner /\ s \in Sessions
  <2>1. k \in routerEnd /\ routerEnd \subseteq DOMAIN owner
    BY <1>1, HostTypes DEF Received
  <2> QED
    BY <2>1, Opened DEF Typed, TypeOK, WireTypeOK
<1>3. lastGen \in [Sessions -> Nat] /\ run \in Nat \ {0}
  BY DEF Typed, TypeOK, RouterTypeOK
<1>4. new \in ConnRows
  BY <1>2, <1>3 DEF ConnRows
<1>5. closed \in Seq(ConnRows) /\ DOMAIN closed = DOMAIN conns
      /\ \A c \in Conns : /\ c \notin OpenRows(s) => closed[c] = conns[c]
                          /\ c \in OpenRows(s) => closed[c] = [conns[c] EXCEPT !.open = FALSE]
  BY Closed
<1>6. Len(closed) = Len(conns) /\ Len(conns) \in Nat /\ Conns = 1..Len(conns)
      /\ \A c \in Conns : conns[c] \in ConnRows
  BY <1>5, Opened, LenProperties
<1> HIDE DEF closed, new, s
<1>7. /\ DOMAIN conns' = 1..n /\ conns'[n] = new
      /\ \A c \in Conns : conns'[c] = closed[c]
  BY <1>1, <1>4, <1>5, <1>6, Appended
<1>8. ASSUME NEW c \in Conns
      PROVE  /\ Kept(conns[c], conns'[c]) /\ conns'[c].lease = conns[c].lease
             /\ conns'[c].open <=> conns[c].open /\ conns[c].session # s
  <2>1. conns[c] \in ConnRows
    BY <1>6
  <2>2. CASE c \in OpenRows(s)
    <3>1. conns'[c] = [conns[c] EXCEPT !.open = FALSE] /\ conns[c].session = s
      BY <1>5, <1>7, <2>2 DEF OpenRows
    <3> QED
      BY <2>1, <3>1 DEF Kept, ConnRows
  <2>3. CASE c \notin OpenRows(s)
    <3>1. conns'[c] = conns[c] /\ ~(conns[c].open /\ conns[c].session = s)
      BY <1>5, <1>7, <2>3 DEF OpenRows
    <3> QED
      BY <2>1, <3>1 DEF Kept
  <2> QED
    BY <2>2, <2>3
<1>9. n \in Nat \ {0} /\ Conns = 1..(n - 1) /\ Conns' = 1..n
      /\ Conns' = Conns \cup {n} /\ n \notin Conns
  BY <1>6, <1>7 DEF Conns
<1>10. \A t \in Sessions : lastGen'[t] = IF t = s THEN lastGen[t] + 1 ELSE lastGen[t]
  BY <1>1, <1>2, <1>3
<1> QED
  BY <1>1, <1>2, <1>3, <1>7, <1>8, <1>9, <1>10 DEF new, s

LEMMA RegisterRows ==
    ASSUME Typed, RowsInv, NEW k \in Sockets, Register(k), UNCHANGED sessionOf
    PROVE  RowsInv'
<1> DEFINE s == sessionOf[owner[k]]
           n == Len(conns) + 1
           new == [sock |-> k, session |-> s, gen |-> lastGen[s] + 1,
                   router |-> run, open |-> TRUE, lease |-> LeaseTicks]
<1>1. /\ k \in DOMAIN owner /\ s \in Sessions
      /\ n \in Nat \ {0} /\ Conns = 1..(n - 1) /\ Conns' = 1..n
      /\ Conns' = Conns \cup {n} /\ n \notin Conns
      /\ conns'[n] = new
      /\ \A c \in Conns :
            /\ Kept(conns[c], conns'[c])
            /\ conns'[c].open <=> conns[c].open /\ conns[c].session # s
      /\ lastGen[s] \in Nat
      /\ \A t \in Sessions : lastGen'[t] = IF t = s THEN lastGen[t] + 1 ELSE lastGen[t]
      /\ active' = active \cup {PrincipalOf[s]}
  BY NewRow
<1>2. /\ new.sock = k /\ new.session = s /\ new.gen = lastGen[s] + 1
      /\ UNCHANGED owner /\ Received(k, "register") /\ Consume(k) /\ InTurn(k)
  BY DEF Register
<1>3. \A c \in Conns : conns[c].session \in Sessions /\ conns[c].gen \in Nat
                       /\ conns[c].sock \in DOMAIN owner /\ lastGen[conns[c].session] \in Nat
  BY Opened DEF ConnRows, Typed, TypeOK, RouterTypeOK
<1>4. /\ Carries(toRouter[k], "register")
      /\ toRouter[k] \in Seq(HostFrames) /\ toRouter[k] # <<>>
      /\ \A j \in Sockets : toRouter'[j] = IF j = k THEN Tail(toRouter[j]) ELSE toRouter[j]
  <2>1. toRouter[k] \in Seq(HostFrames) /\ toRouter[k] # <<>> /\ Head(toRouter[k]).type = "register"
    BY <1>2, Types DEF Received
  <2> QED
    BY <1>2, <2>1, CarriesLess, Consumed
<1>5. /\ FirstOnly(toRouter'[k]) /\ ~Carries(toRouter'[k], "register")
      /\ \A c \in Conns : conns[c].sock # k
  BY <1>4, FirstOnlyLess DEF RowsInv, Registrations
<1> HIDE DEF new, s, n
<1>6. Generations'
  <2>1. ASSUME NEW b \in Conns', NEW c \in Conns', conns'[b].open,
               conns'[b].session = conns'[c].session
        PROVE  c <= b /\ conns'[b].gen = lastGen'[conns'[b].session]
    <3>1. CASE b = n
      BY <1>1, <1>2, <2>1, <3>1
    <3>2. CASE b \in Conns /\ c \in Conns
      BY <1>1, <1>3, <2>1, <3>2, SMTT(30) DEF RowsInv, Generations, Kept
    <3>3. CASE b \in Conns /\ c = n
      BY <1>1, <1>2, <2>1, <3>3 DEF Kept
    <3> QED
      BY <1>1, <3>1, <3>2, <3>3
  <2> QED
    BY <2>1 DEF Generations
<1>7. Origins'
  <2>1. ASSUME NEW c \in Conns'
        PROVE  /\ conns'[c].gen <= lastGen'[conns'[c].session]
               /\ conns'[c].session = sessionOf'[owner'[conns'[c].sock]]
               /\ PrincipalOf[conns'[c].session] \in active'
    <3>1. CASE c = n
      <4>1. /\ conns'[c].gen = lastGen[s] + 1 /\ conns'[c].session = s /\ conns'[c].sock = k
            /\ lastGen'[s] = lastGen[s] + 1
        BY <1>1, <1>2, <3>1
      <4>2. s = sessionOf'[owner'[k]]
        BY <1>2 DEF s
      <4> QED
        BY <1>1, <4>1, <4>2
    <3>2. CASE c \in Conns
      <4>1. conns'[c].gen = conns[c].gen /\ conns'[c].session = conns[c].session
            /\ conns'[c].sock = conns[c].sock
        BY <1>1, <3>2 DEF Kept
      <4>2. lastGen'[conns[c].session] >= lastGen[conns[c].session]
            /\ lastGen'[conns[c].session] \in Nat
        BY <1>1, <1>3, <3>2
      <4>3. /\ conns[c].gen <= lastGen[conns[c].session]
            /\ conns[c].session = sessionOf[owner[conns[c].sock]]
            /\ PrincipalOf[conns[c].session] \in active
        BY <3>2 DEF RowsInv, Origins
      <4>4. conns[c].gen <= lastGen'[conns[c].session]
        BY <1>3, <3>2, <4>2, <4>3
      <4> QED
        BY <1>1, <1>2, <4>1, <4>3, <4>4
    <3> QED
      BY <1>1, <3>1, <3>2
  <2>2. ASSUME NEW b \in Conns', NEW c \in Conns', conns'[b].sock = conns'[c].sock PROVE b = c
    BY <1>1, <1>2, <1>5, <2>2 DEF RowsInv, Origins, Kept
  <2> QED
    BY <2>1, <2>2 DEF Origins
<1>8. Registrations'
  <2>1. ASSUME NEW j \in Sockets
        PROVE  /\ FirstOnly(toRouter'[j])
               /\ Carries(toRouter'[j], "register") => \A c \in Conns' : conns'[c].sock # j
    <3>1. CASE j = k
      BY <1>5, <3>1
    <3>2. CASE j # k
      <4>1. toRouter'[j] = toRouter[j]
        BY <1>4, <3>2
      <4>2. FirstOnly(toRouter[j])
            /\ (Carries(toRouter[j], "register") => \A c \in Conns : conns[c].sock # j)
        BY DEF RowsInv, Registrations
      <4>3. \A c \in Conns : conns'[c].sock = conns[c].sock
        BY <1>1 DEF Kept
      <4> QED
        BY <1>1, <1>2, <3>2, <4>1, <4>2, <4>3
    <3> QED
      BY <3>1, <3>2
  <2>2. ASSUME NEW c \in Conns', NEW j \in DOMAIN owner', j < conns'[c].sock,
               owner'[j] = owner'[conns'[c].sock]
        PROVE  ~Carries(toRouter'[j], "register")
    <3>0. j \in Sockets /\ j \in DOMAIN owner
      BY <1>2, <2>2, Opened
    <3>1. CASE c = n
      <4>1. toRouter[j] = <<>> /\ j # k
        BY <1>1, <1>2, <2>2, <3>0, <3>1, Opened DEF InTurn
      <4> QED
        BY <1>4, <3>0, <4>1, CarriesNothing
    <3>2. CASE c \in Conns
      BY <1>1, <1>2, <1>4, <1>5, <2>2, <3>0, <3>2 DEF RowsInv, Registrations, Kept
    <3> QED
      BY <1>1, <3>1, <3>2
  <2> QED
    BY <2>1, <2>2 DEF Registrations
<1> QED
  BY <1>6, <1>7, <1>8 DEF RowsInv

LEMMA ConnectRows ==
    ASSUME Typed, RowsInv, NEW h \in Hosts, NEW up, Connect(h, up), UNCHANGED <<routerVars, sessionOf>>
    PROVE  RowsInv'
<1> DEFINE k == Len(owner) + 1
<1>1. /\ owner' = Append(owner, h) /\ k \in Sockets
      /\ toRouter' = [toRouter EXCEPT ![k] = <<Frame("register", 0, 0)>>]
      /\ toRouter \in [Sockets -> Seq(HostFrames)]
  BY Types DEF Connect
<1>2. /\ DOMAIN owner = 1..(k - 1) /\ DOMAIN owner' = 1..k /\ k \in Nat
      /\ \A j \in DOMAIN owner : owner'[j] = owner[j]
  BY <1>1, Appended, Opened DEF Typed, TypeOK, WireTypeOK
<1> HIDE DEF k
<1>3. UNCHANGED <<conns, lastGen, active>> /\ Conns' = Conns
      /\ \A c \in Conns : conns[c].sock \in DOMAIN owner /\ conns[c].sock # k
  BY <1>2, Opened DEF routerVars, rows, Conns, ConnRows
<1>4. FirstOnly(<<Frame("register", 0, 0)>>)
  BY DEF FirstOnly
<1>5. Generations' /\ Origins'
  BY <1>2, <1>3 DEF RowsInv, Generations, Origins
<1>6. Registrations'
  <2>1. ASSUME NEW j \in Sockets
        PROVE  /\ FirstOnly(toRouter'[j])
               /\ Carries(toRouter'[j], "register") => \A c \in Conns' : conns'[c].sock # j
    BY <1>1, <1>3, <1>4 DEF RowsInv, Registrations
  <2>2. ASSUME NEW c \in Conns', NEW j \in DOMAIN owner', j < conns'[c].sock,
               owner'[j] = owner'[conns'[c].sock]
        PROVE  ~Carries(toRouter'[j], "register")
    <3>1. j \in DOMAIN owner /\ j # k /\ toRouter'[j] = toRouter[j]
      BY <1>1, <1>2, <1>3, <2>2, Opened
    <3> QED
      BY <1>2, <1>3, <2>2, <3>1 DEF RowsInv, Registrations
  <2> QED
    BY <2>1, <2>2 DEF Registrations
<1> QED
  BY <1>5, <1>6 DEF RowsInv

LEMMA SameRows ==
    ASSUME UNCHANGED <<conns, lastGen, active, checkpoint>> PROVE KeepRows
  BY DEF KeepRows, Kept

LEMMA ClosedRows ==
    ASSUME Typed, NEW C, conns' = CloseRows(conns, C), UNCHANGED <<lastGen, active, checkpoint>>
    PROVE  KeepRows /\ \A c \in Conns : /\ conns'[c].open <=> conns[c].open /\ c \notin C
                                        /\ conns'[c].lease = conns[c].lease
<1>1. DOMAIN conns' = DOMAIN conns
      /\ \A c \in Conns : /\ c \notin C => conns'[c] = conns[c]
                          /\ c \in C => conns'[c] = [conns[c] EXCEPT !.open = FALSE]
  BY Closed
<1>2. ASSUME NEW c \in Conns
      PROVE  /\ Kept(conns[c], conns'[c])
             /\ conns'[c].open <=> conns[c].open /\ c \notin C
             /\ conns'[c].lease = conns[c].lease
  <2>1. conns[c] \in ConnRows
    BY Opened
  <2>2. CASE c \in C
    BY <1>1, <2>1, <2>2 DEF Kept, ConnRows
  <2>3. CASE c \notin C
    BY <1>1, <2>1, <2>3 DEF Kept
  <2> QED
    BY <2>2, <2>3
<1> QED
  BY <1>1, <1>2 DEF KeepRows

LEMMA HeartbeatRows ==
    ASSUME Typed, NEW k \in Sockets, Heartbeat(k)
    PROVE  KeepRows /\ \A c \in Conns : conns'[c].open <=> conns[c].open
<1>1. conns' = [c \in Conns |-> IF c \in ConnectionsOf(k) /\ Current(c)
                                THEN Renewed(conns[c]) ELSE conns[c]]
      /\ UNCHANGED <<lastGen, active, checkpoint>>
  BY DEF Heartbeat
<1>2. ASSUME NEW c \in Conns
      PROVE  Kept(conns[c], conns'[c]) /\ (conns'[c].open <=> conns[c].open)
  <2>1. conns[c] \in ConnRows
    BY Opened
  <2>2. CASE Current(c) /\ conns'[c] = Renewed(conns[c])
    BY <2>1, <2>2 DEF Current, Renewed, Kept, ConnRows
  <2>3. CASE conns'[c] = conns[c]
    BY <2>3 DEF Kept
  <2> QED
    BY <1>1, <2>2, <2>3
<1> QED
  BY <1>1, <1>2 DEF KeepRows, Conns

LEMMA LeaseTickRows ==
    ASSUME Typed, NEW c \in Conns, LeaseTick(c)
    PROVE  KeepRows /\ \A b \in Conns : conns'[b].open <=> conns[b].open
<1>1. conns' = [conns EXCEPT ![c] = [conns[c] EXCEPT !.lease = @ - 1]]
      /\ UNCHANGED <<lastGen, active, checkpoint>> /\ conns[c].lease > 0
  BY DEF LeaseTick
<1>2. ASSUME NEW b \in Conns
      PROVE  Kept(conns[b], conns'[b]) /\ (conns'[b].open <=> conns[b].open)
  <2>1. conns[b] \in ConnRows
    BY Opened
  <2>2. CASE b = c
    BY <1>1, <2>1, <2>2 DEF Kept, ConnRows, Conns
  <2>3. CASE b # c
    BY <1>1, <2>1, <2>3 DEF Kept, Conns
  <2> QED
    BY <2>2, <2>3
<1> QED
  BY <1>1, <1>2 DEF KeepRows, Conns

LEMMA ConsumedDrains ==
    ASSUME Typed, NEW k \in Sockets, NEW type, Received(k, type), Consume(k)
    PROVE  \A j \in Sockets : Drained(j)
  BY Consumed DEF Drained, Received

LEMMA DroppedDrains ==
    ASSUME Typed, NEW k \in Sockets, DropSocket(k)
    PROVE  \A j \in Sockets : Drained(j)
  BY Types DEF Drained, DropSocket

(* What a router step that registers nobody leaves                           *)
Continues ==
    /\ KeepRows
    /\ \A k \in Sockets : Drained(k)
    /\ UNCHANGED <<owner, clientEnd>>

LEMMA QuietContinues ==
    ASSUME UNCHANGED <<conns, lastGen, active, checkpoint, wire>> PROVE Continues
  BY SameRows DEF Continues, Drained, wire

LEMMA RouterContinues ==
    ASSUME Typed, RouterSteps PROVE Continues \/ \E k \in Sockets : Register(k)
<1>1. ASSUME NEW k \in Sockets, Disconnect(k) PROVE Continues
  BY <1>1, ClosedRows, ConsumedDrains DEF Disconnect, Continues
<1>2. ASSUME NEW k \in Sockets, SocketClosed(k) \/ SocketBreaks(k) PROVE Continues
  BY <1>2, ClosedRows, DroppedDrains DEF SocketClosed, SocketBreaks, DropSocket, Continues
<1>3. ASSUME NEW k \in Sockets, NEW type \in {"accept", "reject"}, HostOutcome(k, type)
      PROVE  Continues
  BY <1>3, SameRows, ConsumedDrains DEF HostOutcome, Continues, rows
<1>4. ASSUME NEW c \in Sockets, StartDrain(c) \/ DrainFails(c) PROVE Continues
  BY <1>4, QuietContinues DEF StartDrain, DrainFails, rows
<1>5. ASSUME NEW c \in Sockets, DrainStep(c) PROVE Continues
  BY <1>5, SameRows DEF DrainStep, Continues, Drained
<1>6. ASSUME NEW d \in Deliveries, Timeout(d) \/ FinishFails(d) PROVE Continues
  BY <1>6, QuietContinues DEF Timeout, FinishFails, rows
<1>7. ASSUME NEW d \in Deliveries, Finish(d) PROVE Continues
  BY <1>7, QuietContinues DEF Finish
<1>8. ASSUME NEW d \in Deliveries, NEW took \in BOOLEAN, NEW ok \in BOOLEAN, QueueReturns(d, took, ok)
      PROVE  Continues
  BY <1>8, QuietContinues DEF QueueReturns, rows
<1>9. ASSUME NEW t \in Targets, Stored(t) PROVE Continues
  BY <1>9, QuietContinues DEF Stored
<1>10. ASSUME NEW d \in Deliveries, Notified(d) PROVE Continues
  BY <1>10, SameRows DEF Notified, HandleNotify, Continues, Drained
<1>11. ASSUME NEW c \in Conns, LeaseTick(c) PROVE Continues
  BY <1>11, LeaseTickRows DEF LeaseTick, Continues, Drained, wire
<1>12. ASSUME Crash PROVE Continues
  BY <1>12, SameRows DEF Crash, Die, Continues, Drained
<1>13. ASSUME Stop PROVE Continues
  BY <1>13, ClosedRows DEF Stop, Die, Continues, Drained
<1>14. ASSUME Restart PROVE Continues
  BY <1>14, QuietContinues DEF Restart, rows
<1>15. ASSUME NEW k \in Sockets, Heartbeat(k) PROVE Continues
  BY <1>15, HeartbeatRows, ConsumedDrains DEF Heartbeat, Continues
<1> QED
  BY <1>1, <1>2, <1>3, <1>4, <1>5, <1>6, <1>7, <1>8, <1>9, <1>10, <1>11, <1>12, <1>13, <1>14, <1>15
  DEF RouterSteps, RouterStep, Mishap

LEMMA RouterRowsInv ==
    ASSUME Typed, RowsInv, RouterSteps, UNCHANGED <<hostVars, sessionOf>> PROVE RowsInv'
  BY RouterContinues, RegisterRows, RowsKept DEF Continues, Passed

LEMMA HostPasses ==
    ASSUME Typed, NEW h \in Hosts, HostSteps(h), UNCHANGED <<routerVars, sessionOf>>
    PROVE  \/ Connect(h, running)
           \/ UNCHANGED owner /\ \A k \in Sockets : Passed(k)
<1>1. ASSUME UNCHANGED <<owner, toRouter>> PROVE UNCHANGED owner /\ \A k \in Sockets : Passed(k)
  BY <1>1 DEF Passed, Drained
<1>2. ASSUME NEW k, NEW f \in HostFrames, f.type # "register", toRouter' = SendToRouter(toRouter, k, f)
      PROVE  \A j \in Sockets : Passed(j)
  <2>1. \A j \in Sockets : SendToRouter(toRouter, k, f)[j] =
                 IF j = k /\ k \in routerEnd THEN Append(toRouter[j], f) ELSE toRouter[j]
    <3>1. toRouter \in [Sockets -> Seq(HostFrames)]
      BY Types
    <3> QED
      BY <3>1, ToRouters
  <2> QED
    BY <1>2, <2>1 DEF Passed, Drained
<1>3. ASSUME tail[h] # <<>>, NEW type \in {"accept", "reject"}, Reply(h, type)
      PROVE  \A j \in Sockets : Passed(j)
  <2> DEFINE f == Frame(type, Head(tail[h]).d, Head(tail[h]).n)
  <2>1. f \in HostFrames
        /\ \A j \in Sockets : toRouter'[j] = toRouter[j] \/ toRouter'[j] = Append(toRouter[j], f)
    BY <1>3, Replied
  <2>2. f.type # "register"
    BY DEF Frame
  <2> HIDE DEF f
  <2> QED
    BY <2>1, <2>2 DEF Passed, Drained
<1>4. ASSUME Registered(h) \/ ReceiveDelivery(h) \/ Superseded(h) \/ ConnectionLost(h)
             \/ ReconnectEnds(h) \/ RegistrationTimesOut(h) \/ HostCrash(h)
             \/ DeliverToClosed(h) \/ BeginDeliver(h)
      PROVE  UNCHANGED <<owner, toRouter>>
  BY <1>4 DEF Registered, ReceiveDelivery, Superseded, ConnectionLost, ReconnectEnds,
              RegistrationTimesOut, HostCrash, DeliverToClosed, BeginDeliver, wire
<1>5. ASSUME Close(h) PROVE UNCHANGED owner /\ \A k \in Sockets : Passed(k)
  <2>1. Frame("disconnect", 0, 0) \in HostFrames /\ Frame("disconnect", 0, 0).type # "register"
    BY DEF Frame, HostFrames
  <2>2. UNCHANGED owner /\ (\/ UNCHANGED toRouter
                           \/ toRouter' = SendToRouter(toRouter, hsock[h], Frame("disconnect", 0, 0)))
    BY <1>5 DEF Close
  <2> QED
    BY <1>1, <1>2, <2>1, <2>2
<1>6. ASSUME SendHeartbeat(h, Due(h)) PROVE UNCHANGED owner /\ \A k \in Sockets : Passed(k)
  <2>1. Frame("heartbeat", 0, 0) \in HostFrames /\ Frame("heartbeat", 0, 0).type # "register"
    BY DEF Frame, HostFrames
  <2>2. UNCHANGED owner /\ toRouter' = SendToRouter(toRouter, hsock[h], Frame("heartbeat", 0, 0))
    BY <1>6 DEF SendHeartbeat
  <2> QED
    BY <1>2, <2>1, <2>2
<1>7. ASSUME AcceptDuplicate(h) PROVE UNCHANGED owner /\ \A k \in Sockets : Passed(k)
  BY <1>3, <1>7 DEF AcceptDuplicate, MayDeliver, Reply
<1>8. ASSUME EndDeliver(h) PROVE UNCHANGED owner /\ \A k \in Sockets : Passed(k)
  <2>1. tail[h] # <<>>
    BY <1>8, HostTypes DEF EndDeliver
  <2>2. PICK type \in {"accept", "reject"} : Reply(h, type)
    BY <1>8 DEF EndDeliver
  <2>3. \A k \in Sockets : Passed(k)
    BY <1>3, <2>1, <2>2
  <2> QED
    BY <2>2, <2>3 DEF Reply
<1> QED
  BY <1>1, <1>4, <1>5, <1>6, <1>7, <1>8 DEF HostSteps, HostStep, HostEnv

LEMMA HostRowsInv ==
    ASSUME Typed, RowsInv, NEW h \in Hosts, HostSteps(h), UNCHANGED <<routerVars, sessionOf>>
    PROVE  RowsInv'
<1>1. KeepRows
  BY SameRows DEF routerVars, rows
<1> QED
  BY <1>1, HostPasses, ConnectRows, RowsKept

LEMMA RowsInvInit == Init => RowsInv
<1> SUFFICES ASSUME Init PROVE RowsInv
  OBVIOUS
<1>1. Conns = {} /\ DOMAIN owner = {}
  BY DEF Init, WireInit, RouterInit, Conns
<1>2. \A k \in Sockets : toRouter[k] = <<>>
  BY DEF Init, WireInit
<1> QED
  BY <1>1, <1>2, CarriesNothing DEF RowsInv, Generations, Origins, Registrations, FirstOnly

LEMMA RowsInvStep == ASSUME Typed, RowsInv, Steps PROVE RowsInv'
<1>1. ASSUME UNCHANGED <<routerVars, hostVars, wire, sessionOf>> PROVE RowsInv'
  BY <1>1 DEF routerVars, rows, hostVars, wire, RowsInv, Generations, Origins, Registrations,
              Conns, FirstOnly, Carries
<1> QED
  BY <1>1, RouterRowsInv, HostRowsInv DEF Steps

-----------------------------------------------------------------------------
(* Sockets and bindings *)

(* What is bound belongs to this process of the router, and has its socket   *)
Bindings ==
    /\ \A c \in bound : conns[c].open /\ conns[c].router = run /\ conns[c].sock \in routerEnd
    /\ ~running => bound = {}

(* A process has one socket, the last one it opened, and reads no other      *)
Ends ==
    /\ \A h \in Hosts : hsock[h] # 0 => hsock[h] \in clientEnd /\ owner[hsock[h]] = h
    /\ \A k \in clientEnd :
          /\ hsock[owner[k]] = k
          /\ \A j \in DOMAIN owner : owner[j] = owner[k] => j <= k
    /\ \A k \in Sockets \ clientEnd : toHost[k] = <<>>

(* A disconnect is the last thing a process writes                           *)
Hangups == \A k \in Sockets : Carries(toRouter[k], "disconnect") => k \notin clientEnd

(* Whoever was told that it is registered is bound, or is told otherwise     *)
Announced ==
    \A k \in clientEnd \cap routerEnd :
        Carries(toHost[k], "registered") \/ hst[owner[k]] = "up" =>
            \E c \in Conns : /\ conns[c].sock = k
                             /\ c \in bound \/ Carries(toHost[k], "superseded")

(* NoSelfSupersede, in terms of frames                                       *)
Supersessions ==
    \A b, c \in Conns :
        /\ conns[b].session = conns[c].session
        /\ conns[c].gen = conns[b].gen + 1
        /\ Carries(toHost[conns[b].sock], "superseded")
        => owner[conns[c].sock] # owner[conns[b].sock]

LinkInv == Bindings /\ Ends /\ Hangups /\ Announced /\ Supersessions

(* What a router step that registers nobody writes, and whom it lets go      *)
Delivers(k) ==
    \/ toHost'[k] = toHost[k]
    \/ /\ k \in clientEnd
       /\ \E f \in RouterFrames : f.type = "deliver" /\ toHost'[k] = Append(toHost[k], f)
LetsGo(c) == conns[c].sock \notin clientEnd \/ conns[c].sock \notin routerEnd'

Serves ==
    /\ \A k \in Sockets : Delivers(k)
    /\ routerEnd' \subseteq routerEnd
    /\ bound' \subseteq bound
    /\ \A c \in bound : c \in bound' \/ LetsGo(c)
    /\ Bindings'

LEMMA DeliversFrames ==
    ASSUME Typed, NEW k \in Sockets, Delivers(k), NEW type
    PROVE  /\ Carries(toHost[k], type) => Carries(toHost'[k], type)
           /\ type # "deliver" => (Carries(toHost'[k], type) => Carries(toHost[k], type))
<1>1. toHost[k] \in Seq(RouterFrames)
  BY Types
<1>2. ASSUME NEW f \in RouterFrames, f.type = "deliver", toHost'[k] = Append(toHost[k], f)
      PROVE  Carries(toHost'[k], type) <=> Carries(toHost[k], type) \/ type = "deliver"
  <2>1. Carries(Append(toHost[k], f), type) <=> Carries(toHost[k], type) \/ f.type = type
    BY <1>1, CarriesMore
  <2> QED
    BY <1>2, <2>1
<1>3. CASE toHost'[k] = toHost[k]
  BY <1>3
<1> QED
  BY <1>2, <1>3 DEF Delivers

LEMMA AttemptDelivers ==
    ASSUME Typed, NEW d \in Deliveries, NEW c, Attempt(d, c)
    PROVE  \A k \in Sockets : Delivers(k)
<1> DEFINE f == Frame("deliver", d, Len(attempts[d]) + 1)
<1>1. f \in RouterFrames /\ f.type = "deliver"
  BY Opened DEF Frame, RouterFrames
<1>2. toHost' = toHost \/ toHost' = SendToHost(toHost, conns[c].sock, f)
  BY DEF Attempt
<1> HIDE DEF f
<1>3. toHost \in [Sockets -> Seq(RouterFrames)]
  BY Types
<1>4. \A k \in Sockets : SendToHost(toHost, conns[c].sock, f)[k] =
          IF k = conns[c].sock /\ conns[c].sock \in clientEnd THEN Append(toHost[k], f) ELSE toHost[k]
  BY <1>1, <1>3, ToHosts
<1> QED
  BY <1>1, <1>2, <1>4 DEF Delivers

LEMMA DispatchDelivers ==
    ASSUME Typed, NEW d \in Deliveries, NEW C, Dispatch(d, C)
    PROVE  \A k \in Sockets : Delivers(k)
<1>1. CASE UNCHANGED toHost
  BY <1>1 DEF Delivers
<1> QED
  BY <1>1, Dispatches, AttemptDelivers

LEMMA SameBindings ==
    ASSUME Bindings, UNCHANGED <<bound, run, running, routerEnd>>,
           \A c \in bound : /\ conns'[c].open <=> conns[c].open
                            /\ conns'[c].router = conns[c].router /\ conns'[c].sock = conns[c].sock
    PROVE  Bindings' /\ routerEnd' \subseteq routerEnd /\ bound' \subseteq bound
           /\ \A c \in bound : c \in bound' \/ LetsGo(c)
  BY DEF Bindings

LEMMA QuietServes ==
    ASSUME Bindings, UNCHANGED <<bound, run, running, conns, routerEnd>>,
           \A k \in Sockets : Delivers(k)
    PROVE  Serves
  BY SameBindings DEF Serves

LEMMA DropServes ==
    ASSUME Typed, Bindings, NEW k \in Sockets, DropSocket(k)
    PROVE  Serves
<1> DEFINE gone == ConnectionsOf(k) \cap bound
<1>1. /\ bound' = bound \ gone /\ routerEnd' = routerEnd \ {k}
      /\ UNCHANGED <<run, running, toHost>>
      /\ \A c \in Conns : /\ conns'[c].open <=> conns[c].open /\ c \notin gone
                          /\ conns'[c].sock = conns[c].sock /\ conns'[c].router = conns[c].router
  BY ClosedRows DEF DropSocket, KeepRows, Kept
<1>2. bound \subseteq Conns /\ \A c \in bound : c \in gone <=> conns[c].sock = k
  BY Types DEF ConnectionsOf, Conns
<1> HIDE DEF gone
<1>3. Bindings'
  BY <1>1, <1>2 DEF Bindings
<1>4. \A c \in bound : c \in bound' \/ LetsGo(c)
  BY <1>1, <1>2 DEF LetsGo
<1> QED
  BY <1>1, <1>3, <1>4 DEF Serves, Delivers

LEMMA DieServes ==
    ASSUME Typed, Die PROVE Serves
  BY DEF Die, Serves, Bindings, LetsGo, Delivers

LEMMA DisconnectServes ==
    ASSUME Typed, Bindings, Hangups, NEW k \in Sockets, Disconnect(k)
    PROVE  Serves
<1> DEFINE gone == {c \in ConnectionsOf(k) : Current(c)}
<1>1. /\ bound' = bound \ gone
      /\ UNCHANGED <<run, running, toHost, routerEnd>>
      /\ \A c \in Conns : /\ conns'[c].open <=> conns[c].open /\ c \notin gone
                          /\ conns'[c].sock = conns[c].sock /\ conns'[c].router = conns[c].router
  BY ClosedRows DEF Disconnect, KeepRows, Kept
<1>2. bound \subseteq Conns /\ \A c \in gone : conns[c].sock = k
  BY Types DEF ConnectionsOf, Conns
<1> HIDE DEF gone
<1>3. k \notin clientEnd
  <2>1. toRouter[k] \in Seq(HostFrames) /\ toRouter[k] # <<>> /\ Head(toRouter[k]).type = "disconnect"
    BY Types DEF Disconnect, Received
  <2> QED
    BY <2>1, CarriesLess DEF Hangups
<1>4. Bindings'
  BY <1>1, <1>2 DEF Bindings
<1>5. \A c \in bound : c \in bound' \/ LetsGo(c)
  BY <1>1, <1>2, <1>3 DEF LetsGo
<1> QED
  BY <1>1, <1>4, <1>5 DEF Serves, Delivers

LEMMA RouterServes ==
    ASSUME Typed, Bindings, Hangups, RouterSteps PROVE Serves \/ \E k \in Sockets : Register(k)
<1>0. ASSUME UNCHANGED toHost PROVE \A k \in Sockets : Delivers(k)
  BY <1>0 DEF Delivers
<1>2. ASSUME NEW k \in Sockets, SocketClosed(k) \/ SocketBreaks(k) PROVE Serves
  BY <1>2, DropServes DEF SocketClosed, SocketBreaks
<1>3. ASSUME NEW k \in Sockets, NEW type \in {"accept", "reject"}, HostOutcome(k, type)
      PROVE  Serves
  BY <1>0, <1>3, QuietServes DEF HostOutcome, rows
<1>4. ASSUME NEW c \in Sockets, StartDrain(c) \/ DrainFails(c) PROVE Serves
  BY <1>0, <1>4, QuietServes DEF StartDrain, DrainFails, rows, wire
<1>5. ASSUME NEW c \in Sockets, DrainStep(c) PROVE Serves
  <2>1. \A k \in Sockets : Delivers(k)
    <3>1. ASSUME NEW d \in Backlog(c), Dispatch(d, {b \in {c} : Current(b)})
          PROVE  \A k \in Sockets : Delivers(k)
      <4>1. d \in Deliveries
        BY Types DEF Backlog, Deliveries
      <4> QED
        BY <3>1, <4>1, DispatchDelivers
    <3> QED
      BY <1>0, <1>5, <3>1 DEF DrainStep
  <2> QED
    BY <1>5, <2>1, QuietServes DEF DrainStep
<1>6. ASSUME NEW d \in Deliveries, Timeout(d) \/ FinishFails(d) PROVE Serves
  BY <1>0, <1>6, QuietServes DEF Timeout, FinishFails, rows, wire
<1>7. ASSUME NEW d \in Deliveries, Finish(d) PROVE Serves
  BY <1>0, <1>7, QuietServes DEF Finish, wire
<1>8. ASSUME NEW d \in Deliveries, NEW took \in BOOLEAN, NEW ok \in BOOLEAN, QueueReturns(d, took, ok)
      PROVE  Serves
  BY <1>0, <1>8, QuietServes DEF QueueReturns, rows, wire
<1>9. ASSUME NEW t \in Targets, Stored(t) PROVE Serves
  BY <1>0, <1>9, QuietServes DEF Stored, memory, wire
<1>10. ASSUME NEW d \in Deliveries, Notified(d) PROVE Serves
  BY <1>10, DispatchDelivers, QuietServes DEF Notified, HandleNotify
<1>11. ASSUME NEW c \in Conns, LeaseTick(c) PROVE Serves
  <2>1. UNCHANGED <<bound, run, running, routerEnd, toHost>> /\ bound \subseteq Conns
    BY <1>11, Types DEF LeaseTick, memory, wire, Conns
  <2> QED
    BY <1>0, <1>11, <2>1, LeaseTickRows, SameBindings DEF KeepRows, Kept, Serves
<1>12. ASSUME Crash \/ Stop PROVE Serves
  BY <1>12, DieServes DEF Crash, Stop
<1>14. ASSUME Restart PROVE Serves
  <2>1. bound = {} /\ bound' = {} /\ UNCHANGED <<routerEnd, toHost>>
    BY <1>14 DEF Restart, Bindings, wire
  <2> QED
    BY <1>0, <2>1 DEF Serves, Bindings
<1>15. ASSUME NEW k \in Sockets, Heartbeat(k) PROVE Serves
  <2>1. UNCHANGED <<bound, run, running, routerEnd, toHost>> /\ bound \subseteq Conns
    BY <1>15, Types DEF Heartbeat, memory, Conns
  <2> QED
    BY <1>0, <1>15, <2>1, HeartbeatRows, SameBindings DEF KeepRows, Kept, Serves
<1> QED
  BY <1>2, <1>3, <1>4, <1>5, <1>6, <1>7, <1>8, <1>9, <1>10, <1>11, <1>12, <1>14, <1>15,
     DisconnectServes
  DEF RouterSteps, RouterStep, Mishap

LEMMA ServesLinks ==
    ASSUME Typed, RowsInv, LinkInv, Serves, Continues, UNCHANGED <<hostVars, sessionOf>>
    PROVE  LinkInv'
<1>1. \A k \in Sockets :
          /\ Carries(toHost'[k], "registered") => Carries(toHost[k], "registered")
          /\ Carries(toHost'[k], "superseded") <=> Carries(toHost[k], "superseded")
          /\ k \notin clientEnd => toHost'[k] = toHost[k]
          /\ Carries(toRouter'[k], "disconnect") => Carries(toRouter[k], "disconnect")
  BY DeliversFrames, DrainedFrames DEF Serves, Continues, Delivers
<1>2. /\ Conns' = Conns /\ UNCHANGED <<owner, clientEnd, hst, hsock>>
      /\ \A c \in Conns : /\ conns'[c].sock = conns[c].sock /\ conns'[c].gen = conns[c].gen
                          /\ conns'[c].session = conns[c].session
                          /\ conns[c].sock \in Sockets
  BY Opened DEF Continues, KeepRows, Kept, Conns, hostVars, ConnRows
<1>3. bound \subseteq Conns /\ clientEnd \subseteq Sockets
  BY Types, HostTypes, Opened DEF Conns
<1>4. Bindings' /\ Hangups' /\ Ends'
  BY <1>1, <1>2 DEF Serves, LinkInv, Hangups, Ends
<1>5. Announced'
  <2>1. ASSUME NEW k \in clientEnd, k \in routerEnd',
               Carries(toHost'[k], "registered") \/ hst[owner[k]] = "up"
        PROVE  \E c \in Conns : /\ conns[c].sock = k
                                /\ c \in bound' \/ Carries(toHost'[k], "superseded")
    <3>1. k \in clientEnd \cap routerEnd /\ k \in Sockets
      BY <1>3, <2>1 DEF Serves
    <3>2. PICK c \in Conns : conns[c].sock = k /\ (c \in bound \/ Carries(toHost[k], "superseded"))
      BY <1>1, <2>1, <3>1 DEF LinkInv, Announced
    <3>3. CASE c \in bound
      BY <2>1, <3>1, <3>2, <3>3 DEF Serves, LetsGo
    <3>4. CASE Carries(toHost[k], "superseded")
      BY <1>1, <3>1, <3>2, <3>4
    <3> QED
      BY <3>2, <3>3, <3>4
  <2> QED
    BY <1>2, <2>1 DEF Announced
<1>6. Supersessions'
  BY <1>1, <1>2 DEF LinkInv, Supersessions
<1> QED
  BY <1>4, <1>5, <1>6 DEF LinkInv

(* Whom a registration tells what                                            *)
LEMMA RegisterFrames ==
    ASSUME Typed, RowsInv, NEW k \in Sockets, Register(k)
    PROVE  LET old == OpenRows(sessionOf[owner[k]]) \cap bound
           IN  \A j \in Sockets :
                 /\ j \notin clientEnd => toHost'[j] = toHost[j]
                 /\ Carries(toHost[j], "superseded") => Carries(toHost'[j], "superseded")
                 /\ Carries(toHost'[j], "superseded") =>
                        \/ Carries(toHost[j], "superseded")
                        \/ \E c \in old : conns[c].sock = j
                 /\ \A c \in old : conns[c].sock = j /\ j \in clientEnd => Carries(toHost'[j], "superseded")
                 /\ Carries(toHost'[j], "registered") => Carries(toHost[j], "registered") \/ j = k
<1> DEFINE old == OpenRows(sessionOf[owner[k]]) \cap bound
           gone(j) == \E c \in old : conns[c].sock = j /\ j \in clientEnd
           bye == Frame("superseded", 0, 0)
           hello == Frame("registered", 0, 0)
           told == [j \in Sockets |-> IF gone(j) THEN Append(toHost[j], bye) ELSE toHost[j]]
<1>1. toHost' = SendToHost(told, k, hello)
  <2>1. told = [j \in Sockets |->
                 IF \E c \in OpenRows(sessionOf[owner[k]]) \cap bound :
                       conns[c].sock = j /\ j \in clientEnd
                 THEN Append(toHost[j], Frame("superseded", 0, 0))
                 ELSE toHost[j]]
    OBVIOUS
  <2> QED
    BY <2>1 DEF Register
<1>2. /\ bye \in RouterFrames /\ hello \in RouterFrames
      /\ bye.type = "superseded" /\ hello.type = "registered"
  BY DEF Frame, RouterFrames
<1>3. toHost \in [Sockets -> Seq(RouterFrames)]
  BY Types
<1> HIDE DEF bye, hello, old
<1>4. \A j \in Sockets : told[j] \in Seq(RouterFrames)
                         /\ told[j] = IF gone(j) THEN Append(toHost[j], bye) ELSE toHost[j]
  BY <1>2, <1>3, Appended
<1>5. told \in [Sockets -> Seq(RouterFrames)]
  BY <1>4
<1> HIDE DEF told
<1>6. \A j \in Sockets : toHost'[j] = IF j = k /\ k \in clientEnd THEN Append(told[j], hello) ELSE told[j]
  BY <1>1, <1>2, <1>5, ToHosts
<1>7. ASSUME NEW j \in Sockets, NEW type
      PROVE  /\ Carries(told[j], type) <=> Carries(toHost[j], type) \/ (gone(j) /\ bye.type = type)
             /\ Carries(toHost'[j], type) <=>
                    Carries(told[j], type) \/ (j = k /\ k \in clientEnd /\ hello.type = type)
  <2>1. Carries(Append(toHost[j], bye), type) <=> Carries(toHost[j], type) \/ bye.type = type
    BY <1>2, <1>3, CarriesMore
  <2>2. Carries(Append(told[j], hello), type) <=> Carries(told[j], type) \/ hello.type = type
    BY <1>2, <1>4, CarriesMore
  <2> QED
    BY <1>4, <1>6, <2>1, <2>2
<1>8. \A j \in Sockets : j \notin clientEnd => toHost'[j] = toHost[j]
  BY <1>4, <1>6
<1> QED
  BY <1>2, <1>7, <1>8 DEF old

LEMMA RegisterLinks ==
    ASSUME Typed, RowsInv, LinkInv, NEW k \in Sockets, Register(k), UNCHANGED <<hostVars, sessionOf>>
    PROVE  LinkInv'
<1> DEFINE s == sessionOf[owner[k]]
           n == Len(conns) + 1
           old == OpenRows(s) \cap bound
<1>1. /\ k \in DOMAIN owner /\ k \in routerEnd /\ s \in Sessions
      /\ Conns' = Conns \cup {n} /\ n \notin Conns
      /\ conns'[n] = [sock |-> k, session |-> s, gen |-> lastGen[s] + 1,
                      router |-> run, open |-> TRUE, lease |-> LeaseTicks]
      /\ \A c \in Conns :
            /\ Kept(conns[c], conns'[c])
            /\ conns'[c].open <=> conns[c].open /\ conns[c].session # s
      /\ lastGen[s] \in Nat
      /\ bound' = (bound \ OpenRows(s)) \cup {n}
  BY NewRow
<1>2. \A j \in Sockets :
          /\ j \notin clientEnd => toHost'[j] = toHost[j]
          /\ Carries(toHost[j], "superseded") => Carries(toHost'[j], "superseded")
          /\ Carries(toHost'[j], "superseded") =>
                 \/ Carries(toHost[j], "superseded")
                 \/ \E c \in old : conns[c].sock = j
          /\ \A c \in old : conns[c].sock = j /\ j \in clientEnd => Carries(toHost'[j], "superseded")
          /\ Carries(toHost'[j], "registered") => Carries(toHost[j], "registered") \/ j = k
  BY RegisterFrames
<1>3. /\ Received(k, "register") /\ Consume(k) /\ running
      /\ UNCHANGED <<owner, clientEnd, routerEnd, run, running, hst, hsock>>
  BY DEF Register, Settled, hostVars
<1>4. /\ bound \subseteq Conns /\ clientEnd \subseteq Sockets /\ clientEnd \subseteq DOMAIN owner
      /\ \A c \in Conns : conns[c].sock \in DOMAIN owner /\ conns[c].sock \in Sockets
                          /\ conns[c].session \in Sessions /\ conns[c].gen \in Nat
                          /\ conns[c].gen <= lastGen[conns[c].session]
                          /\ conns[c].session = sessionOf[owner[conns[c].sock]]
  BY Types, HostTypes, Opened DEF Conns, ConnRows, RowsInv, Origins
<1>5. /\ \A j \in Sockets : Drained(j)
      /\ Carries(toRouter[k], "register")
      /\ \A c \in Conns : conns[c].sock # k
  <2>1. toRouter[k] \in Seq(HostFrames) /\ toRouter[k] # <<>> /\ Head(toRouter[k]).type = "register"
    BY <1>3, Types DEF Received
  <2>2. Carries(toRouter[k], "register")
    BY <2>1, CarriesLess
  <2> QED
    BY <1>3, <2>2, ConsumedDrains DEF RowsInv, Registrations
<1> HIDE DEF s, n
<1>6. Bindings'
  <2>1. \A c \in bound \ OpenRows(s) : conns[c].open /\ conns[c].session # s
    BY <1>4 DEF LinkInv, Bindings, OpenRows
  <2> QED
    BY <1>1, <1>3, <1>4, <2>1 DEF LinkInv, Bindings, Kept
<1>7. Ends' /\ Hangups'
  BY <1>2, <1>3, <1>4, <1>5, DrainedFrames DEF LinkInv, Ends, Hangups
<1>8. Announced'
  <2>1. ASSUME NEW j \in clientEnd, j \in routerEnd,
               Carries(toHost'[j], "registered") \/ hst[owner[j]] = "up"
        PROVE  \E c \in Conns' : /\ conns'[c].sock = j
                                 /\ c \in bound' \/ Carries(toHost'[j], "superseded")
    <3>1. CASE j = k
      BY <1>1, <3>1
    <3>2. CASE j # k
      <4>1. PICK c \in Conns : conns[c].sock = j /\ (c \in bound \/ Carries(toHost[j], "superseded"))
        BY <1>2, <1>4, <2>1, <3>2 DEF LinkInv, Announced
      <4>2. c \in Conns' /\ conns'[c].sock = j
        BY <1>1, <4>1 DEF Kept
      <4>3. CASE c \in bound /\ c \notin OpenRows(s)
        BY <1>1, <4>2, <4>3
      <4>4. CASE c \in bound /\ c \in OpenRows(s)
        BY <1>2, <1>4, <2>1, <4>1, <4>2, <4>4
      <4>5. CASE Carries(toHost[j], "superseded")
        BY <1>2, <1>4, <4>2, <4>5
      <4> QED
        BY <4>1, <4>3, <4>4, <4>5
    <3> QED
      BY <3>1, <3>2
  <2> QED
    BY <1>3, <2>1 DEF Announced
<1>9. Supersessions'
  <2>1. ASSUME NEW b \in Conns', NEW c \in Conns', conns'[b].session = conns'[c].session,
               conns'[c].gen = conns'[b].gen + 1, Carries(toHost'[conns'[b].sock], "superseded")
        PROVE  owner[conns'[c].sock] # owner[conns'[b].sock]
    <3>1. CASE b \in Conns /\ c \in Conns
      <4>1. /\ conns'[b].session = conns[b].session /\ conns'[c].session = conns[c].session
            /\ conns'[b].gen = conns[b].gen /\ conns'[c].gen = conns[c].gen
            /\ conns'[b].sock = conns[b].sock /\ conns'[c].sock = conns[c].sock
        BY <1>1, <3>1 DEF Kept
      <4>2. CASE Carries(toHost[conns[b].sock], "superseded")
        BY <2>1, <3>1, <4>1, <4>2 DEF LinkInv, Supersessions
      <4>3. ASSUME NEW e \in old, conns[e].sock = conns[b].sock PROVE FALSE
        <5>1. e = b
          BY <1>4, <3>1, <4>3 DEF RowsInv, Origins
        <5>2. conns[b].gen = lastGen[conns[b].session]
          BY <3>1, <4>3, <5>1 DEF RowsInv, Generations, OpenRows
        <5>3. conns[c].gen <= lastGen[conns[b].session] /\ conns[c].gen = conns[b].gen + 1
          BY <1>4, <2>1, <3>1, <4>1
        <5> QED
          BY <1>4, <3>1, <5>2, <5>3
      <4> QED
        BY <1>2, <1>4, <2>1, <3>1, <4>1, <4>2, <4>3
    <3>2. CASE b \in Conns /\ c = n
      <4> DEFINE j == conns[b].sock
      <4>1. conns'[b].sock = j /\ conns'[c].sock = k /\ j \in Sockets /\ j \in DOMAIN owner /\ j # k
        BY <1>1, <1>4, <1>5, <3>2 DEF Kept
      <4> HIDE DEF j
      <4>2. j \in clientEnd
        <5>1. CASE j \notin clientEnd
          <6>1. toHost'[j] = <<>>
            BY <1>2, <4>1, <5>1 DEF LinkInv, Ends
          <6> QED
            BY <2>1, <4>1, <6>1, CarriesNothing
        <5> QED
          BY <5>1
      <4>3. ASSUME owner[k] = owner[j] PROVE FALSE
        <5>1. k <= j
          BY <1>1, <4>2, <4>3 DEF LinkInv, Ends
        <5>2. k < j
          BY <1>1, <4>1, <5>1, Opened
        <5> QED
          BY <1>1, <1>5, <3>2, <4>3, <5>2 DEF RowsInv, Registrations, j
      <4> QED
        BY <4>1, <4>3
    <3>3. CASE b = n /\ c \in Conns
      <4>1. conns[c].gen = lastGen[s] + 2 /\ conns[c].session = s
        BY <1>1, <2>1, <3>3 DEF Kept
      <4> QED
        BY <1>1, <1>4, <3>3, <4>1
    <3>4. CASE b = n /\ c = n
      BY <1>1, <2>1, <3>4
    <3> QED
      BY <1>1, <3>1, <3>2, <3>3, <3>4
  <2> QED
    BY <1>3, <2>1 DEF Supersessions
<1> QED
  BY <1>6, <1>7, <1>8, <1>9 DEF LinkInv

-----------------------------------------------------------------------------
(* Sockets and bindings under the steps of hosts *)

(* Steps that open no socket: the client ends that stay, what is read from   *)
(* the router and what is written to it                                      *)
Attends(h) ==
    /\ UNCHANGED <<owner, routerEnd>>
    /\ clientEnd' \subseteq clientEnd
    /\ \A k \in Sockets :
          /\ Carries(toHost'[k], "registered") => Carries(toHost[k], "registered")
          /\ Carries(toHost'[k], "superseded") => Carries(toHost[k], "superseded")
          /\ k \in clientEnd' /\ Carries(toHost[k], "superseded") => Carries(toHost'[k], "superseded")
          /\ Carries(toRouter'[k], "disconnect") =>
                 Carries(toRouter[k], "disconnect") \/ k \notin clientEnd'
    /\ \A k \in clientEnd' : hst'[owner[k]] = "up" =>
           hst[owner[k]] = "up" \/ Carries(toHost[k], "registered")

LEMMA AttendedLinks ==
    ASSUME Typed, LinkInv, NEW h \in Hosts, Attends(h), Ends', UNCHANGED <<routerVars, sessionOf>>
    PROVE  LinkInv'
<1>1. UNCHANGED <<conns, bound, run, running>> /\ Conns' = Conns
      /\ \A c \in Conns : conns[c].sock \in Sockets
  BY Opened DEF routerVars, rows, memory, Conns, ConnRows
<1>2. clientEnd \subseteq Sockets
  BY HostTypes, Opened
<1>3. Bindings' /\ Hangups'
  BY <1>1 DEF LinkInv, Bindings, Hangups, Attends
<1>4. Announced'
  BY <1>1, <1>2 DEF LinkInv, Announced, Attends
<1>5. Supersessions'
  BY <1>1 DEF LinkInv, Supersessions, Attends
<1> QED
  BY <1>3, <1>4, <1>5 DEF LinkInv

(* A host lets its socket go                                                 *)
LEMMA HangUpLinks ==
    ASSUME Typed, LinkInv, NEW h \in Hosts, UNCHANGED <<routerVars, sessionOf, owner, routerEnd>>,
           clientEnd' = clientEnd \ {hsock[h]},
           \A j \in Sockets : toHost'[j] = IF j = hsock[h] THEN <<>> ELSE toHost[j],
           hsock' = [hsock EXCEPT ![h] = 0],
           NEW state \in {"retry", "lost", "closed"}, hst' = [hst EXCEPT ![h] = state],
           \A k \in Sockets : Carries(toRouter'[k], "disconnect") =>
                 Carries(toRouter[k], "disconnect") \/ k = hsock[h]
    PROVE  LinkInv'
<1>0. hsock \in [Hosts -> {0} \cup DOMAIN owner] /\ clientEnd \subseteq DOMAIN owner
      /\ hst \in [Hosts -> {"off", "registering", "up", "retry", "lost", "closed"}]
      /\ \A k \in DOMAIN owner : owner[k] \in Hosts /\ k \in Sockets
  BY HostTypes, Opened
<1>1. Ends'
  BY <1>0 DEF LinkInv, Ends
<1>2. Attends(h)
  BY <1>0, CarriesNothing DEF Attends
<1> QED
  BY <1>1, <1>2, AttendedLinks

(* A host reads a frame                                                      *)
LEMMA ReadLinks ==
    ASSUME Typed, LinkInv, NEW h \in Hosts, UNCHANGED <<routerVars, sessionOf, owner, routerEnd>>,
           NEW type \in {"registered", "deliver"}, Receives(h, type), Read(h),
           UNCHANGED <<clientEnd, toRouter, hsock>>,
           hst' = hst \/ (type = "registered" /\ hst' = [hst EXCEPT ![h] = "up"])
    PROVE  LinkInv'
<1>1. /\ hsock[h] \in Sockets /\ toHost[hsock[h]] \in Seq(RouterFrames) /\ toHost[hsock[h]] # <<>>
      /\ \A j \in Sockets : toHost'[j] = IF j = hsock[h] THEN Tail(toHost[j]) ELSE toHost[j]
      /\ Head(toHost[hsock[h]]).type = type /\ hsock[h] \in clientEnd
  <2>1. hst[h] \in {"registering", "up"} /\ Head(toHost[hsock[h]]).type = type
    BY DEF Receives
  <2>2. hsock[h] \in clientEnd
    BY <2>1, HostTypes DEF LinkInv, Ends
  <2> QED
    BY <2>1, <2>2, ReadFrame
<1>2. \A t : Carries(toHost[hsock[h]], t) <=> type = t \/ Carries(Tail(toHost[hsock[h]]), t)
  BY <1>1, CarriesLess
<1>3. Ends'
  BY <1>1 DEF LinkInv, Ends
<1>4. \A k \in clientEnd : hst'[owner[k]] = "up" =>
           hst[owner[k]] = "up" \/ Carries(toHost[k], "registered")
  <2>1. ASSUME NEW k \in clientEnd, owner[k] = h, type = "registered"
        PROVE  Carries(toHost[k], "registered")
    <3>1. k = hsock[h]
      BY <2>1 DEF LinkInv, Ends
    <3> QED
      BY <1>2, <2>1, <3>1
  <2>2. ASSUME NEW k \in clientEnd, owner[k] # h PROVE hst'[owner[k]] = hst[owner[k]]
    BY <2>2, HostTypes, Opened
  <2>3. ASSUME NEW k \in clientEnd, hst' = hst PROVE hst'[owner[k]] = hst[owner[k]]
    BY <2>3
  <2> QED
    BY <2>1, <2>2, <2>3
<1>5. Attends(h)
  BY <1>1, <1>2, <1>4 DEF Attends
<1> QED
  BY <1>3, <1>5, AttendedLinks

(* A host writes a frame, or does something with what it read                *)
LEMMA WriteLinks ==
    ASSUME Typed, LinkInv, NEW h \in Hosts, UNCHANGED <<routerVars, sessionOf, owner, routerEnd>>,
           UNCHANGED <<clientEnd, toHost, hst, hsock>>,
           \A k \in Sockets : Carries(toRouter'[k], "disconnect") => Carries(toRouter[k], "disconnect")
    PROVE  LinkInv'
<1>1. Ends' /\ Attends(h)
  BY DEF LinkInv, Ends, Attends
<1> QED
  BY <1>1, AttendedLinks

LEMMA ConnectLinks ==
    ASSUME Typed, LinkInv, NEW h \in Hosts, NEW up, Connect(h, up), UNCHANGED <<routerVars, sessionOf>>
    PROVE  LinkInv'
<1> DEFINE k == Len(owner) + 1
<1>1. /\ owner' = Append(owner, h) /\ k \in Sockets
      /\ clientEnd' = clientEnd \cup {k} /\ routerEnd' = routerEnd \cup {k}
      /\ toRouter' = [toRouter EXCEPT ![k] = <<Frame("register", 0, 0)>>]
      /\ hst' = [hst EXCEPT ![h] = "registering"] /\ hsock' = [hsock EXCEPT ![h] = k]
      /\ UNCHANGED toHost
  BY DEF Connect, Became
<1>2. /\ DOMAIN owner = 1..(k - 1) /\ DOMAIN owner' = 1..k /\ k \in Nat /\ k # 0 /\ k \notin DOMAIN owner
      /\ \A j \in DOMAIN owner : owner'[j] = owner[j] /\ j \in Sockets /\ owner[j] \in Hosts
      /\ owner'[k] = h
  BY <1>1, Appended, Opened DEF Typed, TypeOK, WireTypeOK
<1> HIDE DEF k
<1>3. UNCHANGED <<conns, bound, run, running>> /\ Conns' = Conns
      /\ \A c \in Conns : conns[c].sock \in DOMAIN owner /\ conns[c].sock \in Sockets
  BY Opened DEF routerVars, rows, memory, Conns, ConnRows
<1>4. /\ hsock \in [Hosts -> {0} \cup DOMAIN owner] /\ clientEnd \subseteq DOMAIN owner
      /\ hst \in [Hosts -> {"off", "registering", "up", "retry", "lost", "closed"}]
      /\ hsock[h] = 0 /\ k \notin clientEnd /\ toHost[k] = <<>>
      /\ \A g \in Hosts : hst[g] \in {"registering", "up"} <=> hsock[g] # 0
      /\ toRouter \in [Sockets -> Seq(HostFrames)]
  BY <1>1, <1>2, HostTypes DEF Connect, LinkInv, Ends
<1>5. \A j \in clientEnd : owner[j] # h
  BY <1>2, <1>4 DEF LinkInv, Ends
<1>6. Bindings'
  BY <1>1, <1>3 DEF LinkInv, Bindings
<1>7. Ends'
  <2>1. ASSUME NEW g \in Hosts, hsock'[g] # 0 PROVE hsock'[g] \in clientEnd' /\ owner'[hsock'[g]] = g
    BY <1>1, <1>2, <1>4, <2>1 DEF LinkInv, Ends
  <2>2. ASSUME NEW j \in clientEnd'
        PROVE  hsock'[owner'[j]] = j /\ \A i \in DOMAIN owner' : owner'[i] = owner'[j] => i <= j
    BY <1>1, <1>2, <1>4, <1>5, <2>2 DEF LinkInv, Ends
  <2>3. \A j \in Sockets \ clientEnd' : toHost'[j] = <<>>
    BY <1>1 DEF LinkInv, Ends
  <2> QED
    BY <2>1, <2>2, <2>3 DEF Ends
<1>8. Hangups'
  <2>1. ~Carries(<<Frame("register", 0, 0)>>, "disconnect")
    BY DEF Carries, Frame
  <2> QED
    BY <1>1, <1>4, <2>1 DEF LinkInv, Hangups
<1>9. Announced'
  <2>1. ASSUME NEW j \in clientEnd' \cap routerEnd',
               Carries(toHost'[j], "registered") \/ hst'[owner'[j]] = "up"
        PROVE  \E c \in Conns : /\ conns[c].sock = j
                                /\ c \in bound \/ Carries(toHost[j], "superseded")
    <3>1. j # k
      BY <1>1, <1>2, <1>4, <2>1, CarriesNothing
    <3>2. j \in clientEnd \cap routerEnd
      BY <1>1, <2>1, <3>1
    <3>3. hst'[owner'[j]] = hst[owner[j]]
      BY <1>1, <1>2, <1>4, <1>5, <3>2
    <3> QED
      BY <1>1, <2>1, <3>2, <3>3 DEF LinkInv, Announced
  <2> QED
    BY <1>1, <1>3, <2>1 DEF Announced
<1>10. Supersessions'
  BY <1>1, <1>2, <1>3 DEF LinkInv, Supersessions
<1> QED
  BY <1>6, <1>7, <1>8, <1>9, <1>10 DEF LinkInv

LEMMA HostLinks ==
    ASSUME Typed, LinkInv, NEW h \in Hosts, HostSteps(h), UNCHANGED <<routerVars, sessionOf>>
    PROVE  LinkInv'
<1>1. ASSUME Registered(h) PROVE LinkInv'
  BY <1>1, ReadLinks, HostTypes DEF Registered, Became
<1>2. ASSUME ReceiveDelivery(h) PROVE LinkInv'
  BY <1>2, ReadLinks DEF ReceiveDelivery
<1>3. ASSUME Superseded(h) \/ ConnectionLost(h) \/ RegistrationTimesOut(h) PROVE LinkInv'
  <2>1. DropClient(hsock[h]) /\ UNCHANGED <<owner, routerEnd, toRouter>>
    BY <1>3 DEF Superseded, ConnectionLost, RegistrationTimesOut
  <2>2. PICK state \in {"retry", "lost", "closed"} : Became(h, state, 0)
    BY <1>3 DEF Superseded, ConnectionLost, RegistrationTimesOut
  <2> QED
    BY <2>1, <2>2, DroppedClient, HangUpLinks DEF Became
<1>4. ASSUME HostCrash(h) PROVE LinkInv'
  BY <1>4, HungUp, HangUpLinks DEF HostCrash, Became
<1>5. ASSUME Close(h) PROVE LinkInv'
  <2> DEFINE f == Frame("disconnect", 0, 0)
  <2>1. f \in HostFrames /\ toRouter \in [Sockets -> Seq(HostFrames)]
    BY Types DEF Frame, HostFrames
  <2>2. toRouter' = toRouter \/ toRouter' = SendToRouter(toRouter, hsock[h], f)
    BY <1>5 DEF Close
  <2> HIDE DEF f
  <2>3. \A k \in Sockets : SendToRouter(toRouter, hsock[h], f)[k] =
            IF k = hsock[h] /\ hsock[h] \in routerEnd THEN Append(toRouter[k], f) ELSE toRouter[k]
    BY <2>1, ToRouters
  <2>4. \A k \in Sockets : Carries(toRouter'[k], "disconnect") =>
                 Carries(toRouter[k], "disconnect") \/ k = hsock[h]
    BY <2>2, <2>3
  <2> QED
    BY <1>5, <2>4, HungUp, HangUpLinks DEF Close, Became
<1>6. ASSUME SendHeartbeat(h, Due(h)) PROVE LinkInv'
  <2> DEFINE f == Frame("heartbeat", 0, 0)
  <2>1. f \in HostFrames /\ toRouter \in [Sockets -> Seq(HostFrames)] /\ f.type = "heartbeat"
    BY Types DEF Frame, HostFrames
  <2>2. toRouter' = SendToRouter(toRouter, hsock[h], f)
        /\ UNCHANGED <<hst, hsock, owner, clientEnd, routerEnd, toHost>>
    BY <1>6 DEF SendHeartbeat, hostVars
  <2> HIDE DEF f
  <2>3. \A k \in Sockets : SendToRouter(toRouter, hsock[h], f)[k] =
            IF k = hsock[h] /\ hsock[h] \in routerEnd THEN Append(toRouter[k], f) ELSE toRouter[k]
    BY <2>1, ToRouters
  <2>4. \A k \in Sockets : Carries(Append(toRouter[k], f), "disconnect") => Carries(toRouter[k], "disconnect")
    BY <2>1, CarriesMore
  <2> QED
    BY <2>2, <2>3, <2>4, WriteLinks
<1>7. ASSUME tail[h] # <<>>, NEW type \in {"accept", "reject"}, Reply(h, type) PROVE LinkInv'
  <2> DEFINE f == Frame(type, Head(tail[h]).d, Head(tail[h]).n)
  <2>1. f \in HostFrames /\ toRouter \in [Sockets -> Seq(HostFrames)]
        /\ \A j \in Sockets : toRouter'[j] = toRouter[j] \/ toRouter'[j] = Append(toRouter[j], f)
    BY <1>7, Replied, Types
  <2>2. f.type # "disconnect"
    BY DEF Frame
  <2> HIDE DEF f
  <2>3. \A k \in Sockets : Carries(Append(toRouter[k], f), "disconnect") => Carries(toRouter[k], "disconnect")
    BY <2>1, <2>2, CarriesMore
  <2> QED
    BY <1>7, <2>1, <2>3, WriteLinks DEF Reply
<1>8. ASSUME AcceptDuplicate(h) \/ EndDeliver(h) PROVE LinkInv'
  <2>1. tail[h] # <<>>
    BY <1>8, HostTypes DEF EndDeliver, AcceptDuplicate, MayDeliver
  <2>2. PICK type \in {"accept", "reject"} : Reply(h, type)
    BY <1>8 DEF EndDeliver, AcceptDuplicate
  <2> QED
    BY <1>7, <2>1, <2>2
<1>9. ASSUME DeliverToClosed(h) \/ BeginDeliver(h) PROVE LinkInv'
  BY <1>9, WriteLinks DEF DeliverToClosed, BeginDeliver, wire
<1>10. ASSUME ReconnectEnds(h) PROVE LinkInv'
  <2>1. UNCHANGED <<hsock, owner, clientEnd, routerEnd, toRouter, toHost>>
    BY <1>10, ReconnectKeeps DEF wire
  <2>2. \A k \in clientEnd : hst'[owner[k]] = "up" => hst[owner[k]] = "up"
    BY <1>10, ReconnectKeeps, HostTypes, Opened
  <2>3. Ends' /\ Attends(h)
    BY <2>1, <2>2 DEF LinkInv, Ends, Attends
  <2> QED
    BY <2>1, <2>3, AttendedLinks
<1> QED
  BY <1>1, <1>2, <1>3, <1>4, <1>5, <1>6, <1>8, <1>9, <1>10, ConnectLinks DEF HostSteps, HostStep, HostEnv

LEMMA LinkInvInit == Init => LinkInv
<1> SUFFICES ASSUME Init PROVE LinkInv
  OBVIOUS
<1>1. Conns = {} /\ bound = {} /\ clientEnd = {} /\ \A h \in Hosts : hsock[h] = 0
  BY DEF Init, WireInit, RouterInit, HostInit, Conns
<1>2. \A k \in Sockets : toRouter[k] = <<>> /\ toHost[k] = <<>>
  BY DEF Init, WireInit
<1> QED
  BY <1>1, <1>2, CarriesNothing DEF LinkInv, Bindings, Ends, Hangups, Announced, Supersessions

LEMMA LinkInvStep == ASSUME Typed, RowsInv, LinkInv, Steps PROVE LinkInv'
<1>1. ASSUME UNCHANGED <<routerVars, hostVars, wire, sessionOf>> PROVE LinkInv'
  BY <1>1 DEF routerVars, rows, memory, hostVars, wire, LinkInv, Bindings, Ends, Hangups,
              Announced, Supersessions, Conns, Carries
<1>2. ASSUME RouterSteps, UNCHANGED <<hostVars, sessionOf>> PROVE LinkInv'
  <2>1. CASE \E k \in Sockets : Register(k)
    BY <1>2, <2>1, RegisterLinks
  <2>2. CASE Serves /\ Continues
    BY <1>2, <2>2, ServesLinks
  <2>3. CASE ~(\E k \in Sockets : Register(k))
    BY <1>2, <2>2, <2>3, RouterServes, RouterContinues DEF LinkInv
  <2> QED
    BY <2>1, <2>3
<1> QED
  BY <1>1, <1>2, HostLinks DEF Steps

Linked == Typed /\ RowsInv /\ LinkInv

LEMMA LinkedInit == Init => Linked
  BY TypedInit, RowsInvInit, LinkInvInit DEF Linked

LEMMA LinkedStep == Linked /\ Steps => Linked'
  BY TypedStep, RowsInvStep, LinkInvStep DEF Linked

LEMMA LinkedNext == Linked /\ [Next]_vars => Linked'
  BY LinkedStep, NextSteps DEF Linked

(* A host that believes it is connected, over a socket the router has open,  *)
(* is bound to it (externalConnections), or is about to read that it was     *)
(* superseded.                                                               *)
THEOREM HostsAreNotForgotten == Spec => []NoForgottenHost
<1>1. Linked => NoForgottenHost
  <2> SUFFICES ASSUME Linked, NEW h \in Hosts, hst[h] = "up", hsock[h] \in routerEnd
               PROVE  \E c \in Conns : /\ conns[c].sock = hsock[h]
                                       /\ c \in bound \/ Carries(toHost[hsock[h]], "superseded")
    BY DEF NoForgottenHost, Carries
  <2>1. hsock[h] \in clientEnd /\ owner[hsock[h]] = h
    BY HostTypes DEF Linked, LinkInv, Ends
  <2> QED
    BY <2>1 DEF Linked, LinkInv, Announced
<1> QED
  BY <1>1, LinkedInit, LinkedNext, PTL DEF Spec

(* session_superseded ends a host for good, and no host reads it on account  *)
(* of its own reconnection.                                                  *)
THEOREM HostsDoNotSupersedeThemselves == Spec => []NoSelfSupersede
<1>1. Linked => NoSelfSupersede
  BY DEF Linked, LinkInv, Supersessions, NoSelfSupersede, Carries
<1> QED
  BY <1>1, LinkedInit, LinkedNext, PTL DEF Spec

-----------------------------------------------------------------------------
(* What a host remembers *)

(* What a host is delivering is not among what it remembers to have taken    *)
Minds == \A h \in Hosts : busy[h] => Head(tail[h]).d \notin Remembered(h)
WindowInv == NoRepeatInWindow /\ Minds

(* A step in which no host takes anything or begins to                       *)
Unhanded ==
    /\ UNCHANGED handed
    /\ \A h \in Hosts : busy'[h] => busy[h] /\ Head(tail'[h]) = Head(tail[h])

LEMMA UnhandedWindow == ASSUME WindowInv, Unhanded PROVE WindowInv'
  BY DEF WindowInv, Minds, NoRepeatInWindow, Unhanded, Remembered

LEMMA ReceiveKeepsHead == ASSUME Typed, NEW h \in Hosts, ReceiveDelivery(h) PROVE Unhanded
<1> DEFINE f == Head(toHost[hsock[h]])
           e == [sock |-> hsock[h], d |-> f.d, n |-> f.n]
<1>1. Receives(h, "deliver") /\ Read(h) /\ tail' = [tail EXCEPT ![h] = Append(@, e)]
      /\ UNCHANGED <<busy, handed>>
  BY DEF ReceiveDelivery
<1>2. f \in RouterFrames /\ f.type = "deliver" /\ hsock[h] \in DOMAIN owner
  BY <1>1, ReadFrame DEF Receives
<1>3. e \in Queued
  BY <1>2 DEF Queued, RouterFrames
<1> HIDE DEF e
<1>4. ASSUME tail[h] # <<>> PROVE Head(Append(tail[h], e)) = Head(tail[h])
  <2>1. /\ tail[h] \in Seq(Queued) /\ 1 \in DOMAIN tail[h] /\ Len(tail[h]) \in Nat
        /\ Head(tail[h]) = tail[h][1]
    BY <1>4, Dequeued, HostTypes
  <2>2. Append(tail[h], e)[1] = tail[h][1] /\ Append(tail[h], e) \in Seq(Queued)
    BY <1>3, <2>1, Appended
  <2> QED
    BY <2>1, <2>2
<1>5. tail \in [Hosts -> Seq(Queued)] /\ \A g \in Hosts : busy[g] => tail[g] # <<>>
  BY HostTypes
<1> QED
  BY <1>1, <1>4, <1>5 DEF Unhanded

LEMMA HostUnhanded ==
    ASSUME Typed, NEW h \in Hosts, HostSteps(h), ~BeginDeliver(h), ~EndDeliver(h)
    PROVE  Unhanded
<1>1. ASSUME UNCHANGED <<tail, busy, handed>> PROVE Unhanded
  BY <1>1 DEF Unhanded
<1>2. ASSUME Registered(h) \/ Superseded(h) \/ ConnectionLost(h) \/ Connect(h, running)
             \/ ReconnectEnds(h) \/ RegistrationTimesOut(h) \/ Close(h)
             \/ SendHeartbeat(h, Due(h))
      PROVE  UNCHANGED <<tail, busy, handed>>
  BY <1>2 DEF Registered, Superseded, ConnectionLost, ReconnectEnds, Connect, RegistrationTimesOut, Close,
              SendHeartbeat, hostVars
<1>3. ASSUME HostCrash(h) PROVE Unhanded
  <2>1. tail' = [tail EXCEPT ![h] = <<>>] /\ busy' = [busy EXCEPT ![h] = FALSE] /\ UNCHANGED handed
    BY <1>3 DEF HostCrash
  <2> QED
    BY <2>1, HostTypes DEF Unhanded
<1>4. ASSUME DeliverToClosed(h) \/ AcceptDuplicate(h) PROVE Unhanded
  <2>1. tail' = [tail EXCEPT ![h] = Tail(@)] /\ UNCHANGED <<busy, handed>> /\ ~busy[h]
    BY <1>4 DEF DeliverToClosed, AcceptDuplicate, Reply, MayDeliver
  <2> QED
    BY <2>1, HostTypes DEF Unhanded
<1> QED
  BY <1>1, <1>2, <1>3, <1>4, ReceiveKeepsHead DEF HostSteps, HostStep, HostEnv

LEMMA BeginWindow == ASSUME Typed, WindowInv, NEW h \in Hosts, BeginDeliver(h) PROVE WindowInv'
<1>1. Head(tail[h]).d \notin Remembered(h) /\ busy' = [busy EXCEPT ![h] = TRUE]
      /\ UNCHANGED <<tail, handed>>
  BY DEF BeginDeliver
<1>2. busy \in [Hosts -> BOOLEAN]
  BY HostTypes
<1>3. NoRepeatInWindow'
  BY <1>1 DEF WindowInv, NoRepeatInWindow
<1>4. \A g \in Hosts : Remembered(g)' = Remembered(g)
  BY <1>1 DEF Remembered
<1>5. Minds'
  BY <1>1, <1>2, <1>4 DEF WindowInv, Minds
<1> QED
  BY <1>3, <1>5 DEF WindowInv

LEMMA EndWindow == ASSUME Typed, WindowInv, NEW h \in Hosts, EndDeliver(h) PROVE WindowInv'
<1> DEFINE d == Head(tail[h]).d
<1>1. /\ busy[h] /\ busy' = [busy EXCEPT ![h] = FALSE]
      /\ tail' = [tail EXCEPT ![h] = Tail(@)]
      /\ handed' = handed \/ handed' = [handed EXCEPT ![h] = Append(@, d)]
  BY DEF EndDeliver, Reply
<1>2. d \notin Remembered(h) /\ d \in Deliveries
  <2>1. tail[h] # <<>>
    BY <1>1, HostTypes
  <2> QED
    BY <1>1, <2>1, Dequeued DEF WindowInv, Minds, Queued
<1> HIDE DEF d
<1>3. /\ handed \in [Hosts -> Seq(Deliveries)] /\ busy \in [Hosts -> BOOLEAN]
      /\ tail \in [Hosts -> Seq(Queued)]
  BY HostTypes
<1>4. ASSUME NEW g \in Hosts, g # h
      PROVE  busy'[g] = busy[g] /\ tail'[g] = tail[g] /\ handed'[g] = handed[g]
  BY <1>1, <1>3, <1>4
<1>5. Minds'
  <2> SUFFICES ASSUME NEW g \in Hosts, busy'[g] PROVE Head(tail'[g]).d \notin Remembered(g)'
    BY DEF Minds
  <2>1. g # h
    BY <1>1, <1>3
  <2> QED
    BY <1>4, <2>1 DEF WindowInv, Minds, Remembered
<1>6. NoRepeatInWindow'
  <2> SUFFICES ASSUME NEW g \in Hosts, NEW i \in DOMAIN handed'[g], NEW j \in DOMAIN handed'[g],
                      i < j, handed'[g][i] = handed'[g][j]
               PROVE  j - i > DedupLimit
    BY DEF NoRepeatInWindow
  <2>1. CASE handed'[g] = handed[g]
    BY <2>1 DEF WindowInv, NoRepeatInWindow
  <2>2. CASE handed'[g] # handed[g]
    <3> DEFINE q == handed[h]
    <3>1. g = h /\ handed'[g] = Append(q, d)
      BY <1>1, <1>3, <1>4, <2>2
    <3>2. /\ Len(q) \in Nat /\ DOMAIN q = 1..Len(q) /\ DOMAIN Append(q, d) = 1..(Len(q) + 1)
          /\ \A m \in DOMAIN q : Append(q, d)[m] = q[m]
          /\ Append(q, d)[Len(q) + 1] = d
      <4>1. q \in Seq(Deliveries)
        BY <1>3
      <4> QED
        BY <1>2, <4>1, Appended
    <3>3. \A m \in DOMAIN q : q[m] = d => m <= Len(q) - DedupLimit
      <4>1. ASSUME NEW m \in DOMAIN q, q[m] = d, m > Len(q) - DedupLimit PROVE FALSE
        <5>1. d \in {q[n] : n \in {l \in DOMAIN q : l > Len(q) - DedupLimit}}
          BY <4>1
        <5> QED
          BY <1>2, <5>1 DEF Remembered
      <4> QED
        BY <3>2, <4>1
    <3>4. \A m, n \in DOMAIN q : m < n /\ q[m] = q[n] => n - m > DedupLimit
      BY DEF WindowInv, NoRepeatInWindow
    <3>5. i \in 1..(Len(q) + 1) /\ j \in 1..(Len(q) + 1)
          /\ Append(q, d)[i] = Append(q, d)[j]
      BY <3>1, <3>2
    <3> HIDE DEF q
    <3>6. CASE j \in DOMAIN q
      <4>1. i \in DOMAIN q /\ q[i] = q[j]
        BY <3>2, <3>5, <3>6
      <4> QED
        BY <3>4, <3>6, <4>1
    <3>7. CASE j = Len(q) + 1
      <4>0. i \in DOMAIN q
        BY <3>2, <3>5, <3>7
      <4>1. q[i] = d
        BY <3>2, <3>5, <3>7, <4>0
      <4>2. i <= Len(q) - DedupLimit
        BY <3>3, <4>0, <4>1
      <4> QED
        BY <3>2, <3>7, <4>0, <4>2
    <3> QED
      BY <3>2, <3>5, <3>6, <3>7
  <2> QED
    BY <2>1, <2>2
<1> QED
  BY <1>5, <1>6 DEF WindowInv

LEMMA WindowStep == Typed /\ WindowInv /\ Steps => WindowInv'
<1> SUFFICES ASSUME Typed, WindowInv, Steps PROVE WindowInv'
  OBVIOUS
<1>1. ASSUME UNCHANGED hostVars PROVE WindowInv'
  BY <1>1, UnhandedWindow DEF hostVars, Unhanded
<1>2. ASSUME NEW h \in Hosts, HostSteps(h) PROVE WindowInv'
  BY <1>2, HostUnhanded, UnhandedWindow, BeginWindow, EndWindow
<1> QED
  BY <1>1, <1>2 DEF Steps

LEMMA WindowNext == Typed /\ WindowInv /\ [Next]_vars => WindowInv'
  BY WindowStep, NextSteps

LEMMA WindowInit == Init => WindowInv
  BY DEF Init, HostInit, WindowInv, Minds, NoRepeatInWindow

(* acceptedDeliveries: whatever the router pushes and however often, a       *)
(* process takes the same delivery twice only after more than DedupLimit     *)
(* hand-overs.                                                               *)
THEOREM NothingTakenTwice == Spec => []NoRepeatInWindow
<1>1. WindowInv => NoRepeatInWindow
  BY DEF WindowInv
<1> QED
  BY <1>1, TypedInit, TypedNext, WindowInit, WindowNext, PTL DEF Spec

-----------------------------------------------------------------------------
(* Attempts *)

(* The sessions a delivery is meant for, by the tables                       *)
Meant(s, d) ==
    /\ d \in DOMAIN deliveries
    /\ \/ deliveries[d] = [kind |-> "session", to |-> s]
       \/ /\ deliveries[d] = [kind |-> "principal", to |-> PrincipalOf[s]]
          /\ PrincipalOf[s] \in active
          /\ d > checkpoint[PrincipalOf[s]]

(* What is in flight is the last attempt of its delivery, of this process of *)
(* the router, and its result is open                                        *)
InFlight(d) ==
    /\ running /\ accepted[d] = 0
    /\ op[d].n = Len(attempts[d]) /\ op[d].n # 0
    /\ attempts[d][op[d].n] = [conn |-> op[d].conn, result |-> "started"]
    /\ conns[op[d].conn].router = run

(* The attempts of a delivery                                                *)
Tried(d) ==
    /\ \A n \in DOMAIN attempts[d] :
          /\ Meant(conns[attempts[d][n].conn].session, d)
          /\ attempts[d][n].result = "returned" <=> accepted[d] = n
    /\ accepted[d] # 0 => accepted[d] \in DOMAIN attempts[d]

OpsInv == \A d \in Deliveries : (op[d].pc # "none" => InFlight(d)) /\ Tried(d)

(* A drain looks at what there was when it began                             *)
Uppers ==
    \A c \in Sockets :
        /\ drain[c].pc # "off" => c \in Conns /\ running
        /\ drain[c].pc = "on" =>
              drain[c].cur <= drain[c].upper /\ drain[c].upper <= Len(deliveries)

(* What no step undoes                                                       *)
Endures ==
    /\ DOMAIN deliveries \subseteq DOMAIN deliveries'
    /\ \A d \in DOMAIN deliveries : deliveries'[d] = deliveries[d]
    /\ active \subseteq active' /\ \A p \in active : checkpoint'[p] = checkpoint[p]
    /\ \A c \in Conns : /\ c \in Conns'
                        /\ conns'[c].session = conns[c].session
                        /\ conns'[c].router = conns[c].router

(* What a step does about a delivery: nothing but to let the operation get   *)
(* on or to forget it, the next attempt, or the result of the last           *)
Steady(d) ==
    /\ attempts'[d] = attempts[d] /\ accepted'[d] = accepted[d]
    /\ op'[d].pc # "none" =>
          op[d].pc # "none" /\ op'[d].conn = op[d].conn /\ op'[d].n = op[d].n

Through(d, c) ==
    /\ Current(c) /\ Meant(conns[c].session, d)
    /\ attempts'[d] = Append(attempts[d], [conn |-> c, result |-> "started"])
    /\ op'[d].conn = c /\ op'[d].n = Len(attempts[d]) + 1

Tries(d) ==
    /\ op[d].pc = "none" /\ accepted[d] = 0 /\ accepted'[d] = 0
    /\ op'[d].pc \in {"queueing", "waiting"}
    /\ \E c \in bound : Through(d, c)

EndsWith(d, r) ==
    /\ attempts'[d] = Marked(attempts[d], op[d].n, r)
    /\ accepted'[d] = IF r = "returned" THEN op[d].n ELSE accepted[d]
    /\ r = "returned" => op[d].ok /\ op[d].pc \in {"answered", "resolved"} /\ Fresh(op[d].conn)

Concludes(d) ==
    /\ op[d].pc # "none" /\ op'[d].pc = "none"
    /\ \E r \in {"returned", "rejected", "stale"} : EndsWith(d, r)

Works ==
    /\ \A d \in Deliveries : Steady(d) \/ Tries(d) \/ Concludes(d)
    /\ Endures
    /\ \A d \in Deliveries : op'[d].pc # "none" => running' /\ run' = run

LEMMA MeantEndures ==
    ASSUME Endures PROVE \A s \in Sessions : \A d : Meant(s, d) => Meant(s, d)'
  BY DEF Endures, Meant

LEMMA SteadyKeeps ==
    ASSUME Typed, OpsInv, Works, NEW d \in Deliveries, Steady(d)
    PROVE  (op'[d].pc # "none" => InFlight(d)') /\ Tried(d)'
<1>1. /\ \A n \in DOMAIN attempts[d] : attempts[d][n].conn \in Conns
      /\ \A c \in Conns : conns[c].session \in Sessions
  BY Opened DEF Attempts, ConnRows, Conns
<1>2. Tried(d)'
  BY <1>1, MeantEndures DEF OpsInv, Tried, Steady, Works, Endures
<1>3. ASSUME op'[d].pc # "none" PROVE InFlight(d)'
  <2>1. op[d].conn \in Conns
    <3>1. op[d] \in Ops /\ op[d].pc # "none"
      BY <1>3, Types DEF Steady
    <3> QED
      BY <3>1 DEF Ops, Conns
  <2> QED
    BY <1>3, <2>1 DEF OpsInv, InFlight, Steady, Works, Endures
<1> QED
  BY <1>2, <1>3

LEMMA TriesKeeps ==
    ASSUME Typed, OpsInv, Works, NEW d \in Deliveries, Tries(d)
    PROVE  (op'[d].pc # "none" => InFlight(d)') /\ Tried(d)'
<1>1. /\ \A n \in DOMAIN attempts[d] : attempts[d][n].conn \in Conns
      /\ \A c \in Conns : conns[c].session \in Sessions
      /\ Len(attempts[d]) \in Nat
  BY Opened DEF Attempts, ConnRows, Conns
<1>2. PICK c \in bound : Through(d, c)
  BY DEF Tries
<1> DEFINE q == attempts[d]
           e == [conn |-> c, result |-> "started"]
<1>3. q \in Seq(Attempts) /\ e \in Attempts /\ c \in Conns
  BY <1>2, Types DEF Attempts, Conns
<1>4. attempts'[d] = Append(q, e) /\ op'[d].conn = c /\ op'[d].n = Len(q) + 1
  BY <1>2 DEF Through
<1>5. e.conn = c /\ e.result = "started"
  OBVIOUS
<1> HIDE DEF q, e
<1>6. /\ DOMAIN q = 1..Len(q) /\ Len(q) \in Nat /\ DOMAIN Append(q, e) = 1..(Len(q) + 1)
      /\ Len(Append(q, e)) = Len(q) + 1
      /\ \A i \in DOMAIN q : Append(q, e)[i] = q[i]
      /\ Append(q, e)[Len(q) + 1] = e
  BY <1>3, Appended
<1>7. accepted[d] = 0 /\ accepted'[d] = 0
  BY DEF Tries
<1>8. ASSUME NEW n \in DOMAIN attempts'[d]
      PROVE  Meant(conns[attempts'[d][n].conn].session, d) /\ attempts'[d][n].result # "returned"
  <2>1. CASE n \in DOMAIN q
    BY <1>4, <1>6, <1>7, <2>1 DEF OpsInv, Tried, q
  <2>2. CASE n = Len(q) + 1
    BY <1>2, <1>4, <1>5, <1>6, <2>2 DEF Through
  <2> QED
    BY <1>4, <1>6, <2>1, <2>2
<1>9. \A n \in DOMAIN attempts'[d] : attempts'[d][n].conn \in Conns
  <2>1. \A n \in DOMAIN q : q[n].conn \in Conns
    BY <1>1 DEF q
  <2> QED
    BY <1>3, <1>4, <1>5, <1>6, <2>1
<1>10. \A n \in DOMAIN attempts'[d] : n # 0
  BY <1>4, <1>6
<1>11. Tried(d)'
  <2>1. ASSUME NEW n \in DOMAIN attempts'[d]
        PROVE  Meant(conns[attempts[d][n].conn].session, d)'
    <3>1. attempts'[d][n].conn \in Conns
      BY <1>9
    <3>2. conns'[attempts'[d][n].conn].session = conns[attempts'[d][n].conn].session
          /\ conns[attempts'[d][n].conn].session \in Sessions
      BY <1>1, <3>1 DEF Works, Endures
    <3> QED
      BY <1>8, <3>2, MeantEndures DEF Works
  <2> QED
    BY <1>7, <1>8, <1>10, <2>1 DEF Tried
<1>12. InFlight(d)'
  <2>1. running' /\ run' = run
    BY DEF Tries, Works
  <2>2. conns'[c].router = run
    BY <1>2, <1>3 DEF Through, Current, Works, Endures
  <2> QED
    BY <1>4, <1>6, <1>7, <2>1, <2>2 DEF InFlight, e
<1> QED
  BY <1>11, <1>12

LEMMA EndsWithRows ==
    ASSUME Typed, NEW d \in Deliveries, NEW r \in {"returned", "rejected", "stale"}, EndsWith(d, r)
    PROVE  /\ DOMAIN attempts'[d] = DOMAIN attempts[d]
           /\ \A n \in DOMAIN attempts[d] :
                 /\ attempts'[d][n].conn = attempts[d][n].conn
                 /\ attempts'[d][n].result = IF n = op[d].n THEN r ELSE attempts[d][n].result
<1> DEFINE m == op[d].n
<1>1. attempts'[d] = Marked(attempts[d], m, r)
  BY DEF EndsWith
<1>2. /\ DOMAIN Marked(attempts[d], m, r) = DOMAIN attempts[d]
      /\ \A i \in DOMAIN attempts[d] :
            /\ Marked(attempts[d], m, r)[i].conn = attempts[d][i].conn
            /\ Marked(attempts[d], m, r)[i].result = IF i = m THEN r ELSE attempts[d][i].result
  <2>1. r \in {"started", "returned", "rejected", "stale"}
    OBVIOUS
  <2> HIDE DEF m
  <2>2. DOMAIN Marked(attempts[d], m, r) = DOMAIN attempts[d]
    BY Zenon DEF Marked
  <2>3. ASSUME NEW i \in DOMAIN attempts[d]
        PROVE  /\ Marked(attempts[d], m, r)[i].conn = attempts[d][i].conn
               /\ Marked(attempts[d], m, r)[i].result = IF i = m THEN r ELSE attempts[d][i].result
    <3>1. attempts[d][i] \in Attempts /\ DOMAIN attempts[d] = 1..Len(attempts[d])
      BY Opened
    <3>2. CASE i = m
      <4>1. Marked(attempts[d], m, r)[i] = [attempts[d][i] EXCEPT !.result = r]
        BY <3>1, <3>2 DEF Marked
      <4> QED
        BY <3>1, <3>2, <4>1 DEF Attempts
    <3>3. CASE i # m
      <4>1. Marked(attempts[d], m, r)[i] = attempts[d][i]
        BY <3>1, <3>3 DEF Marked
      <4> QED
        BY <3>3, <4>1
    <3> QED
      BY <3>2, <3>3
  <2> QED
    BY <2>2, <2>3
<1> HIDE DEF m
<1>3. /\ DOMAIN attempts'[d] = DOMAIN attempts[d]
      /\ \A n \in DOMAIN attempts[d] :
            /\ attempts'[d][n].conn = attempts[d][n].conn
            /\ attempts'[d][n].result = IF n = m THEN r ELSE attempts[d][n].result
  BY <1>1, <1>2
<1> QED
  BY <1>3 DEF m

LEMMA ConcludesKeeps ==
    ASSUME Typed, OpsInv, Works, NEW d \in Deliveries, Concludes(d)
    PROVE  (op'[d].pc # "none" => InFlight(d)') /\ Tried(d)'
<1>1. /\ \A n \in DOMAIN attempts[d] : attempts[d][n].conn \in Conns
      /\ \A c \in Conns : conns[c].session \in Sessions
      /\ Len(attempts[d]) \in Nat /\ DOMAIN attempts[d] = 1..Len(attempts[d])
  BY Opened DEF Attempts, ConnRows, Conns
<1>2. PICK r \in {"returned", "rejected", "stale"} : EndsWith(d, r)
  BY DEF Concludes
<1> DEFINE m == op[d].n
<1>3. m \in DOMAIN attempts[d] /\ accepted[d] = 0
      /\ \A n \in DOMAIN attempts[d] : attempts[d][n].result # "returned"
  <2>1. InFlight(d) /\ Tried(d)
    BY DEF OpsInv, Concludes
  <2>2. m \in DOMAIN attempts[d] /\ accepted[d] = 0
    BY <1>1, <2>1 DEF InFlight
  <2> QED
    BY <1>1, <2>1, <2>2 DEF Tried
<1>4. /\ DOMAIN attempts'[d] = DOMAIN attempts[d]
      /\ \A n \in DOMAIN attempts[d] :
            /\ attempts'[d][n].conn = attempts[d][n].conn
            /\ attempts'[d][n].result = IF n = m THEN r ELSE attempts[d][n].result
      /\ accepted'[d] = IF r = "returned" THEN m ELSE 0
  BY <1>2, <1>3, EndsWithRows DEF EndsWith
<1> HIDE DEF m
<1>5. ASSUME NEW n \in DOMAIN attempts[d]
      PROVE  /\ Meant(conns[attempts[d][n].conn].session, d)'
             /\ attempts'[d][n].result = "returned" <=> accepted'[d] = n
  <2>1. attempts[d][n].conn \in Conns
    BY <1>1
  <2>2. conns'[attempts'[d][n].conn].session = conns[attempts[d][n].conn].session
        /\ conns[attempts[d][n].conn].session \in Sessions
    BY <1>1, <1>4, <2>1 DEF Works, Endures
  <2>3. Meant(conns[attempts[d][n].conn].session, d)
    BY DEF OpsInv, Tried
  <2>4. Meant(conns[attempts[d][n].conn].session, d)'
    BY <2>2, <2>3, MeantEndures DEF Works
  <2>5. n # 0
    BY <1>1
  <2>6. attempts'[d][n].result = "returned" <=> accepted'[d] = n
    BY <1>3, <1>4, <2>5
  <2> QED
    BY <2>4, <2>6
<1> QED
  BY <1>3, <1>4, <1>5 DEF Tried, Concludes

LEMMA WorksOps == ASSUME Typed, OpsInv, Works PROVE OpsInv'
  BY SteadyKeeps, TriesKeeps, ConcludesKeeps DEF Works, OpsInv

LEMMA OpsMove ==
    ASSUME OpsInv, KeepRows, UNCHANGED <<deliveries, attempts, accepted>>,
           \A d \in Deliveries : op'[d].pc # "none" =>
               /\ op[d].pc # "none" /\ op'[d].conn = op[d].conn /\ op'[d].n = op[d].n
               /\ UNCHANGED <<run, running>>
    PROVE  Works
<1>1. Endures
  BY DEF KeepRows, Kept, Endures, Conns
<1>2. \A d \in Deliveries : op[d].pc # "none" => running
  BY DEF OpsInv, InFlight
<1>3. \A d \in Deliveries : Steady(d)
  BY DEF Steady
<1>4. \A d \in Deliveries : op'[d].pc # "none" => running' /\ run' = run
  BY <1>2
<1> QED
  BY <1>1, <1>3, <1>4 DEF Works

LEMMA OpsStay ==
    ASSUME OpsInv, KeepRows, UNCHANGED <<deliveries, attempts, accepted, op, run, running>>
    PROVE  Works
  BY OpsMove

LEMMA DropWorks == ASSUME Typed, OpsInv, NEW k \in Sockets, DropSocket(k) PROVE Works
<1> DEFINE gone == ConnectionsOf(k) \cap bound
<1>1. /\ op' = RejectPending(op, gone) /\ conns' = CloseRows(conns, gone)
      /\ UNCHANGED <<deliveries, attempts, accepted, run, running, lastGen, active, checkpoint>>
  BY DEF DropSocket
<1> HIDE DEF gone
<1>2. KeepRows
  BY <1>1, ClosedRows
<1>3. \A d \in Deliveries : op'[d].pc # "none" =>
         op[d].pc # "none" /\ op'[d].conn = op[d].conn /\ op'[d].n = op[d].n
  BY <1>1, Rejected
<1> QED
  BY <1>1, <1>2, <1>3, OpsMove

LEMMA RegisterWorks ==
    ASSUME Typed, RowsInv, OpsInv, NEW k \in Sockets, Register(k) PROVE Works
<1> DEFINE s == sessionOf[owner[k]]
<1>1. /\ op' = RejectPending(op, OpenRows(s))
      /\ UNCHANGED <<deliveries, attempts, accepted, run, running>>
      /\ checkpoint' = IF PrincipalOf[s] \in active THEN checkpoint
                       ELSE [checkpoint EXCEPT ![PrincipalOf[s]] = Len(deliveries)]
  BY DEF Register
<1>2. /\ s \in Sessions /\ active' = active \cup {PrincipalOf[s]}
      /\ \A c \in Conns : c \in Conns' /\ Kept(conns[c], conns'[c])
  BY NewRow
<1> HIDE DEF s
<1>3. checkpoint \in [Principals -> 0..MaxBacklog] /\ active \subseteq Principals
  BY DEF Typed, TypeOK, RouterTypeOK
<1>4. \A p \in active : checkpoint'[p] = checkpoint[p]
  BY <1>1, <1>3
<1>5. Endures
  BY <1>1, <1>2, <1>4 DEF Endures, Kept
<1>6. \A d \in Deliveries : op'[d].pc # "none" =>
         op[d].pc # "none" /\ op'[d].conn = op[d].conn /\ op'[d].n = op[d].n
  BY <1>1, Rejected
<1>7. \A d \in Deliveries : op[d].pc # "none" => running
  BY DEF OpsInv, InFlight
<1>8. \A d \in Deliveries : Steady(d)
  BY <1>1, <1>6 DEF Steady
<1>9. \A d \in Deliveries : op'[d].pc # "none" => running' /\ run' = run
  BY <1>1, <1>6, <1>7
<1> QED
  BY <1>5, <1>8, <1>9 DEF Works

LEMMA HostOutcomeWorks ==
    ASSUME Typed, OpsInv, NEW k \in Sockets, NEW type \in {"accept", "reject"}, HostOutcome(k, type)
    PROVE  Works
<1> DEFINE f == Head(toRouter[k])
<1>1. /\ op' = op \/ (op[f.d].pc = "waiting" /\
                      op' = [op EXCEPT ![f.d].pc = "answered", ![f.d].ok = (type = "accept")])
      /\ UNCHANGED <<rows, run, running>>
  BY DEF HostOutcome, Pending
<1> HIDE DEF f
<1>2. \A d \in Deliveries : op'[d].pc # "none" =>
         op[d].pc # "none" /\ op'[d].conn = op[d].conn /\ op'[d].n = op[d].n
  <2>1. \A d \in Deliveries : op[d] \in Ops
    BY Types
  <2>2. op \in [Deliveries -> Ops]
    BY Types
  <2> QED
    BY <1>1, <2>1, <2>2 DEF Ops
<1>3. KeepRows
  BY <1>1, SameRows DEF rows
<1> QED
  BY <1>1, <1>2, <1>3, OpsMove DEF rows

LEMMA StoredWorks == ASSUME Typed, OpsInv, NEW t \in Targets, Stored(t) PROVE Works
<1>1. deliveries' = Append(deliveries, t)
      /\ UNCHANGED <<active, checkpoint, conns, attempts, accepted, op, run, running>>
  BY DEF Stored, memory
<1>2. deliveries \in Seq(Targets)
  BY DEF Typed, TypeOK, RouterTypeOK
<1>3. DOMAIN deliveries \subseteq DOMAIN deliveries'
      /\ \A d \in DOMAIN deliveries : deliveries'[d] = deliveries[d]
  BY <1>1, <1>2, Appended
<1>4. Endures
  BY <1>1, <1>3 DEF Endures, Conns
<1>5. \A d \in Deliveries : Steady(d) /\ (op'[d].pc # "none" => running' /\ run' = run)
  BY <1>1 DEF Steady, OpsInv, InFlight
<1> QED
  BY <1>4, <1>5 DEF Works

(* A dispatch concerns one delivery, and goes through one connection         *)
LEMMA AttemptWorks ==
    ASSUME Typed, OpsInv, KeepRows, NEW d \in Deliveries, NEW c, Attempt(d, c), op[d].pc = "none",
           Current(c), Meant(conns[c].session, d), running,
           UNCHANGED <<deliveries, accepted, run, running>>
    PROVE  Works
<1> DEFINE e == [conn |-> c, result |-> "started"]
           o == [pc |-> IF conns[c].session \in InRouter THEN "queueing" ELSE "waiting",
                 conn |-> c, n |-> Len(attempts[d]) + 1, ok |-> FALSE]
<1>1. /\ attempts' = [attempts EXCEPT ![d] = Append(@, e)] /\ op' = [op EXCEPT ![d] = o]
      /\ accepted[d] = 0 /\ c \in bound
  BY DEF Attempt
<1>2. o.pc \in {"queueing", "waiting"} /\ o.conn = c /\ o.n = Len(attempts[d]) + 1
  OBVIOUS
<1> HIDE DEF o
<1>3. attempts \in [Deliveries -> Seq(Attempts)] /\ op \in [Deliveries -> Ops]
  BY Types
<1>4. attempts'[d] = Append(attempts[d], e) /\ op'[d] = o
  BY <1>1, <1>3
<1>5. Tries(d)
  BY <1>1, <1>2, <1>4 DEF Tries, Through
<1>6. \A b \in Deliveries \ {d} : Steady(b)
  BY <1>1, <1>3 DEF Steady
<1>7. Endures
  BY DEF KeepRows, Kept, Endures, Conns
<1> QED
  BY <1>5, <1>6, <1>7 DEF Works

LEMMA Resolved ==
    ASSUME Typed, NEW d \in DOMAIN deliveries, NEW c \in Resolve(d)
    PROVE  Current(c) /\ Meant(conns[c].session, d)
<1>1. deliveries[d] \in Targets
  BY Opened
<1>2. CASE deliveries[d].kind = "principal"
  <2>1. /\ deliveries[d].to \in active /\ d > checkpoint[deliveries[d].to] /\ Current(c)
        /\ PrincipalOf[conns[c].session] = deliveries[d].to
    BY <1>2 DEF Resolve, Newest
  <2>2. deliveries[d] = [kind |-> "principal", to |-> deliveries[d].to]
    BY <1>1, <1>2 DEF Targets
  <2> QED
    BY <2>1, <2>2 DEF Meant
<1>3. CASE deliveries[d].kind # "principal"
  <2>1. conns[c].session = deliveries[d].to /\ Current(c)
    BY <1>3 DEF Resolve, Newest
  <2>2. deliveries[d] = [kind |-> "session", to |-> deliveries[d].to]
    BY <1>1, <1>3 DEF Targets
  <2> QED
    BY <2>1, <2>2 DEF Meant
<1> QED
  BY <1>2, <1>3

LEMMA NotifiedWorks ==
    ASSUME Typed, OpsInv, NEW d \in Deliveries, Notified(d) PROVE Works
<1>1. /\ op[d].pc = "none" /\ running /\ Dispatch(d, Resolve(d)) /\ d \in DOMAIN deliveries
      /\ UNCHANGED <<deliveries, active, checkpoint, lastGen, conns, accepted, run, running>>
  BY DEF Notified, HandleNotify, Settled
<1>2. KeepRows
  BY <1>1, SameRows
<1>3. CASE UNCHANGED <<attempts, op, toHost>>
  BY <1>1, <1>2, <1>3, OpsStay
<1>4. CASE \E c \in Resolve(d) : Attempt(d, c)
  BY <1>1, <1>2, <1>4, Resolved, AttemptWorks
<1> QED
  BY <1>1, <1>3, <1>4, Dispatches

LEMMA Backlogged ==
    ASSUME Typed, RowsInv, Uppers, NEW c \in Sockets, Runnable(c), NEW d \in Backlog(c)
    PROVE  d \in Deliveries /\ c \in Conns /\ Meant(conns[c].session, d)
<1>1. drain[c].upper \in 0..MaxBacklog /\ drain[c].cur \in 0..MaxBacklog
  BY Types
<1>2. c \in Conns /\ drain[c].upper <= Len(deliveries)
  BY DEF Uppers, Runnable
<1>3. d \in Deliveries /\ d \in DOMAIN deliveries
  BY <1>1, <1>2, Opened DEF Backlog, Deliveries
<1>4. /\ deliveries[d] = [kind |-> "principal", to |-> PrincipalOf[conns[c].session]]
      /\ d > checkpoint[PrincipalOf[conns[c].session]]
  BY DEF Backlog
<1>5. PrincipalOf[conns[c].session] \in active
  BY <1>2 DEF RowsInv, Origins
<1> QED
  BY <1>2, <1>3, <1>4, <1>5 DEF Meant

LEMMA DrainStepWorks ==
    ASSUME Typed, RowsInv, OpsInv, Uppers, NEW c \in Sockets, DrainStep(c) PROVE Works
<1>1. UNCHANGED <<deliveries, active, checkpoint, lastGen, conns, accepted, run, running>> /\ running
  BY DEF DrainStep
<1>2. KeepRows
  BY <1>1, SameRows
<1>3. CASE UNCHANGED <<attempts, op, toHost>>
  BY <1>1, <1>2, <1>3, OpsStay
<1>4. ASSUME NEW d \in Backlog(c), op[d].pc = "none", Attempt(d, c), Current(c) PROVE Works
  <2>1. d \in Deliveries /\ Meant(conns[c].session, d)
    BY Backlogged DEF DrainStep
  <2> QED
    BY <1>1, <1>2, <1>4, <2>1, AttemptWorks
<1>5. ASSUME NEW d \in Backlog(c), op[d].pc = "none", Dispatch(d, {b \in {c} : Current(b)}) PROVE Works
  BY <1>3, <1>4, <1>5, Dispatches
<1> QED
  BY <1>3, <1>5 DEF DrainStep

LEMMA FinishWorks == ASSUME Typed, OpsInv, NEW d \in Deliveries, Finish(d) PROVE Works
<1> DEFINE o == op[d]
<1>1. /\ o.pc \in {"answered", "resolved"} /\ op' = [op EXCEPT ![d] = NoOp]
      /\ \/ UNCHANGED accepted /\ \E r \in {"rejected", "stale"} :
                attempts' = [attempts EXCEPT ![d] = Marked(@, o.n, r)]
         \/ accepted[d] # 0
         \/ /\ o.ok /\ Fresh(o.conn) /\ accepted' = [accepted EXCEPT ![d] = o.n]
            /\ attempts' = [attempts EXCEPT ![d] = Marked(@, o.n, "returned")]
      /\ UNCHANGED <<deliveries, active, checkpoint, lastGen, conns, run, running>>
  BY DEF Finish, Marked
<1>2. attempts \in [Deliveries -> Seq(Attempts)] /\ op \in [Deliveries -> Ops]
      /\ accepted \in [Deliveries -> Nat] /\ NoOp.pc = "none"
  BY Types DEF NoOp
<1>3. \A b \in Deliveries : op[b].pc # "none" => running
  BY DEF OpsInv, InFlight
<1>4. o.pc # "none" /\ accepted[d] = 0
  BY <1>1 DEF OpsInv, InFlight
<1> HIDE DEF o
<1>5. \E r \in {"returned", "rejected", "stale"} :
         /\ attempts' = [attempts EXCEPT ![d] = Marked(@, o.n, r)]
         /\ accepted' = IF r = "returned" THEN [accepted EXCEPT ![d] = o.n] ELSE accepted
         /\ r = "returned" => o.ok /\ Fresh(o.conn)
  BY <1>1, <1>4
<1>6. PICK r \in {"returned", "rejected", "stale"} :
         /\ attempts' = [attempts EXCEPT ![d] = Marked(@, o.n, r)]
         /\ accepted' = IF r = "returned" THEN [accepted EXCEPT ![d] = o.n] ELSE accepted
         /\ r = "returned" => o.ok /\ Fresh(o.conn)
  BY <1>5
<1>7. EndsWith(d, r)
  BY <1>1, <1>2, <1>6 DEF EndsWith, o
<1>8. Concludes(d)
  BY <1>1, <1>2, <1>4, <1>7 DEF Concludes, o
<1>9. \A b \in Deliveries \ {d} : Steady(b)
  BY <1>1, <1>2, <1>6 DEF Steady
<1>10. \A b \in Deliveries : op'[b].pc # "none" => running' /\ run' = run
  BY <1>1, <1>2, <1>3
<1>11. Endures
  BY <1>1 DEF Endures, Conns
<1> QED
  BY <1>8, <1>9, <1>10, <1>11 DEF Works

LEMMA StopWorks == ASSUME Typed, OpsInv, Stop PROVE Works
<1>1. /\ attempts' = [d \in Deliveries |->
                         IF op[d].pc = "waiting" /\ op[d].conn \in bound
                         THEN Marked(attempts[d], op[d].n, "rejected") ELSE attempts[d]]
      /\ op' = [d \in Deliveries |-> NoOp] /\ NoOp.pc = "none"
      /\ conns' = CloseRows(conns, bound)
      /\ UNCHANGED <<deliveries, active, checkpoint, lastGen, accepted>>
  BY DEF Stop, Die, NoOp, Marked
<1>2. KeepRows
  BY <1>1, ClosedRows
<1>3. Endures
  BY <1>1, <1>2 DEF KeepRows, Kept, Endures, Conns
<1>4. ASSUME NEW d \in Deliveries PROVE Steady(d) \/ Concludes(d)
  <2>1. CASE attempts'[d] = attempts[d]
    BY <1>1, <2>1 DEF Steady
  <2>2. CASE op[d].pc = "waiting" /\ attempts'[d] = Marked(attempts[d], op[d].n, "rejected")
    <3>1. EndsWith(d, "rejected")
      BY <1>1, <2>2 DEF EndsWith
    <3> QED
      BY <1>1, <2>2, <3>1 DEF Concludes
  <2> QED
    BY <1>1, <2>1, <2>2
<1> QED
  BY <1>1, <1>3, <1>4 DEF Works

LEMMA RouterWorks ==
    ASSUME Typed, RowsInv, OpsInv, Uppers, RouterSteps PROVE Works
<1>1. ASSUME NEW k \in Sockets, Disconnect(k) PROVE Works
  BY <1>1, ClosedRows, OpsStay DEF Disconnect
<1>2. ASSUME NEW k \in Sockets, SocketClosed(k) \/ SocketBreaks(k) PROVE Works
  BY <1>2, DropWorks DEF SocketClosed, SocketBreaks
<1>3. ASSUME NEW c \in Sockets, StartDrain(c) \/ DrainFails(c) PROVE Works
  BY <1>3, SameRows, OpsStay DEF StartDrain, DrainFails, rows
<1>4. ASSUME NEW d \in Deliveries, Timeout(d) PROVE Works
  <2>1. op' = [op EXCEPT ![d].pc = "resolved", ![d].ok = FALSE] /\ op[d].pc = "waiting"
        /\ UNCHANGED <<rows, run, running>>
    BY <1>4 DEF Timeout
  <2>2. op \in [Deliveries -> Ops] /\ \A b \in Deliveries : op[b] \in Ops
    BY Types
  <2>3. \A b \in Deliveries : op'[b].pc # "none" =>
           op[b].pc # "none" /\ op'[b].conn = op[b].conn /\ op'[b].n = op[b].n
    BY <2>1, <2>2 DEF Ops
  <2> QED
    BY <2>1, <2>3, SameRows, OpsMove DEF rows
<1>5. ASSUME NEW d \in Deliveries, NEW took \in BOOLEAN, NEW ok \in BOOLEAN, QueueReturns(d, took, ok)
      PROVE  Works
  <2>1. op' = [op EXCEPT ![d].pc = "resolved", ![d].ok = ok] /\ op[d].pc = "queueing"
        /\ UNCHANGED <<rows, run, running>>
    BY <1>5 DEF QueueReturns
  <2>2. op \in [Deliveries -> Ops] /\ \A b \in Deliveries : op[b] \in Ops
    BY Types
  <2>3. \A b \in Deliveries : op'[b].pc # "none" =>
           op[b].pc # "none" /\ op'[b].conn = op[b].conn /\ op'[b].n = op[b].n
    BY <2>1, <2>2 DEF Ops
  <2> QED
    BY <2>1, <2>3, SameRows, OpsMove DEF rows
<1>6. ASSUME NEW d \in Deliveries, FinishFails(d) PROVE Works
  <2>1. op' = [op EXCEPT ![d] = NoOp] /\ NoOp.pc = "none" /\ UNCHANGED <<rows, run, running>>
    BY <1>6 DEF FinishFails, NoOp
  <2>2. \A b \in Deliveries : op'[b].pc # "none" =>
           op[b].pc # "none" /\ op'[b].conn = op[b].conn /\ op'[b].n = op[b].n
    BY <2>1, Types
  <2> QED
    BY <2>1, <2>2, SameRows, OpsMove DEF rows
<1>7. ASSUME NEW c \in Conns, LeaseTick(c) PROVE Works
  BY <1>7, LeaseTickRows, OpsStay DEF LeaseTick, memory
<1>8. ASSUME NEW k \in Sockets, Heartbeat(k) PROVE Works
  BY <1>8, HeartbeatRows, OpsStay DEF Heartbeat, memory
<1>9. ASSUME Crash PROVE Works
  <2>1. \A d \in Deliveries : op'[d].pc = "none"
    BY <1>9 DEF Crash, Die, NoOp
  <2> QED
    BY <1>9, <2>1, SameRows, OpsMove DEF Crash, Die
<1>10. ASSUME Restart PROVE Works
  <2>1. \A d \in Deliveries : op[d].pc = "none"
    BY <1>10 DEF Restart, OpsInv, InFlight
  <2> QED
    BY <1>10, <2>1, SameRows, OpsMove DEF Restart, rows
<1> QED
  BY <1>1, <1>2, <1>3, <1>4, <1>5, <1>6, <1>7, <1>8, <1>9, <1>10, RegisterWorks, HostOutcomeWorks,
     StoredWorks, NotifiedWorks, DrainStepWorks, FinishWorks, StopWorks
  DEF RouterSteps, RouterStep, Mishap

-----------------------------------------------------------------------------
(* Drains *)

TriesNext(c) ==
    \E d \in Backlog(c) :
        /\ \A e \in Backlog(c) : d <= e
        /\ drain' = [drain EXCEPT ![c].cur = d]
        /\ op[d].pc # "none" \/ (\E b \in {c} : Attempt(d, b)) \/ ~Current(c) \/ c \notin bound

(* What a step does to the drain of a connection: it is over, it goes on,    *)
(* it is scheduled, it begins, or it gets to its next delivery               *)
Moves(c) ==
    \/ drain'[c].pc = "off"
    \/ drain'[c] = drain[c]
    \/ drain'[c].pc = "scheduled"
    \/ drain[c].pc = "scheduled" /\ drain'[c] = [pc |-> "on", upper |-> Len(deliveries), cur |-> 0]
    \/ Runnable(c) /\ TriesNext(c)

Drives ==
    \A c \in Sockets : Moves(c) /\ (drain'[c].pc # "off" => running' /\ run' = run /\ c \in Conns')

LEMMA DrainStepMoves ==
    ASSUME Typed, NEW c \in Sockets, DrainStep(c)
    PROVE  \/ drain' = [drain EXCEPT ![c] = NoDrain]
           \/ Runnable(c) /\ TriesNext(c)
<1>1. ASSUME NEW d \in Backlog(c), \A e \in Backlog(c) : d <= e, drain' = [drain EXCEPT ![c].cur = d],
             IF op[d].pc = "none" THEN Dispatch(d, {b \in {c} : Current(b)})
             ELSE UNCHANGED <<attempts, op, toHost>>
      PROVE  TriesNext(c)
  <2>1. accepted[d] = 0
    BY DEF Backlog
  <2>2. CASE op[d].pc # "none"
    BY <1>1, <2>2 DEF TriesNext
  <2>3. CASE op[d].pc = "none"
    <3>1. Dispatch(d, {b \in {c} : Current(b)})
      BY <1>1, <2>3
    <3>2. (\E b \in {c} : Attempt(d, b)) \/ ~Current(c) \/ c \notin bound
      BY <2>1, <3>1, Dispatches
    <3> QED
      BY <1>1, <3>2 DEF TriesNext
  <2> QED
    BY <2>2, <2>3
<1> QED
  BY <1>1 DEF DrainStep

LEMMA SameDrains ==
    ASSUME Typed, Uppers, KeepRows, UNCHANGED <<drain, run, running>> PROVE Drives
<1>1. \A c \in Sockets : drain[c].pc # "off" => running /\ c \in Conns
  BY DEF Uppers
<1> QED
  BY <1>1 DEF Drives, Moves, KeepRows, Conns

LEMMA SomeDrainsEnd ==
    ASSUME Typed, Uppers, KeepRows, UNCHANGED <<run, running>>,
           \A c \in Sockets : drain'[c].pc = "off" \/ drain'[c] = drain[c]
    PROVE  Drives
<1>1. \A c \in Sockets : drain[c].pc # "off" => running /\ c \in Conns
  BY DEF Uppers
<1> QED
  BY <1>1 DEF Drives, Moves, KeepRows, Conns

LEMMA RouterDrives == ASSUME Typed, Uppers, RouterSteps PROVE Drives
<1>0. drain \in [Sockets -> Drains] /\ NoDrain.pc = "off"
      /\ \A c \in Sockets : drain[c].pc # "off" => running /\ c \in Conns
  BY Types DEF Drains, NoDrain, Uppers
<1>1. ASSUME NEW k \in Sockets, Disconnect(k) PROVE Drives
  BY <1>1, ClosedRows, SameDrains DEF Disconnect
<1>2. ASSUME NEW k \in Sockets, SocketClosed(k) \/ SocketBreaks(k) PROVE Drives
  BY <1>2, ClosedRows, SameDrains DEF SocketClosed, SocketBreaks, DropSocket
<1>3. ASSUME NEW c \in Sockets, StartDrain(c) PROVE Drives
  <2>1. /\ drain[c].pc = "scheduled" /\ UNCHANGED <<rows, run, running>>
        /\ drain' = [drain EXCEPT ![c] = [pc |-> "on", upper |-> Len(deliveries), cur |-> 0]]
    BY <1>3 DEF StartDrain
  <2> QED
    BY <1>0, <2>1 DEF Drives, Moves, rows, Conns
<1>4. ASSUME NEW c \in Sockets, DrainFails(c) PROVE Drives
  BY <1>0, <1>4, SameRows, SomeDrainsEnd DEF DrainFails, rows
<1>5. ASSUME NEW d \in Deliveries, FinishFails(d) PROVE Drives
  BY <1>0, <1>5, SameRows, SomeDrainsEnd DEF FinishFails, rows
<1>6. ASSUME NEW d \in Deliveries, Timeout(d) \/ Finish(d) \/ Notified(d) PROVE Drives
  BY <1>6, SameRows, SameDrains DEF Timeout, Finish, Notified, HandleNotify, rows
<1>7. ASSUME NEW d \in Deliveries, NEW took \in BOOLEAN, NEW ok \in BOOLEAN, QueueReturns(d, took, ok)
      PROVE  Drives
  BY <1>7, SameRows, SameDrains DEF QueueReturns, rows
<1>8. ASSUME NEW k \in Sockets, NEW type \in {"accept", "reject"}, HostOutcome(k, type)
      PROVE  Drives
  BY <1>8, SameRows, SameDrains DEF HostOutcome, rows
<1>9. ASSUME NEW t \in Targets, Stored(t) PROVE Drives
  BY <1>9, SameRows, SameDrains DEF Stored, memory
<1>10. ASSUME NEW c \in Conns, LeaseTick(c) PROVE Drives
  BY <1>10, LeaseTickRows, SameDrains DEF LeaseTick, memory
<1>11. ASSUME NEW k \in Sockets, Heartbeat(k) PROVE Drives
  BY <1>11, HeartbeatRows, SameDrains DEF Heartbeat, memory
<1>12. ASSUME Crash \/ Stop PROVE Drives
  <2>1. \A c \in Sockets : drain'[c].pc = "off"
    BY <1>0, <1>12 DEF Crash, Stop, Die
  <2> QED
    BY <2>1 DEF Drives, Moves
<1>13. ASSUME Restart PROVE Drives
  <2>1. \A c \in Sockets : drain'[c].pc = "off"
    BY <1>0, <1>13 DEF Restart
  <2> QED
    BY <2>1 DEF Drives, Moves
<1>14. ASSUME NEW c \in Sockets, DrainStep(c) PROVE Drives
  <2>1. /\ UNCHANGED <<conns, run, running>> /\ running /\ drain[c].pc = "on"
        /\ \/ drain' = [drain EXCEPT ![c] = NoDrain]
           \/ Runnable(c) /\ TriesNext(c)
    BY <1>14, DrainStepMoves DEF DrainStep, Runnable
  <2>2. ASSUME NEW b \in Sockets, b # c PROVE drain'[b] = drain[b]
    BY <1>0, <2>1, <2>2 DEF TriesNext
  <2>3. Moves(c)
    BY <1>0, <2>1 DEF Moves
  <2> QED
    BY <1>0, <2>1, <2>2, <2>3 DEF Drives, Moves, Conns
<1>15. ASSUME NEW k \in Sockets, Register(k) PROVE Drives
  <2> DEFINE n == Len(conns) + 1
  <2>1. drain' = [drain EXCEPT ![n].pc = "scheduled"] /\ UNCHANGED <<run, running>> /\ running
    BY <1>15 DEF Register, Settled
  <2>2. Conns' = Conns \cup {n}
    BY <1>15, NewRow
  <2> HIDE DEF n
  <2>3. ASSUME NEW b \in Sockets, b # n PROVE drain'[b] = drain[b]
    BY <1>0, <2>1, <2>3
  <2>4. ASSUME n \in Sockets PROVE drain'[n].pc = "scheduled"
    BY <1>0, <2>1, <2>4 DEF Drains
  <2> QED
    BY <1>0, <2>1, <2>2, <2>3, <2>4 DEF Drives, Moves
<1> QED
  BY <1>1, <1>2, <1>3, <1>4, <1>5, <1>6, <1>7, <1>8, <1>9, <1>10, <1>11, <1>12, <1>13, <1>14, <1>15
  DEF RouterSteps, RouterStep, Mishap

LEMMA UppersNext == ASSUME Typed, Uppers, Drives, Endures, Typed' PROVE Uppers'
<1>1. /\ Len(deliveries) \in Nat /\ Len(deliveries') \in Nat
      /\ DOMAIN deliveries = 1..Len(deliveries) /\ DOMAIN deliveries' = 1..Len(deliveries')
  BY Opened DEF Typed, TypeOK, RouterTypeOK
<1>2. Len(deliveries) <= Len(deliveries')
  BY <1>1 DEF Endures
<1> SUFFICES ASSUME NEW c \in Sockets, drain'[c].pc = "on"
             PROVE  drain'[c].cur <= drain'[c].upper /\ drain'[c].upper <= Len(deliveries')
  BY DEF Uppers, Drives
<1>3. drain \in [Sockets -> Drains]
  BY Types DEF Drains
<1>4. drain[c].upper \in Nat /\ drain[c].cur \in Nat
  BY <1>3 DEF Drains
<1>5. CASE drain'[c] = drain[c]
  BY <1>1, <1>2, <1>4, <1>5 DEF Uppers
<1>6. CASE drain'[c] = [pc |-> "on", upper |-> Len(deliveries), cur |-> 0]
  BY <1>1, <1>2, <1>6
<1>7. ASSUME NEW d \in Backlog(c), drain' = [drain EXCEPT ![c].cur = d], Runnable(c)
      PROVE  drain'[c].cur <= drain'[c].upper /\ drain'[c].upper <= Len(deliveries')
  <2>1. d \in Nat /\ d <= drain[c].upper
    BY <1>4 DEF Backlog
  <2>2. drain'[c].cur = d /\ drain'[c].upper = drain[c].upper
    BY <1>3, <1>7 DEF Drains
  <2> QED
    BY <1>1, <1>2, <1>4, <1>7, <2>1, <2>2 DEF Uppers, Runnable
<1> QED
  BY <1>5, <1>6, <1>7 DEF Drives, Moves, TriesNext

Eligible(c, d) ==
    /\ deliveries[d] = [kind |-> "principal", to |-> PrincipalOf[conns[c].session]]
    /\ d > checkpoint[PrincipalOf[conns[c].session]]

(* A drain has seen to everything up to the delivery it is at                *)
Caught ==
    \A c \in Sockets : drain[c].pc = "on" /\ c \in bound /\ Current(c) =>
        \A d \in 1..drain[c].cur : Eligible(c, d) => accepted[d] # 0 \/ TriedByRun(d)

(* No connection that is there becomes current or bound again                *)
Ages == \A c \in Conns : Kept(conns[c], conns'[c]) /\ (c \in bound' => c \in bound)

LEMMA RouterAges == ASSUME Typed, LinkInv, RouterSteps PROVE Ages
<1>1. ASSUME NEW k \in Sockets, Register(k) PROVE Ages
  <2> DEFINE n == Len(conns) + 1
  <2>1. /\ n \notin Conns /\ bound' = (bound \ OpenRows(sessionOf[owner[k]])) \cup {n}
        /\ \A c \in Conns : Kept(conns[c], conns'[c])
    BY <1>1, NewRow
  <2> HIDE DEF n
  <2> QED
    BY <2>1 DEF Ages
<1>2. ASSUME Serves, Continues PROVE Ages
  BY <1>2 DEF Serves, Continues, KeepRows, Ages
<1> QED
  BY <1>1, <1>2, RouterServes, RouterContinues DEF LinkInv

(* What was accepted or attempted stays so                                   *)
LEMMA AttemptsRemain ==
    ASSUME Typed, OpsInv, Works, NEW d \in Deliveries
    PROVE  /\ DOMAIN attempts[d] \subseteq DOMAIN attempts'[d]
           /\ \A n \in DOMAIN attempts[d] : attempts'[d][n].conn = attempts[d][n].conn
           /\ accepted[d] # 0 => accepted'[d] = accepted[d]
<1>1. Len(attempts[d]) \in Nat /\ DOMAIN attempts[d] = 1..Len(attempts[d])
  BY Opened
<1>2. CASE Steady(d)
  BY <1>2 DEF Steady
<1>3. CASE Tries(d)
  <2>1. PICK c \in bound : Through(d, c)
    BY <1>3 DEF Tries
  <2> DEFINE e == [conn |-> c, result |-> "started"]
  <2>2. attempts[d] \in Seq(Attempts) /\ e \in Attempts /\ attempts'[d] = Append(attempts[d], e)
    BY <2>1, Types DEF Through, Attempts
  <2> HIDE DEF e
  <2> QED
    BY <1>1, <1>3, <2>2, Appended DEF Tries
<1>4. CASE Concludes(d)
  <2>1. PICK r \in {"returned", "rejected", "stale"} : EndsWith(d, r)
    BY <1>4 DEF Concludes
  <2>2. accepted[d] = 0
    BY <1>4 DEF Concludes, OpsInv, InFlight
  <2> QED
    BY <2>1, <2>2, EndsWithRows
<1> QED
  BY <1>2, <1>3, <1>4 DEF Works

LEMMA Remains ==
    ASSUME Typed, OpsInv, Works, run' = run, NEW d \in Deliveries
    PROVE  /\ accepted[d] # 0 => accepted'[d] # 0
           /\ TriedByRun(d) => TriedByRun(d)'
<1>1. \A n \in DOMAIN attempts[d] : attempts[d][n].conn \in Conns
  BY Opened DEF Attempts, Conns
<1>2. \A c \in Conns : conns'[c].router = conns[c].router
  BY DEF Works, Endures
<1> QED
  BY <1>1, <1>2, AttemptsRemain DEF TriedByRun

LEMMA CaughtNext ==
    ASSUME Typed, RowsInv, OpsInv, Uppers, Caught, Works, Drives, Ages PROVE Caught'
<1> SUFFICES ASSUME NEW c \in Sockets, drain'[c].pc = "on", c \in bound', Current(c)',
                    NEW d \in 1..drain'[c].cur, Eligible(c, d)'
             PROVE  (accepted[d] # 0 \/ TriedByRun(d))'
  BY DEF Caught
<1>1. /\ drain \in [Sockets -> Drains] /\ drain[c] \in Drains
      /\ drain[c].upper \in 0..MaxBacklog /\ drain[c].cur \in 0..MaxBacklog
  BY Types DEF Drains
<1>2. run' = run /\ drain[c].pc # "off" /\ c \in Conns
  <2>1. Runnable(c) => drain[c].pc = "on"
    BY DEF Runnable
  <2> QED
    BY <2>1 DEF Drives, Moves, Uppers
<1>3. Current(c) /\ c \in bound
  <2>1. conns[c] \in ConnRows
    BY <1>2, Opened
  <2> QED
    BY <1>2, <2>1 DEF Ages, Kept, Current
<1>4. ASSUME d \in DOMAIN deliveries, NEW x \in {d} PROVE Eligible(c, x)
  <2>1. PrincipalOf[conns[c].session] \in active
    BY <1>2 DEF RowsInv, Origins
  <2>2. /\ conns'[c].session = conns[c].session /\ deliveries'[d] = deliveries[d]
        /\ checkpoint'[PrincipalOf[conns[c].session]] = checkpoint[PrincipalOf[conns[c].session]]
    BY <1>2, <1>4, <2>1 DEF Works, Endures
  <2> QED
    BY <2>2 DEF Eligible
<1>5. ASSUME d \in 1..drain[c].cur, drain[c].pc = "on" PROVE (accepted[d] # 0 \/ TriedByRun(d))'
  <2>1. d \in Deliveries /\ d \in DOMAIN deliveries
    BY <1>1, <1>5, Opened DEF Uppers, Deliveries
  <2>2. accepted[d] # 0 \/ TriedByRun(d)
    BY <1>3, <1>4, <1>5, <2>1 DEF Caught
  <2> QED
    BY <1>2, <2>1, <2>2, Remains
<1>6. ASSUME Runnable(c), TriesNext(c) PROVE (accepted[d] # 0 \/ TriedByRun(d))'
  <2>1. PICK next \in Backlog(c) :
              /\ \A e \in Backlog(c) : next <= e
              /\ drain' = [drain EXCEPT ![c].cur = next]
              /\ op[next].pc # "none" \/ (\E b \in {c} : Attempt(next, b)) \/ ~Current(c) \/ c \notin bound
    BY <1>6 DEF TriesNext
  <2>2. drain[c].pc = "on" /\ drain'[c].cur = next
    BY <1>1, <1>6, <2>1 DEF Runnable, Drains
  <2>3. next \in drain[c].cur + 1 .. drain[c].upper
    BY <2>1 DEF Backlog
  <2>4. d \in Deliveries /\ d \in DOMAIN deliveries /\ d <= next /\ next \in Deliveries
    BY <1>1, <2>2, <2>3, Opened DEF Uppers, Deliveries
  <2>5. Eligible(c, d)
    BY <1>4, <2>4
  <2>6. CASE d <= drain[c].cur
    BY <1>1, <1>5, <2>2, <2>4, <2>6 DEF Deliveries
  <2>7. CASE d > drain[c].cur /\ d < next
    <3>1. d \notin Backlog(c)
      BY <2>1, <2>3, <2>4, <2>7 DEF Deliveries
    <3>2. accepted[d] # 0
      BY <1>1, <2>3, <2>4, <2>5, <2>7, <3>1 DEF Backlog, Eligible, Deliveries
    <3> QED
      BY <1>2, <2>4, <3>2, Remains
  <2>8. CASE d = next
    <3>1. CASE op[d].pc # "none"
      <4>1. InFlight(d) /\ op[d].conn \in Conns
        <5>1. op[d] \in Ops
          BY <2>4, Types
        <5> QED
          BY <2>4, <3>1, <5>1 DEF OpsInv, Ops, Conns
      <4>2. op[d].n \in DOMAIN attempts[d]
        <5>1. Len(attempts[d]) \in Nat /\ DOMAIN attempts[d] = 1..Len(attempts[d])
          BY <2>4, Opened
        <5> QED
          BY <4>1, <5>1 DEF InFlight
      <4>3. TriedByRun(d)
        BY <4>1, <4>2 DEF InFlight, TriedByRun
      <4> QED
        BY <1>2, <2>4, <4>3, Remains
    <3>2. CASE Attempt(d, c)
      <4> DEFINE e == [conn |-> c, result |-> "started"]
      <4>1. attempts' = [attempts EXCEPT ![d] = Append(@, e)]
        BY <3>2 DEF Attempt
      <4>2. attempts \in [Deliveries -> Seq(Attempts)] /\ e \in Attempts
        BY <1>2, Types DEF Attempts, Conns
      <4>3. e.conn = c
        OBVIOUS
      <4> HIDE DEF e
      <4>4. attempts'[d] = Append(attempts[d], e) /\ attempts[d] \in Seq(Attempts)
        BY <2>4, <4>1, <4>2
      <4>5. Len(attempts[d]) + 1 \in DOMAIN attempts'[d] /\ attempts'[d][Len(attempts[d]) + 1] = e
        BY <4>2, <4>4, Appended
      <4>6. conns'[c].router = run'
        BY DEF Current
      <4>7. TriedByRun(d)'
        BY <4>3, <4>5, <4>6 DEF TriedByRun
      <4> QED
        BY <4>7
    <3> QED
      BY <1>3, <2>1, <2>8, <3>1, <3>2
  <2> QED
    BY <1>1, <2>3, <2>4, <2>6, <2>7, <2>8 DEF Deliveries
<1>7. CASE drain'[c].cur = 0
  BY <1>7
<1> QED
  BY <1>5, <1>6, <1>7 DEF Drives, Moves

-----------------------------------------------------------------------------
(* The properties of the tables and of the drains *)

Worked == Linked /\ OpsInv /\ Uppers /\ Caught

LEMMA OpsInit == Init => OpsInv /\ Uppers /\ Caught
  BY EmptySeq DEF Init, RouterInit, OpsInv, Tried, Uppers, Caught, NoOp, NoDrain

LEMMA WorkedStep == ASSUME Worked, Steps PROVE Worked'
<1>1. Linked'
  BY LinkedStep DEF Worked
<1>2. ASSUME UNCHANGED routerVars PROVE (OpsInv /\ Uppers /\ Caught)'
  <2>1. OpsInv'
    BY <1>2 DEF routerVars, rows, memory, Worked, OpsInv, InFlight, Tried, Meant
  <2>2. Uppers'
    BY <1>2 DEF routerVars, rows, memory, Worked, Uppers, Conns
  <2>3. Caught'
    BY <1>2 DEF routerVars, rows, memory, Worked, Caught, Eligible, TriedByRun, Current
  <2> QED
    BY <2>1, <2>2, <2>3
<1>3. ASSUME RouterSteps PROVE (OpsInv /\ Uppers /\ Caught)'
  <2>1. Works /\ Drives /\ Ages
    BY <1>3, RouterWorks, RouterDrives, RouterAges DEF Worked, Linked
  <2> QED
    BY <1>1, <2>1, WorksOps, UppersNext, CaughtNext DEF Worked, Linked, Works
<1> QED
  BY <1>1, <1>2, <1>3 DEF Worked, Steps

LEMMA WorkedNext == Worked /\ [Next]_vars => Worked'
  BY WorkedStep, NextSteps DEF Worked, Linked

(* The open row of a session is its newest one, what is bound is open and of *)
(* this router process, and a delivery is accepted exactly when one of its   *)
(* attempts, and no other, has returned: through takeovers, restarts and     *)
(* failed commits (agent_session_connections, agent_host_accepts,            *)
(* agent_dispatch_attempts).                                                 *)
THEOREM TheTablesAgree == Spec => []TablesAgree
<1>1. Worked => TablesAgree
  BY DEF Worked, Linked, RowsInv, Generations, LinkInv, Bindings, OpsInv, Tried, TablesAgree
<1>2. Init => Worked
  BY LinkedInit, OpsInit DEF Worked
<1> QED
  BY <1>1, <1>2, WorkedNext, PTL DEF Spec

LEMMA AcceptedIsFresh ==
    ASSUME Worked, Works, NEW d \in Deliveries, accepted'[d] # accepted[d]
    PROVE  LET c == attempts[d][accepted'[d]].conn
           IN  /\ accepted[d] = 0
               /\ c \in bound /\ conns[c].open /\ conns[c].lease > 0
               /\ conns[c].gen = lastGen[conns[c].session]
<1>1. Concludes(d)
  BY DEF Works, Steady, Tries
<1>2. PICK r \in {"returned", "rejected", "stale"} : EndsWith(d, r)
  BY <1>1 DEF Concludes
<1>3. accepted'[d] = op[d].n /\ Fresh(op[d].conn)
  BY <1>2 DEF EndsWith
<1>4. InFlight(d)
  BY <1>1 DEF Worked, OpsInv, Concludes
<1>5. attempts[d][op[d].n].conn = op[d].conn /\ accepted[d] = 0
  BY <1>4 DEF InFlight
<1>6. op[d].conn \in Conns
  BY <1>3, Types DEF Fresh, Worked, Linked, Conns
<1>7. conns[op[d].conn].gen = lastGen[conns[op[d].conn].session]
  BY <1>3, <1>6 DEF Fresh, Current, Worked, Linked, RowsInv, Generations
<1> QED
  BY <1>3, <1>5, <1>7 DEF Fresh, Current

(* dispatchDeliveryOnce: an acceptance is recorded only for the newest       *)
(* generation of its session, while that connection has its lease and its    *)
(* socket; an answer that comes after a takeover, an expiry or a disconnect  *)
(* is not counted.                                                           *)
THEOREM StaleAnswersDoNotCount == Spec => NoStaleAcceptance
<1> DEFINE Counts ==
             \A d \in Deliveries :
                 accepted'[d] # accepted[d] =>
                     LET c == attempts[d][accepted'[d]].conn
                     IN  /\ accepted[d] = 0
                         /\ c \in bound /\ conns[c].open /\ conns[c].lease > 0
                         /\ conns[c].gen = lastGen[conns[c].session]
<1>1. Worked /\ [Next]_vars => Counts
  <2> SUFFICES ASSUME Worked, [Next]_vars PROVE Counts
    OBVIOUS
  <2>1. UNCHANGED routerVars \/ RouterSteps
    BY NextSteps DEF Worked, Linked, Steps
  <2>2. CASE UNCHANGED routerVars
    BY <2>2 DEF routerVars, rows
  <2>3. CASE RouterSteps
    BY <2>3, RouterWorks, AcceptedIsFresh DEF Worked, Linked
  <2> QED
    BY <2>1, <2>2, <2>3
<1>2. Init => Worked
  BY LinkedInit, OpsInit DEF Worked
<1>3. Spec => []Worked
  BY <1>2, WorkedNext, PTL DEF Spec
<1>4. Spec => [][Counts]_vars
  BY <1>1, <1>3, PTL DEF Spec
<1> QED
  BY <1>4 DEF NoStaleAcceptance

(* What ends a drain without a mishap: its backlog is empty                  *)
LEMMA DrainsEnd ==
    ASSUME Typed, RouterSteps, NEW c \in Sockets, drain[c].pc = "on", drain'[c].pc = "off", left' = left
    PROVE  Backlog(c) = {}
<1>1. drain \in [Sockets -> Drains]
  BY Types DEF Drains
<1>2. ASSUME NEW e \in Events, Spend(e) PROVE FALSE
  BY <1>2, Spent
<1>3. ASSUME NEW b \in Sockets, DrainStep(b) PROVE Backlog(c) = {}
  <2>1. CASE TriesNext(b)
    BY <1>1, <2>1 DEF TriesNext, Drains
  <2>2. CASE Backlog(b) = {} /\ drain' = [drain EXCEPT ![b] = NoDrain]
    BY <1>1, <2>2
  <2>3. \A d \in Backlog(b) : drain' = [drain EXCEPT ![b].cur = d] => drain'[c].pc = "on"
    BY <1>1 DEF Drains
  <2> QED
    BY <1>3, <2>2, <2>3 DEF DrainStep
<1>4. ASSUME NEW b \in Sockets, StartDrain(b) PROVE FALSE
  BY <1>1, <1>4 DEF StartDrain
<1>5. ASSUME NEW k \in Sockets, Register(k) PROVE FALSE
  <2>1. drain' = [drain EXCEPT ![Len(conns) + 1].pc = "scheduled"]
    BY <1>5 DEF Register
  <2>2. PICK n : n = Len(conns) + 1
    OBVIOUS
  <2>3. drain' = [drain EXCEPT ![n].pc = "scheduled"]
    BY <2>1, <2>2
  <2>4. drain'[c].pc = "scheduled" \/ drain'[c] = drain[c]
    BY <1>1, <2>3 DEF Drains
  <2> QED
    BY <2>4
<1>6. ~UNCHANGED drain
  OBVIOUS
<1>7. "stop" \in Events /\ "break" \in Events /\ "tick" \in Events /\ "busy" \in Events
  BY DEF Events
<1>8. ASSUME RouterStep PROVE Backlog(c) = {}
  BY <1>3, <1>4, <1>5, <1>6, <1>8
  DEF RouterStep, Disconnect, SocketClosed, DropSocket, HostOutcome, Timeout, Finish, QueueReturns
<1>9. ASSUME Mishap PROVE FALSE
  BY <1>2, <1>6, <1>7, <1>9
  DEF Mishap, FinishFails, SocketBreaks, DrainFails, LeaseTick, Crash, Stop, Die, Restart
<1>10. ASSUME NEW k \in Sockets, Heartbeat(k) PROVE FALSE
  BY <1>6, <1>10 DEF Heartbeat, memory
<1>11. ASSUME (\E t \in Targets : Stored(t)) \/ (\E d \in Deliveries : Notified(d)) PROVE FALSE
  BY <1>6, <1>11 DEF Stored, Notified, HandleNotify, memory
<1> QED
  BY <1>8, <1>9, <1>10, <1>11 DEF RouterSteps

LEMMA NothingSkipped ==
    ASSUME Worked, RouterSteps, NEW c \in Sockets, DrainDone(c), NEW d \in 1..drain[c].upper, Eligible(c, d)
    PROVE  accepted[d] # 0 \/ TriedByRun(d)
<1>1. drain[c].upper \in 0..MaxBacklog /\ drain[c].cur \in 0..MaxBacklog
  BY Types DEF Worked, Linked
<1>2. Backlog(c) = {} /\ drain[c].pc = "on" /\ Current(c) /\ c \in bound
  BY DrainsEnd DEF DrainDone, Worked, Linked
<1>3. CASE d <= drain[c].cur
  BY <1>1, <1>2, <1>3 DEF Worked, Caught
<1>4. CASE d > drain[c].cur
  BY <1>1, <1>2, <1>4 DEF Backlog, Eligible
<1> QED
  BY <1>1, <1>3, <1>4

(* drainConnection: when the drain of a registration is over and the         *)
(* connection is current still, every eligible delivery that existed when it *)
(* began is accepted or was attempted by this router process.                *)
THEOREM DrainsSkipNothing == Spec => DrainSkipsNothing
<1> DEFINE Seen ==
             \A c \in Sockets : DrainDone(c) =>
                 \A d \in 1..drain[c].upper :
                     /\ deliveries[d] = [kind |-> "principal", to |-> PrincipalOf[conns[c].session]]
                     /\ d > checkpoint[PrincipalOf[conns[c].session]]
                     => accepted[d] # 0 \/ TriedByRun(d)
<1>1. Worked /\ [Next]_vars => Seen
  <2> SUFFICES ASSUME Worked, [Next]_vars PROVE Seen
    OBVIOUS
  <2>1. UNCHANGED routerVars \/ RouterSteps
    BY NextSteps DEF Worked, Linked, Steps
  <2>2. CASE UNCHANGED routerVars
    BY <2>2 DEF routerVars, memory, DrainDone
  <2>3. CASE RouterSteps
    BY <2>3, NothingSkipped DEF Eligible
  <2> QED
    BY <2>1, <2>2, <2>3
<1>2. Init => Worked
  BY LinkedInit, OpsInit DEF Worked
<1>3. Spec => []Worked
  BY <1>2, WorkedNext, PTL DEF Spec
<1>4. Spec => [][Seen]_vars
  BY <1>1, <1>3, PTL DEF Spec
<1> QED
  BY <1>4 DEF DrainSkipsNothing

-----------------------------------------------------------------------------
(* What frames say about deliveries *)

Holds(q, type, d) == \E i \in DOMAIN q : q[i].type = type /\ q[i].d = d

LEMMA HoldsMore ==
    ASSUME NEW S, NEW q \in Seq(S), NEW f \in S, NEW type, NEW d
    PROVE  Holds(Append(q, f), type, d) <=> Holds(q, type, d) \/ (f.type = type /\ f.d = d)
<1>1. /\ Len(q) \in Nat /\ DOMAIN q = 1..Len(q) /\ DOMAIN Append(q, f) = 1..(Len(q) + 1)
      /\ \A i \in DOMAIN q : Append(q, f)[i] = q[i]
      /\ Append(q, f)[Len(q) + 1] = f
  BY Appended
<1>2. ASSUME Holds(q, type, d) PROVE Holds(Append(q, f), type, d)
  <2>1. PICK i \in DOMAIN q : q[i].type = type /\ q[i].d = d
    BY <1>2 DEF Holds
  <2>2. i \in DOMAIN Append(q, f) /\ Append(q, f)[i] = q[i]
    BY <1>1
  <2> QED
    BY <2>1, <2>2 DEF Holds
<1>3. ASSUME f.type = type, f.d = d PROVE Holds(Append(q, f), type, d)
  BY <1>1, <1>3 DEF Holds
<1>4. ASSUME Holds(Append(q, f), type, d) PROVE Holds(q, type, d) \/ (f.type = type /\ f.d = d)
  <2>1. PICK i \in DOMAIN Append(q, f) : Append(q, f)[i].type = type /\ Append(q, f)[i].d = d
    BY <1>4 DEF Holds
  <2>2. CASE i \in DOMAIN q
    BY <1>1, <2>1, <2>2 DEF Holds
  <2>3. CASE i = Len(q) + 1
    BY <1>1, <2>1, <2>3
  <2> QED
    BY <1>1, <2>2, <2>3
<1> QED
  BY <1>2, <1>3, <1>4

LEMMA HoldsLess ==
    ASSUME NEW S, NEW q \in Seq(S), q # <<>>, NEW type, NEW d
    PROVE  /\ Holds(Tail(q), type, d) => Holds(q, type, d)
           /\ Head(q).type = type /\ Head(q).d = d => Holds(q, type, d)
<1>1. /\ Len(q) \in Nat /\ Len(q) > 0 /\ DOMAIN q = 1..Len(q)
      /\ DOMAIN Tail(q) = 1..(Len(q) - 1) /\ Head(q) = q[1]
      /\ \A i \in DOMAIN Tail(q) : Tail(q)[i] = q[i + 1]
  BY Removed
<1>2. ASSUME Holds(Tail(q), type, d) PROVE Holds(q, type, d)
  <2>1. PICK i \in DOMAIN Tail(q) : Tail(q)[i].type = type /\ Tail(q)[i].d = d
    BY <1>2 DEF Holds
  <2>2. i + 1 \in DOMAIN q /\ q[i + 1] = Tail(q)[i]
    BY <1>1
  <2> QED
    BY <2>1, <2>2 DEF Holds
<1>3. 1 \in DOMAIN q
  BY <1>1
<1> QED
  BY <1>1, <1>2, <1>3 DEF Holds

LEMMA HoldsNothing == \A type, d : ~Holds(<<>>, type, d)
  BY DEF Holds

Taken(h) == {handed[h][i] : i \in DOMAIN handed[h]}

(* reached, of the ledger                                                    *)
Took(s, d) == <<s, d>> \in native \/ \E h \in Hosts : sessionOf[h] = s /\ d \in Taken(h)

(* Whatever carries a delivery to a session carries it to one it is meant    *)
(* for                                                                       *)
Pushed ==
    \A k \in DOMAIN owner : \A d \in Deliveries :
        Holds(toHost[k], "deliver", d) => Meant(sessionOf[owner[k]], d)
Waiting ==
    \A h \in Hosts : \A i \in DOMAIN tail[h] :
        owner[tail[h][i].sock] = h /\ Meant(sessionOf[h], tail[h][i].d)
Delivered ==
    /\ \A h \in Hosts : \A d \in Taken(h) : Meant(sessionOf[h], d)
    /\ \A s \in Sessions : \A d \in Deliveries : <<s, d>> \in native => Meant(s, d)

(* An acceptance on its way back, or recorded, is of what was handed over    *)
Acknowledged ==
    \A k \in DOMAIN owner : \A d \in Deliveries :
        Holds(toRouter[k], "accept", d) => d \in Taken(owner[k])
Answered ==
    \A d \in Deliveries : op[d].pc \in {"answered", "resolved"} /\ op[d].ok =>
        Took(conns[op[d].conn].session, d)

HandInv == Pushed /\ Waiting /\ Delivered /\ Acknowledged /\ Answered

(* The router pushes a delivery to the sockets of the sessions it is for     *)
Pushes ==
    \A k \in DOMAIN owner : \A d \in Deliveries :
        Holds(toHost'[k], "deliver", d) =>
            Holds(toHost[k], "deliver", d) \/ Meant(sessionOf[owner[k]], d)

LEMMA RegisterPushes ==
    ASSUME Typed, NEW k \in Sockets, Register(k) PROVE Pushes
<1> DEFINE gone(j) == \E c \in OpenRows(sessionOf[owner[k]]) \cap bound :
                          conns[c].sock = j /\ j \in clientEnd
           bye == Frame("superseded", 0, 0)
           hello == Frame("registered", 0, 0)
           told == [j \in Sockets |-> IF gone(j) THEN Append(toHost[j], bye) ELSE toHost[j]]
<1>1. toHost' = SendToHost(told, k, hello)
  <2>1. told = [j \in Sockets |->
                 IF \E c \in OpenRows(sessionOf[owner[k]]) \cap bound :
                       conns[c].sock = j /\ j \in clientEnd
                 THEN Append(toHost[j], Frame("superseded", 0, 0))
                 ELSE toHost[j]]
    OBVIOUS
  <2> QED
    BY <2>1 DEF Register
<1>2. /\ bye \in RouterFrames /\ hello \in RouterFrames
      /\ bye.type # "deliver" /\ hello.type # "deliver"
  BY DEF Frame, RouterFrames
<1>3. toHost \in [Sockets -> Seq(RouterFrames)]
  BY Types
<1> HIDE DEF bye, hello
<1>4. \A j \in Sockets : told[j] \in Seq(RouterFrames)
                         /\ (told[j] = toHost[j] \/ told[j] = Append(toHost[j], bye))
  BY <1>2, <1>3, Appended
<1>5. told \in [Sockets -> Seq(RouterFrames)]
  BY <1>4
<1> HIDE DEF told
<1>6. \A j \in Sockets : toHost'[j] = told[j] \/ toHost'[j] = Append(told[j], hello)
  <2>1. \A j \in Sockets : SendToHost(told, k, hello)[j] =
            IF j = k /\ k \in clientEnd THEN Append(told[j], hello) ELSE told[j]
    BY <1>2, <1>5, ToHosts
  <2> QED
    BY <1>1, <2>1
<1>7. ASSUME NEW j \in Sockets, NEW d, Holds(toHost'[j], "deliver", d)
      PROVE  Holds(toHost[j], "deliver", d)
  <2>1. Holds(Append(toHost[j], bye), "deliver", d) => Holds(toHost[j], "deliver", d)
    BY <1>2, <1>3, HoldsMore
  <2>2. Holds(Append(told[j], hello), "deliver", d) => Holds(told[j], "deliver", d)
    BY <1>2, <1>4, HoldsMore
  <2> QED
    BY <1>4, <1>6, <1>7, <2>1, <2>2
<1> QED
  BY <1>7, Opened DEF Pushes

LEMMA AttemptPushes ==
    ASSUME Typed, RowsInv, NEW d \in Deliveries, NEW c \in Conns, Attempt(d, c), Meant(conns[c].session, d)
    PROVE  Pushes
<1> DEFINE f == Frame("deliver", d, Len(attempts[d]) + 1)
<1>1. f \in RouterFrames /\ f.type = "deliver" /\ f.d = d
  BY Opened DEF Frame, RouterFrames
<1>2. toHost' = toHost \/ toHost' = SendToHost(toHost, conns[c].sock, f)
  BY DEF Attempt
<1> HIDE DEF f
<1>3. toHost \in [Sockets -> Seq(RouterFrames)]
  BY Types
<1>4. \A k \in Sockets : SendToHost(toHost, conns[c].sock, f)[k] = toHost[k]
                         \/ (k = conns[c].sock /\ SendToHost(toHost, conns[c].sock, f)[k] = Append(toHost[k], f))
  <2>1. \A k \in Sockets : SendToHost(toHost, conns[c].sock, f)[k] =
            IF k = conns[c].sock /\ conns[c].sock \in clientEnd THEN Append(toHost[k], f) ELSE toHost[k]
    BY <1>1, <1>3, ToHosts
  <2> QED
    BY <2>1
<1>5. conns[c].session = sessionOf[owner[conns[c].sock]]
  BY DEF RowsInv, Origins
<1>6. ASSUME NEW k \in DOMAIN owner, NEW b \in Deliveries, Holds(toHost'[k], "deliver", b)
      PROVE  Holds(toHost[k], "deliver", b) \/ Meant(sessionOf[owner[k]], b)
  <2>1. k \in Sockets /\ toHost[k] \in Seq(RouterFrames)
    BY <1>3, Opened
  <2>2. Holds(Append(toHost[k], f), "deliver", b) => Holds(toHost[k], "deliver", b) \/ b = d
    BY <1>1, <2>1, HoldsMore
  <2>3. CASE toHost'[k] = toHost[k]
    BY <1>6, <2>3
  <2>4. CASE k = conns[c].sock /\ toHost'[k] = Append(toHost[k], f)
    BY <1>5, <1>6, <2>2, <2>4
  <2> QED
    BY <1>2, <1>4, <2>1, <2>3, <2>4
<1> QED
  BY <1>6 DEF Pushes

LEMMA RouterPushes ==
    ASSUME Typed, RowsInv, Uppers, RouterSteps PROVE Pushes
<1>1. ASSUME UNCHANGED toHost PROVE Pushes
  BY <1>1 DEF Pushes
<1>2. ASSUME NEW d \in Deliveries, Notified(d) PROVE Pushes
  <2>1. Dispatch(d, Resolve(d)) /\ d \in DOMAIN deliveries
    BY <1>2 DEF Notified, HandleNotify
  <2>2. \A c \in Resolve(d) : c \in Conns
    BY DEF Resolve, Newest
  <2> QED
    BY <1>1, <2>1, <2>2, Dispatches, Resolved, AttemptPushes
<1>3. ASSUME NEW c \in Sockets, DrainStep(c) PROVE Pushes
  <2>1. ASSUME NEW d \in Backlog(c), Dispatch(d, {b \in {c} : Current(b)}) PROVE Pushes
    BY <1>1, <1>3, <2>1, Dispatches, Backlogged, AttemptPushes DEF DrainStep
  <2> QED
    BY <1>1, <1>3, <2>1 DEF DrainStep
<1>4. ASSUME RouterStep, \A c \in Sockets : ~DrainStep(c), \A k \in Sockets : ~Register(k)
      PROVE  UNCHANGED toHost
  BY <1>4 DEF RouterStep, Disconnect, SocketClosed, DropSocket, HostOutcome, StartDrain, Timeout,
              Finish, QueueReturns, wire
<1>5. ASSUME Mishap \/ \E t \in Targets : Stored(t) PROVE UNCHANGED toHost
  BY <1>5 DEF Mishap, Stored, FinishFails, SocketBreaks, DropSocket, DrainFails, LeaseTick,
              Crash, Stop, Die, Restart, wire
<1>6. ASSUME NEW k \in Sockets, Heartbeat(k) PROVE UNCHANGED toHost
  BY <1>6 DEF Heartbeat
<1> QED
  BY <1>1, <1>2, <1>3, <1>4, <1>5, <1>6, RegisterPushes DEF RouterSteps

(* What the router learns: nothing, or an answer of a host, or of the queue  *)
(* of an adapter                                                             *)
Hears ==
    \A d \in Deliveries : op'[d].pc \in {"answered", "resolved"} /\ op'[d].ok =>
        /\ op'[d].conn = op[d].conn /\ op[d].conn \in Conns
        /\ \/ op[d].pc \in {"answered", "resolved"} /\ op[d].ok
           \/ Holds(toRouter[conns[op[d].conn].sock], "accept", d)
           \/ <<conns[op[d].conn].session, d>> \in native'

LEMMA OpConns == ASSUME Typed PROVE \A d \in Deliveries : op[d].pc # "none" => op[d].conn \in Conns
<1>1. \A d \in Deliveries : op[d] \in Ops
  BY Types
<1> QED
  BY <1>1 DEF Ops, Conns

LEMMA QuietHears ==
    ASSUME Typed, \A d \in Deliveries : op'[d] = op[d] \/ op'[d].pc = "none" \/ ~op'[d].ok \/ op'[d].pc = "waiting"
                                         \/ op'[d].pc = "queueing"
    PROVE  Hears
  BY OpConns DEF Hears

LEMMA RejectHears ==
    ASSUME Typed, NEW C, op' = RejectPending(op, C) PROVE Hears
<1>1. \A d \in Deliveries : op'[d] = op[d] \/ ~op'[d].ok
  BY Rejected
<1> QED
  BY <1>1, QuietHears

LEMMA OutcomeHears ==
    ASSUME Typed, NEW k \in Sockets, NEW type \in {"accept", "reject"}, HostOutcome(k, type)
    PROVE  Hears
<1> DEFINE f == Head(toRouter[k])
           o == [op[f.d] EXCEPT !.pc = "answered", !.ok = (type = "accept")]
<1>1. toRouter[k] \in Seq(HostFrames) /\ toRouter[k] # <<>> /\ f.type = type
  BY Types DEF HostOutcome, Received
<1>2. Holds(toRouter[k], type, f.d)
  BY <1>1, HoldsLess
<1>3. op' = op \/ (Pending(k, f) /\ op' = [op EXCEPT ![f.d] = o])
  BY DEF HostOutcome
<1>4. op \in [Deliveries -> Ops] /\ \A d \in Deliveries : op[d] \in Ops
  BY Types
<1>5. CASE op' = op
  BY <1>5, QuietHears
<1>6. CASE Pending(k, f) /\ op' = [op EXCEPT ![f.d] = o] /\ f.d \in Deliveries
  <2>1. op[f.d].conn \in Conns /\ conns[op[f.d].conn].sock = k
    BY <1>6 DEF Pending, ConnectionsOf
  <2>2. o.conn = op[f.d].conn /\ o.ok = (type = "accept")
    BY <1>4, <1>6 DEF Ops
  <2> HIDE DEF o, f
  <2>3. op'[f.d] = o /\ \A d \in Deliveries : d # f.d => op'[d] = op[d]
    BY <1>4, <1>6
  <2> QED
    BY <1>2, <2>1, <2>2, <2>3, OpConns DEF Hears
<1>7. CASE f.d \notin Deliveries
  <2> HIDE DEF o, f
  <2> QED
    BY <1>3, <1>4, <1>7, QuietHears
<1> QED
  BY <1>3, <1>5, <1>6, <1>7

LEMMA RouterHears == ASSUME Typed, RouterSteps PROVE Hears
<1>0. op \in [Deliveries -> Ops] /\ \A d \in Deliveries : op[d] \in Ops
  BY Types
<1>1. ASSUME UNCHANGED op PROVE Hears
  BY <1>1, QuietHears
<1>2. ASSUME NEW k \in Sockets, Register(k) \/ SocketClosed(k) \/ SocketBreaks(k) PROVE Hears
  BY <1>2, RejectHears DEF Register, SocketClosed, SocketBreaks, DropSocket
<1>3. ASSUME NEW d \in Deliveries, Timeout(d) PROVE Hears
  BY <1>0, <1>3, QuietHears DEF Timeout, Ops
<1>4. ASSUME NEW d \in Deliveries, Finish(d) \/ FinishFails(d) PROVE Hears
  BY <1>0, <1>4, QuietHears DEF Finish, FinishFails, NoOp
<1>5. ASSUME NEW d \in Deliveries, NEW c, Attempt(d, c) PROVE Hears
  <2>1. \A b \in Deliveries : op'[b] = op[b] \/ op'[b].ok = FALSE
    BY <1>0, <1>5 DEF Attempt
  <2> QED
    BY <2>1, QuietHears
<1>6. ASSUME NEW d \in Deliveries, Notified(d) PROVE Hears
  BY <1>1, <1>5, <1>6, Dispatches DEF Notified, HandleNotify
<1>7. ASSUME NEW c \in Sockets, DrainStep(c) PROVE Hears
  <2>1. ASSUME NEW d \in Backlog(c), Dispatch(d, {b \in {c} : Current(b)}) PROVE Hears
    <3>1. d \in Deliveries
      BY Types DEF Backlog, Deliveries
    <3> QED
      BY <1>1, <1>5, <2>1, <3>1, Dispatches
  <2> QED
    BY <1>1, <1>7, <2>1 DEF DrainStep
<1>8. ASSUME Crash \/ Stop PROVE Hears
  BY <1>8, QuietHears DEF Crash, Stop, Die, NoOp
<1>9. ASSUME NEW d \in Deliveries, NEW took \in BOOLEAN, NEW ok \in BOOLEAN, QueueReturns(d, took, ok)
      PROVE  Hears
  <2>1. /\ op' = [op EXCEPT ![d].pc = "resolved", ![d].ok = ok] /\ op[d].pc = "queueing"
        /\ ok => native' = native \cup {<<conns[op[d].conn].session, d>>}
    BY <1>9 DEF QueueReturns
  <2>2. op'[d].ok = ok /\ op'[d].conn = op[d].conn /\ \A b \in Deliveries : b # d => op'[b] = op[b]
    BY <1>0, <2>1 DEF Ops
  <2> QED
    BY <2>1, <2>2, OpConns DEF Hears
<1>10. ASSUME RouterStep,
              \A k \in Sockets : ~Register(k) /\ ~SocketClosed(k)
                                 /\ \A type \in {"accept", "reject"} : ~HostOutcome(k, type),
              \A c \in Sockets : ~DrainStep(c),
              \A d \in Deliveries : /\ ~Timeout(d) /\ ~Finish(d)
                                    /\ \A took, ok \in BOOLEAN : ~QueueReturns(d, took, ok)
       PROVE  UNCHANGED op
  BY <1>10 DEF RouterStep, Disconnect, StartDrain
<1>11. ASSUME Mishap \/ \E t \in Targets : Stored(t),
              \A d \in Deliveries : ~FinishFails(d),
              \A k \in Sockets : ~SocketBreaks(k), ~Crash, ~Stop
       PROVE  UNCHANGED op
  BY <1>11 DEF Mishap, Stored, DrainFails, LeaseTick, Restart, memory
<1>12. ASSUME NEW k \in Sockets, Heartbeat(k) PROVE UNCHANGED op
  BY <1>12 DEF Heartbeat, memory
<1> QED
  BY <1>1, <1>2, <1>3, <1>4, <1>6, <1>7, <1>8, <1>9, <1>10, <1>11, <1>12, OutcomeHears DEF RouterSteps

(* What the queues of the adapters take was in flight                        *)
Queues ==
    /\ native \subseteq native'
    /\ \A r \in native' \ native :
          \E d \in Deliveries : op[d].pc = "queueing" /\ r = <<conns[op[d].conn].session, d>>

LEMMA RouterQueues == ASSUME Typed, RouterSteps PROVE Queues
<1>1. ASSUME UNCHANGED native PROVE Queues
  BY <1>1 DEF Queues
<1>2. ASSUME NEW d \in Deliveries, NEW took \in BOOLEAN, NEW ok \in BOOLEAN, QueueReturns(d, took, ok)
      PROVE  Queues
  BY <1>2 DEF QueueReturns, Queues
<1>3. ASSUME Crash \/ Stop PROVE Queues
  <2>1. PICK D \in SUBSET {d \in Deliveries : op[d].pc = "queueing"} :
              native' = native \cup {<<conns[op[d].conn].session, d>> : d \in D}
    BY <1>3 DEF Crash, Stop, Die
  <2> QED
    BY <2>1 DEF Queues
<1>4. ASSUME RouterStep, \A d \in Deliveries : \A took, ok \in BOOLEAN : ~QueueReturns(d, took, ok)
      PROVE  UNCHANGED native
  BY <1>4 DEF RouterStep, Register, Disconnect, SocketClosed, DropSocket, HostOutcome, StartDrain,
              DrainStep, Timeout, Finish
<1>5. ASSUME \/ Mishap /\ ~Crash /\ ~Stop
             \/ \E t \in Targets : Stored(t)
             \/ \E d \in Deliveries : Notified(d)
      PROVE  UNCHANGED native
  BY <1>5 DEF Mishap, Stored, Notified, HandleNotify, FinishFails, SocketBreaks, DropSocket, DrainFails,
              LeaseTick, Restart
<1>6. ASSUME NEW k \in Sockets, Heartbeat(k) PROVE UNCHANGED native
  BY <1>6 DEF Heartbeat
<1> QED
  BY <1>1, <1>2, <1>3, <1>4, <1>5, <1>6 DEF RouterSteps

LEMMA RouterDraws == ASSUME Typed, RouterSteps PROVE UNCHANGED owner /\ \A k \in Sockets : Drained(k)
<1>1. ASSUME NEW k \in Sockets, Register(k) PROVE UNCHANGED owner /\ \A j \in Sockets : Drained(j)
  BY <1>1, ConsumedDrains DEF Register
<1> QED
  BY <1>1, RouterContinues DEF Continues

LEMMA DrainedHolds ==
    ASSUME Typed, NEW k \in Sockets, Drained(k), NEW type, NEW d, Holds(toRouter'[k], type, d)
    PROVE  Holds(toRouter[k], type, d)
<1>1. toRouter[k] \in Seq(HostFrames)
  BY Types
<1> QED
  BY <1>1, HoldsLess, HoldsNothing DEF Drained

(* What is in flight goes to a session it is meant for                       *)
LEMMA InFlightMeant ==
    ASSUME Typed, OpsInv, NEW d \in Deliveries, op[d].pc # "none"
    PROVE  op[d].conn \in Conns /\ Meant(conns[op[d].conn].session, d)
<1>1. Len(attempts[d]) \in Nat /\ DOMAIN attempts[d] = 1..Len(attempts[d])
  BY Opened
<1>2. op[d].n \in DOMAIN attempts[d] /\ attempts[d][op[d].n].conn = op[d].conn
  <2>1. InFlight(d)
    BY DEF OpsInv
  <2>2. op[d].n = Len(attempts[d]) /\ op[d].n # 0 /\ attempts[d][op[d].n].conn = op[d].conn
    BY <2>1 DEF InFlight
  <2> QED
    BY <1>1, <2>2
<1> QED
  BY <1>2, OpConns DEF OpsInv, Tried

LEMMA RouterHands ==
    ASSUME Typed, RowsInv, OpsInv, Uppers, HandInv, RouterSteps, UNCHANGED <<hostVars, sessionOf>>
    PROVE  HandInv'
<1>1. /\ Works /\ Pushes /\ Hears /\ Queues
      /\ UNCHANGED owner /\ \A k \in Sockets : Drained(k)
      /\ UNCHANGED <<tail, handed, sessionOf>>
  BY RouterWorks, RouterPushes, RouterHears, RouterQueues, RouterDraws DEF hostVars
<1>2. /\ \A s \in Sessions : \A d : Meant(s, d) => Meant(s, d)'
      /\ \A c \in Conns : conns'[c].session = conns[c].session
      /\ native \subseteq native' /\ \A h \in Hosts : Taken(h)' = Taken(h)
  BY <1>1, MeantEndures DEF Works, Endures, Queues, Taken
<1>3. /\ \A k \in DOMAIN owner : owner[k] \in Hosts /\ k \in Sockets
      /\ \A h \in Hosts : sessionOf[h] \in Sessions
      /\ \A c \in Conns : /\ conns[c].session = sessionOf[owner[conns[c].sock]]
                          /\ conns[c].sock \in DOMAIN owner /\ conns[c].session \in Sessions
  BY Opened DEF Typed, TypeOK, WireTypeOK, RowsInv, Origins, ConnRows
<1>4. Pushed'
  BY <1>1, <1>2, <1>3 DEF HandInv, Pushed, Pushes
<1>5. Waiting'
  BY <1>1, <1>2, <1>3 DEF HandInv, Waiting
<1>6. Delivered'
  <2>1. ASSUME NEW s \in Sessions, NEW d \in Deliveries, <<s, d>> \in native' PROVE Meant(s, d)
    <3>1. CASE <<s, d>> \in native
      BY <3>1 DEF HandInv, Delivered
    <3>2. ASSUME NEW b \in Deliveries, op[b].pc = "queueing", <<s, d>> = <<conns[op[b].conn].session, b>>
          PROVE  Meant(s, d)
      BY <3>2, InFlightMeant
    <3> QED
      BY <1>1, <2>1, <3>1, <3>2 DEF Queues
  <2>2. \A h \in Hosts : \A d \in Taken(h)' : Meant(sessionOf[h], d)'
    BY <1>1, <1>2, <1>3 DEF HandInv, Delivered
  <2> QED
    BY <1>1, <1>2, <2>1, <2>2 DEF Delivered
<1>7. Acknowledged'
  BY <1>1, <1>2, <1>3, DrainedHolds DEF HandInv, Acknowledged
<1>8. Answered'
  <2>1. \A s \in Sessions : \A d : Took(s, d) => Took(s, d)'
    BY <1>1, <1>2 DEF Took
  <2>2. ASSUME NEW d \in Deliveries, op'[d].pc \in {"answered", "resolved"}, op'[d].ok
        PROVE  \E s \in Sessions : s = conns'[op'[d].conn].session /\ Took(s, d)'
    <3>1. op'[d].conn = op[d].conn /\ op[d].conn \in Conns
      BY <1>1, <2>2 DEF Hears
    <3>2. PICK s \in Sessions : s = conns[op[d].conn].session
      BY <1>3, <3>1
    <3>3. s = conns'[op'[d].conn].session
      BY <1>2, <3>1, <3>2
    <3>4. CASE op[d].pc \in {"answered", "resolved"} /\ op[d].ok
      BY <2>1, <3>2, <3>3, <3>4 DEF HandInv, Answered
    <3>5. CASE Holds(toRouter[conns[op[d].conn].sock], "accept", d)
      <4>1. d \in Taken(owner[conns[op[d].conn].sock])
        BY <1>3, <3>1, <3>5 DEF HandInv, Acknowledged
      <4>2. Took(s, d)
        BY <1>3, <3>1, <3>2, <4>1 DEF Took
      <4> QED
        BY <2>1, <3>3, <4>2
    <3>6. CASE <<conns[op[d].conn].session, d>> \in native'
      BY <3>2, <3>3, <3>6 DEF Took
    <3> QED
      BY <1>1, <2>2, <3>4, <3>5, <3>6 DEF Hears
  <2> QED
    BY <2>2 DEF Answered
<1> QED
  BY <1>4, <1>5, <1>6, <1>7, <1>8 DEF HandInv

(* What hosts do with deliveries: they read what was pushed, take what waits *)
(* for its turn, and answer what they took                                   *)
Reads ==
    \A k \in DOMAIN owner' : \A d \in Deliveries :
        Holds(toHost'[k], "deliver", d) => k \in DOMAIN owner /\ Holds(toHost[k], "deliver", d)
Answers ==
    \A k \in DOMAIN owner' : \A d \in Deliveries :
        Holds(toRouter'[k], "accept", d) =>
            k \in DOMAIN owner /\ (Holds(toRouter[k], "accept", d) \/ d \in Taken(owner[k])')
Waits ==
    \A g \in Hosts : \A i \in DOMAIN tail'[g] :
        \/ \E j \in DOMAIN tail[g] : tail'[g][i] = tail[g][j]
        \/ LET e == tail'[g][i]
           IN  e.sock \in DOMAIN owner /\ owner[e.sock] = g /\ Holds(toHost[e.sock], "deliver", e.d)
Takes ==
    \A g \in Hosts :
        /\ Taken(g) \subseteq Taken(g)'
        /\ \A d \in Taken(g)' : d \in Taken(g) \/ \E i \in DOMAIN tail[g] : d = tail[g][i].d
Handles == (\A k \in DOMAIN owner : owner'[k] = owner[k]) /\ Reads /\ Answers /\ Waits /\ Takes

LEMMA HandlesKeeps ==
    ASSUME Typed, HandInv, Handles, UNCHANGED <<routerVars, sessionOf>> PROVE HandInv'
<1>1. /\ \A s, d : Meant(s, d)' <=> Meant(s, d)
      /\ UNCHANGED <<op, conns, native, sessionOf>>
  BY DEF routerVars, rows, memory, Meant
<1>2. /\ \A k \in DOMAIN owner : owner'[k] = owner[k] /\ owner[k] \in Hosts
      /\ tail \in [Hosts -> Seq(Queued)]
      /\ \A g \in Hosts : \A i \in DOMAIN tail[g] :
            tail[g][i].sock \in DOMAIN owner /\ tail[g][i].d \in Deliveries
  <2>1. ASSUME NEW g \in Hosts, NEW i \in DOMAIN tail[g] PROVE tail[g][i] \in Queued
    BY HostTypes, ElementOfSeq
  <2> QED
    BY <2>1, Opened, HostTypes DEF Handles, Queued
<1>3. Pushed'
  BY <1>1, <1>2 DEF HandInv, Pushed, Handles, Reads
<1>4. Waiting'
  <2> SUFFICES ASSUME NEW g \in Hosts, NEW i \in DOMAIN tail'[g]
               PROVE  owner'[tail'[g][i].sock] = g /\ Meant(sessionOf[g], tail'[g][i].d)
    BY <1>1 DEF Waiting
  <2>1. ASSUME NEW j \in DOMAIN tail[g], tail'[g][i] = tail[g][j]
        PROVE  owner'[tail'[g][i].sock] = g /\ Meant(sessionOf[g], tail'[g][i].d)
    BY <1>2, <2>1 DEF HandInv, Waiting
  <2>2. ASSUME NEW e, e = tail'[g][i], e.sock \in DOMAIN owner, owner[e.sock] = g,
               Holds(toHost[e.sock], "deliver", e.d)
        PROVE  owner'[e.sock] = g /\ Meant(sessionOf[g], e.d)
    <3>1. e.d \in Deliveries
      <4>1. toHost[e.sock] \in Seq(RouterFrames)
        BY <2>2, HostTypes, Opened
      <4>2. PICK n \in DOMAIN toHost[e.sock] : toHost[e.sock][n].type = "deliver" /\ toHost[e.sock][n].d = e.d
        BY <2>2 DEF Holds
      <4>3. toHost[e.sock][n] \in RouterFrames
        BY <4>1, ElementOfSeq
      <4> QED
        BY <4>2, <4>3 DEF RouterFrames
    <3> QED
      BY <1>2, <2>2, <3>1 DEF HandInv, Pushed
  <2> QED
    BY <2>1, <2>2 DEF Handles, Waits
<1>5. Delivered'
  <2>1. ASSUME NEW g \in Hosts, NEW d \in Taken(g)' PROVE Meant(sessionOf[g], d)
    BY DEF HandInv, Delivered, Waiting, Handles, Takes
  <2> QED
    BY <1>1, <2>1 DEF HandInv, Delivered
<1>6. Acknowledged'
  <2> SUFFICES ASSUME NEW k \in DOMAIN owner', NEW d \in Deliveries, Holds(toRouter'[k], "accept", d)
               PROVE  d \in Taken(owner[k])'
    BY DEF Acknowledged
  <2>1. k \in DOMAIN owner /\ (Holds(toRouter[k], "accept", d) \/ d \in Taken(owner[k])')
    BY DEF Handles, Answers
  <2>2. PICK g \in Hosts : g = owner[k] /\ g = owner'[k]
    BY <1>2, <2>1
  <2>3. Taken(g) \subseteq Taken(g)'
    BY DEF Handles, Takes
  <2> QED
    BY <2>1, <2>2, <2>3 DEF HandInv, Acknowledged
<1>7. Answered'
  <2>1. \A s, d : Took(s, d) => Took(s, d)'
    BY <1>1 DEF Took, Handles, Takes
  <2> QED
    BY <1>1, <2>1 DEF HandInv, Answered
<1> QED
  BY <1>3, <1>4, <1>5, <1>6, <1>7 DEF HandInv

LEMMA ReadsLess ==
    ASSUME Typed, UNCHANGED owner,
           \A k \in Sockets : \/ toHost'[k] = toHost[k] \/ toHost'[k] = <<>>
                              \/ toHost[k] # <<>> /\ toHost'[k] = Tail(toHost[k])
    PROVE  Reads
<1>1. \A k \in Sockets : toHost[k] \in Seq(RouterFrames)
  BY Types
<1>2. ASSUME NEW k \in Sockets, NEW d, Holds(toHost'[k], "deliver", d) PROVE Holds(toHost[k], "deliver", d)
  BY <1>1, <1>2, HoldsLess, HoldsNothing
<1> QED
  BY <1>2, Opened DEF Reads

LEMMA AnswersNothing ==
    ASSUME Typed, UNCHANGED owner,
           \A k \in Sockets : \/ toRouter'[k] = toRouter[k]
                              \/ \E f \in HostFrames : f.type # "accept" /\ toRouter'[k] = Append(toRouter[k], f)
    PROVE  Answers
<1>1. \A k \in Sockets : toRouter[k] \in Seq(HostFrames)
  BY Types
<1>2. ASSUME NEW k \in Sockets, NEW d, Holds(toRouter'[k], "accept", d) PROVE Holds(toRouter[k], "accept", d)
  <2>1. ASSUME NEW f \in HostFrames, f.type # "accept", toRouter'[k] = Append(toRouter[k], f)
        PROVE  Holds(toRouter[k], "accept", d)
    BY <1>1, <1>2, <2>1, HoldsMore
  <2> QED
    BY <1>2, <2>1
<1> QED
  BY <1>2, Opened DEF Answers

LEMMA WaitsLess ==
    ASSUME Typed, \A g \in Hosts : \/ tail'[g] = tail[g] \/ tail'[g] = <<>>
                                   \/ tail[g] # <<>> /\ tail'[g] = Tail(tail[g])
    PROVE  Waits
<1>1. ASSUME NEW g \in Hosts, NEW i \in DOMAIN tail'[g] PROVE \E j \in DOMAIN tail[g] : tail'[g][i] = tail[g][j]
  <2>1. CASE tail'[g] = tail[g]
    BY <2>1
  <2>2. CASE tail'[g] = <<>>
    BY <2>2
  <2>3. CASE tail[g] # <<>> /\ tail'[g] = Tail(tail[g])
    BY <2>3, Dequeued
  <2> QED
    BY <2>1, <2>2, <2>3
<1> QED
  BY <1>1 DEF Waits

LEMMA TakesNothing == ASSUME UNCHANGED handed PROVE Takes
  BY DEF Takes, Taken

LEMMA ReceiveHandles == ASSUME Typed, LinkInv, NEW h \in Hosts, ReceiveDelivery(h) PROVE Handles
<1> DEFINE f == Head(toHost[hsock[h]])
           e == [sock |-> hsock[h], d |-> f.d, n |-> f.n]
<1>1. /\ Receives(h, "deliver") /\ Read(h) /\ tail' = [tail EXCEPT ![h] = Append(@, e)]
      /\ UNCHANGED <<handed, owner, toRouter>>
  BY DEF ReceiveDelivery
<1>2. /\ f \in RouterFrames /\ f.type = "deliver" /\ hsock[h] \in DOMAIN owner
      /\ toHost[hsock[h]] \in Seq(RouterFrames) /\ toHost[hsock[h]] # <<>>
      /\ \A j \in Sockets : toHost'[j] = IF j = hsock[h] THEN Tail(toHost[j]) ELSE toHost[j]
  BY <1>1, ReadFrame DEF Receives
<1>3. e \in Queued
  BY <1>2 DEF Queued, RouterFrames
<1>4. Holds(toHost[hsock[h]], "deliver", f.d)
  BY <1>2, HoldsLess
<1>5. owner[hsock[h]] = h
  <2>1. hsock[h] # 0
    BY <1>1, HostTypes DEF Receives
  <2> QED
    BY <2>1 DEF LinkInv, Ends
<1>6. e.sock \in DOMAIN owner /\ owner[e.sock] = h /\ Holds(toHost[e.sock], "deliver", e.d)
  BY <1>2, <1>4, <1>5
<1> HIDE DEF e, f
<1>7. Waits
  <2>1. tail \in [Hosts -> Seq(Queued)] /\ tail[h] \in Seq(Queued)
    BY HostTypes
  <2>2. \A g \in Hosts : tail'[g] = IF g = h THEN Append(tail[h], e) ELSE tail[g]
    BY <1>1, <2>1
  <2>3. /\ Len(tail[h]) \in Nat /\ DOMAIN tail[h] = 1..Len(tail[h])
        /\ DOMAIN Append(tail[h], e) = 1..(Len(tail[h]) + 1)
        /\ \A i \in DOMAIN tail[h] : Append(tail[h], e)[i] = tail[h][i]
        /\ Append(tail[h], e)[Len(tail[h]) + 1] = e
    BY <1>3, <2>1, Appended
  <2>4. ASSUME NEW i \in DOMAIN Append(tail[h], e)
        PROVE  \/ i \in DOMAIN tail[h] /\ Append(tail[h], e)[i] = tail[h][i]
               \/ Append(tail[h], e)[i] = e
    BY <2>3
  <2> QED
    BY <1>6, <2>2, <2>4 DEF Waits
<1>8. Answers
  BY <1>1, AnswersNothing
<1>9. Reads
  BY <1>1, <1>2, ReadsLess
<1> QED
  BY <1>1, <1>7, <1>8, <1>9, TakesNothing DEF Handles

LEMMA ConnectHandles == ASSUME Typed, LinkInv, NEW h \in Hosts, Connect(h, running) PROVE Handles
<1> DEFINE k == Len(owner) + 1
           q == <<Frame("register", 0, 0)>>
<1>1. /\ owner' = Append(owner, h) /\ k \in Sockets
      /\ toRouter' = [toRouter EXCEPT ![k] = q]
      /\ UNCHANGED <<tail, handed, toHost>>
  BY DEF Connect
<1>2. /\ DOMAIN owner' = DOMAIN owner \cup {k} /\ k \notin DOMAIN owner
      /\ \A j \in DOMAIN owner : owner'[j] = owner[j] /\ j \in Sockets
  <2>1. /\ DOMAIN owner = 1..Len(owner) /\ Len(owner) \in Nat /\ DOMAIN Append(owner, h) = 1..(Len(owner) + 1)
        /\ \A j \in DOMAIN owner : Append(owner, h)[j] = owner[j]
    BY Appended DEF Typed, TypeOK, WireTypeOK
  <2> QED
    BY <1>1, <2>1, Opened
<1>3. \A d : ~Holds(q, "accept", d)
  BY DEF Holds, Frame
<1> HIDE DEF q, k
<1>4. toHost[k] = <<>>
  <2>1. k \notin clientEnd
    BY <1>2, HostTypes
  <2> QED
    BY <1>1, <2>1 DEF LinkInv, Ends
<1>5. \A d : ~Holds(toHost'[k], "deliver", d)
  BY <1>1, <1>4, HoldsNothing
<1>6. Reads
  BY <1>1, <1>2, <1>5 DEF Reads
<1>7. toRouter'[k] = q /\ \A j \in DOMAIN owner : toRouter'[j] = toRouter[j]
  BY <1>1, <1>2, HostTypes
<1>8. Answers
  BY <1>2, <1>3, <1>7 DEF Answers
<1> QED
  BY <1>1, <1>2, <1>6, <1>8, WaitsLess, TakesNothing DEF Handles

(* An answer goes out on the socket its delivery came from                   *)
LEMMA ReplyAnswers ==
    ASSUME Typed, HandInv, NEW h \in Hosts, tail[h] # <<>>, NEW type \in {"accept", "reject"}, Reply(h, type),
           type = "accept" => Head(tail[h]).d \in Taken(h)'
    PROVE  Answers /\ Waits
<1> DEFINE e == Head(tail[h])
           f == Frame(type, e.d, e.n)
<1>1. /\ f \in HostFrames
      /\ \A j \in Sockets :
            \/ toRouter'[j] = toRouter[j]
            \/ j = e.sock /\ toRouter'[j] = Append(toRouter[j], f)
      /\ \A g \in Hosts : tail'[g] = IF g = h THEN Tail(tail[g]) ELSE tail[g]
  BY Replied
<1>2. f.type = type /\ f.d = e.d
  BY DEF Frame
<1>3. e.sock \in DOMAIN owner /\ owner[e.sock] = h /\ UNCHANGED owner
  BY Dequeued DEF HandInv, Waiting, Queued, Reply
<1>4. type = "accept" => e.d \in Taken(h)'
  OBVIOUS
<1> HIDE DEF e, f
<1>5. \A j \in Sockets : toRouter[j] \in Seq(HostFrames)
  BY Types
<1>6. ASSUME NEW k \in DOMAIN owner', NEW d \in Deliveries, Holds(toRouter'[k], "accept", d)
      PROVE  k \in DOMAIN owner /\ (Holds(toRouter[k], "accept", d) \/ d \in Taken(owner[k])')
  <2>1. k \in DOMAIN owner /\ k \in Sockets
    BY <1>3, Opened
  <2>2. CASE toRouter'[k] = toRouter[k]
    BY <1>6, <2>1, <2>2
  <2>3. CASE k = e.sock /\ toRouter'[k] = Append(toRouter[k], f)
    <3>1. Holds(toRouter[k], "accept", d) \/ (f.type = "accept" /\ f.d = d)
      BY <1>1, <1>5, <1>6, <2>1, <2>3, HoldsMore
    <3>2. f.type = "accept" /\ f.d = d => d \in Taken(h)'
      BY <1>2, <1>4
    <3>3. owner'[k] = h
      BY <1>3, <2>3
    <3> QED
      BY <2>1, <3>1, <3>2, <3>3
  <2> QED
    BY <1>1, <2>1, <2>2, <2>3
<1>7. Answers
  BY <1>6 DEF Answers
<1>8. Waits
  BY <1>1, WaitsLess
<1> QED
  BY <1>7, <1>8

LEMMA EndHandles == ASSUME Typed, HandInv, NEW h \in Hosts, EndDeliver(h) PROVE Handles
<1> DEFINE d == Head(tail[h]).d
<1>1. /\ tail[h] # <<>> /\ UNCHANGED <<owner, toHost>>
      /\ \/ handed' = [handed EXCEPT ![h] = Append(@, d)] /\ Reply(h, "accept")
         \/ handed' = handed /\ Reply(h, "reject")
  BY HostTypes DEF EndDeliver, Reply
<1>2. 1 \in DOMAIN tail[h] /\ d = tail[h][1].d /\ d \in Deliveries
  BY <1>1, Dequeued DEF Queued
<1>3. d = Head(tail[h]).d
  OBVIOUS
<1> HIDE DEF d
<1>4. handed \in [Hosts -> Seq(Deliveries)] /\ handed[h] \in Seq(Deliveries)
  BY HostTypes
<1>5. /\ Len(handed[h]) \in Nat /\ DOMAIN handed[h] = 1..Len(handed[h])
      /\ DOMAIN Append(handed[h], d) = 1..(Len(handed[h]) + 1)
      /\ \A i \in DOMAIN handed[h] : Append(handed[h], d)[i] = handed[h][i]
      /\ Append(handed[h], d)[Len(handed[h]) + 1] = d
  BY <1>2, <1>4, Appended
<1>6. CASE handed' = [handed EXCEPT ![h] = Append(@, d)] /\ Reply(h, "accept")
  <2>1. handed'[h] = Append(handed[h], d) /\ \A g \in Hosts : g # h => handed'[g] = handed[g]
    BY <1>4, <1>6
  <2>2. Taken(h)' = Taken(h) \cup {d}
    <3>1. {Append(handed[h], d)[i] : i \in DOMAIN Append(handed[h], d)} = {handed[h][i] : i \in DOMAIN handed[h]} \cup {d}
      BY <1>5
    <3> QED
      BY <2>1, <3>1 DEF Taken
  <2>3. \A g \in Hosts : g # h => Taken(g)' = Taken(g)
    BY <2>1 DEF Taken
  <2>4. Takes
    BY <1>2, <2>2, <2>3 DEF Takes
  <2>5. Answers /\ Waits
    BY <1>1, <1>3, <1>6, <2>2, ReplyAnswers
  <2> QED
    BY <1>1, <2>4, <2>5, ReadsLess DEF Handles
<1>7. CASE handed' = handed /\ Reply(h, "reject")
  <2>1. Answers /\ Waits
    BY <1>1, <1>7, ReplyAnswers
  <2> QED
    BY <1>1, <1>7, <2>1, ReadsLess, TakesNothing DEF Handles
<1> QED
  BY <1>1, <1>6, <1>7

LEMMA HostHandles ==
    ASSUME Typed, LinkInv, HandInv, NEW h \in Hosts, HostSteps(h) PROVE Handles
<1>1. ASSUME UNCHANGED <<owner, toRouter, tail, handed>>, Reads PROVE Handles
  BY <1>1, AnswersNothing, WaitsLess, TakesNothing DEF Handles
<1>2. ASSUME Registered(h) PROVE Handles
  <2>1. \A j \in Sockets : toHost'[j] = toHost[j] \/ (toHost[j] # <<>> /\ toHost'[j] = Tail(toHost[j]))
    BY <1>2, ReadFrame DEF Registered
  <2> QED
    BY <1>1, <1>2, <2>1, ReadsLess DEF Registered
<1>3. ASSUME Superseded(h) \/ ConnectionLost(h) \/ RegistrationTimesOut(h) PROVE Handles
  <2>1. DropClient(hsock[h]) /\ UNCHANGED <<owner, toRouter, tail, handed>>
    BY <1>3 DEF Superseded, ConnectionLost, RegistrationTimesOut
  <2>2. \A j \in Sockets : toHost'[j] = toHost[j] \/ toHost'[j] = <<>>
    BY <2>1, DroppedClient
  <2> QED
    BY <1>1, <2>1, <2>2, ReadsLess
<1>4. ASSUME NEW k, toHost' = [j \in Sockets |-> IF j = k THEN <<>> ELSE toHost[j]], UNCHANGED owner
      PROVE  Reads
  BY <1>4, ReadsLess
<1>5. ASSUME NEW k, NEW f \in HostFrames, f.type # "accept", UNCHANGED owner,
             toRouter' = toRouter \/ toRouter' = SendToRouter(toRouter, k, f)
      PROVE  Answers
  <2>1. \A j \in Sockets : SendToRouter(toRouter, k, f)[j] =
                 IF j = k /\ k \in routerEnd THEN Append(toRouter[j], f) ELSE toRouter[j]
    <3>1. toRouter \in [Sockets -> Seq(HostFrames)]
      BY Types
    <3> QED
      BY <3>1, ToRouters
  <2> QED
    BY <1>5, <2>1, AnswersNothing
<1>6. ASSUME Close(h) PROVE Handles
  <2>1. Frame("disconnect", 0, 0) \in HostFrames /\ Frame("disconnect", 0, 0).type # "accept"
    BY DEF Frame, HostFrames
  <2>2. /\ toRouter' = toRouter \/ toRouter' = SendToRouter(toRouter, hsock[h], Frame("disconnect", 0, 0))
        /\ toHost' = [j \in Sockets |-> IF j = hsock[h] THEN <<>> ELSE toHost[j]]
        /\ UNCHANGED <<owner, tail, handed>>
    BY <1>6 DEF Close
  <2> QED
    BY <1>4, <1>5, <2>1, <2>2, WaitsLess, TakesNothing DEF Handles
<1>7. ASSUME SendHeartbeat(h, Due(h)) PROVE Handles
  <2>1. Frame("heartbeat", 0, 0) \in HostFrames /\ Frame("heartbeat", 0, 0).type # "accept"
    BY DEF Frame, HostFrames
  <2>2. /\ toRouter' = SendToRouter(toRouter, hsock[h], Frame("heartbeat", 0, 0))
        /\ UNCHANGED <<owner, tail, handed, toHost>>
    BY <1>7 DEF SendHeartbeat, hostVars
  <2> QED
    BY <1>5, <2>1, <2>2, ReadsLess, WaitsLess, TakesNothing DEF Handles
<1>8. ASSUME HostCrash(h) PROVE Handles
  <2>1. /\ toHost' = [j \in Sockets |-> IF j = hsock[h] THEN <<>> ELSE toHost[j]]
        /\ tail' = [tail EXCEPT ![h] = <<>>]
        /\ UNCHANGED <<owner, toRouter, handed>>
    BY <1>8 DEF HostCrash
  <2>2. \A g \in Hosts : tail'[g] = tail[g] \/ tail'[g] = <<>>
    BY <2>1, HostTypes
  <2> QED
    BY <1>4, <2>1, <2>2, AnswersNothing, WaitsLess, TakesNothing DEF Handles
<1>9. ASSUME DeliverToClosed(h) PROVE Handles
  <2>1. tail[h] # <<>> /\ tail' = [tail EXCEPT ![h] = Tail(@)] /\ UNCHANGED <<owner, toRouter, toHost, handed>>
    BY <1>9 DEF DeliverToClosed, MayDeliver, wire
  <2>2. \A g \in Hosts : tail'[g] = tail[g] \/ (tail[g] # <<>> /\ tail'[g] = Tail(tail[g]))
    BY <2>1, HostTypes
  <2> QED
    BY <2>1, <2>2, ReadsLess, AnswersNothing, WaitsLess, TakesNothing DEF Handles
<1>10. ASSUME AcceptDuplicate(h) PROVE Handles
  <2>1. tail[h] # <<>> /\ Reply(h, "accept") /\ UNCHANGED <<owner, toHost, handed>>
    BY <1>10 DEF AcceptDuplicate, MayDeliver, Reply
  <2>2. Head(tail[h]).d \in Taken(h)'
    BY <1>10, <2>1 DEF AcceptDuplicate, Remembered, Taken
  <2>3. Answers /\ Waits
    BY <2>1, <2>2, ReplyAnswers
  <2> QED
    BY <2>1, <2>3, ReadsLess, TakesNothing DEF Handles
<1>11. ASSUME BeginDeliver(h) PROVE Handles
  BY <1>1, <1>11, ReadsLess DEF BeginDeliver, wire
<1>12. ASSUME ReconnectEnds(h) PROVE Handles
  BY <1>1, <1>12, ReadsLess DEF ReconnectEnds, wire
<1> QED
  BY <1>2, <1>3, <1>6, <1>7, <1>8, <1>9, <1>10, <1>11, <1>12, ReceiveHandles, ConnectHandles, EndHandles
  DEF HostSteps, HostStep, HostEnv

HandWorked == Worked /\ HandInv

LEMMA HandInit == Init => HandInv
<1> SUFFICES ASSUME Init PROVE HandInv
  OBVIOUS
<1>1. DOMAIN owner = {} /\ native = {} /\ \A h \in Hosts : tail[h] = <<>> /\ handed[h] = <<>>
  BY DEF Init, WireInit, RouterInit, HostInit
<1>2. \A d \in Deliveries : op[d].pc = "none"
  BY DEF Init, RouterInit, NoOp
<1> QED
  BY <1>1, <1>2 DEF HandInv, Pushed, Waiting, Delivered, Acknowledged, Answered, Taken

LEMMA HandStep == ASSUME HandWorked, Steps PROVE HandInv'
<1>1. ASSUME UNCHANGED <<routerVars, hostVars, wire, sessionOf>> PROVE HandInv'
  BY <1>1 DEF routerVars, rows, memory, hostVars, wire, HandWorked, HandInv, Pushed, Waiting,
              Delivered, Acknowledged, Answered, Taken, Took, Holds, Meant
<1>2. ASSUME RouterSteps, UNCHANGED <<hostVars, sessionOf>> PROVE HandInv'
  BY <1>2, RouterHands DEF HandWorked, Worked, Linked
<1>3. ASSUME NEW h \in Hosts, HostSteps(h), UNCHANGED <<routerVars, sessionOf>> PROVE HandInv'
  BY <1>3, HostHandles, HandlesKeeps DEF HandWorked, Worked, Linked
<1> QED
  BY <1>1, <1>2, <1>3 DEF Steps

LEMMA HandWorkedStep == HandWorked /\ Steps => HandWorked'
  BY HandStep, WorkedStep DEF HandWorked

LEMMA HandWorkedNext == HandWorked /\ [Next]_vars => HandWorked'
  BY HandWorkedStep, NextSteps DEF HandWorked, Worked, Linked

-----------------------------------------------------------------------------
(* The ledger *)

(* reached and settled, of the ledger                                        *)
ReachedPairs ==
    native \cup UNION {{<<sessionOf[h], d>> : d \in {handed[h][i] : i \in DOMAIN handed[h]}} : h \in Hosts}
SettledPairs ==
    {<<conns[attempts[d][accepted[d]].conn].session, d>> : d \in {e \in Deliveries : accepted[e] # 0}}

LEMMA ReachedExactly == \A s, d : <<s, d>> \in ReachedPairs <=> Took(s, d)
  BY DEF ReachedPairs, Took, Taken

(* Every pair is of a session and of a delivery that is meant for it         *)
ReachedSound == \A r \in ReachedPairs : r \in Sessions \X DOMAIN deliveries /\ Meant(r[1], r[2])

LEMMA ReachedMeant == Typed /\ HandInv => ReachedSound
<1> SUFFICES ASSUME Typed, HandInv, NEW r \in ReachedPairs
             PROVE  r \in Sessions \X DOMAIN deliveries /\ Meant(r[1], r[2])
  BY DEF ReachedSound
<1>1. native \subseteq Sessions \X Deliveries /\ \A h \in Hosts : sessionOf[h] \in Sessions
  BY DEF Typed, TypeOK, RouterTypeOK, WireTypeOK
<1>2. CASE r \in native
  <2>1. PICK s \in Sessions, d \in Deliveries : r = <<s, d>>
    BY <1>1, <1>2
  <2>2. Meant(s, d)
    BY <1>2, <2>1 DEF HandInv, Delivered
  <2> QED
    BY <2>1, <2>2 DEF Meant
<1>3. ASSUME NEW h \in Hosts, NEW d \in Taken(h), r = <<sessionOf[h], d>>
      PROVE  r \in Sessions \X DOMAIN deliveries /\ Meant(r[1], r[2])
  <2>1. Meant(sessionOf[h], d)
    BY DEF HandInv, Delivered
  <2> QED
    BY <1>1, <1>3, <2>1 DEF Meant
<1> QED
  BY <1>2, <1>3 DEF ReachedPairs, Taken

LEMMA SettledSame ==
    ASSUME Worked, Works, UNCHANGED accepted PROVE SettledPairs' = SettledPairs
<1>1. ASSUME NEW d \in Deliveries, accepted[d] # 0
      PROVE  conns'[attempts'[d][accepted[d]].conn].session = conns[attempts[d][accepted[d]].conn].session
  <2>1. accepted[d] \in DOMAIN attempts[d]
    BY <1>1 DEF Worked, OpsInv, Tried
  <2>2. attempts[d][accepted[d]].conn \in Conns
    BY <2>1, Opened DEF Worked, Linked, Attempts, Conns
  <2>3. attempts'[d][accepted[d]].conn = attempts[d][accepted[d]].conn
    BY <2>1, AttemptsRemain DEF Worked, Linked
  <2> QED
    BY <2>2, <2>3 DEF Works, Endures
<1> QED
  BY <1>1 DEF SettledPairs

(* An acceptance settles a delivery with a session it reached                *)
LEMMA SettledMore ==
    ASSUME HandWorked, Works, NEW d \in Deliveries, accepted'[d] # accepted[d],
           \A e \in Deliveries \ {d} : accepted'[e] = accepted[e]
    PROVE  LET r == <<conns[op[d].conn].session, d>>
           IN  /\ r \in ReachedPairs /\ \A q \in SettledPairs : q[2] # r[2]
               /\ SettledPairs' = SettledPairs \cup {r}
<1> DEFINE s == conns[op[d].conn].session
<1>0. Worked /\ Typed /\ OpsInv /\ HandInv
  BY DEF HandWorked, Worked, Linked
<1>1. Concludes(d)
  BY DEF Works, Steady, Tries
<1>2. PICK r \in {"returned", "rejected", "stale"} : EndsWith(d, r)
  BY <1>1 DEF Concludes
<1>3. r = "returned" /\ accepted'[d] = op[d].n /\ op[d].ok /\ op[d].pc \in {"answered", "resolved"}
  BY <1>2 DEF EndsWith
<1>4. InFlight(d) /\ op[d].conn \in Conns
  BY <1>0, <1>3, OpConns DEF OpsInv
<1>5. op[d].n \in DOMAIN attempts[d] /\ attempts[d][op[d].n].conn = op[d].conn
      /\ accepted[d] = 0 /\ op[d].n # 0
  <2>1. op[d].n = Len(attempts[d]) /\ op[d].n # 0 /\ accepted[d] = 0
        /\ attempts[d][op[d].n].conn = op[d].conn
    BY <1>4 DEF InFlight
  <2> QED
    BY <1>0, <2>1, Opened
<1>6. <<s, d>> \in ReachedPairs
  <2>1. Took(conns[op[d].conn].session, d)
    BY <1>0, <1>3 DEF HandInv, Answered
  <2> QED
    BY <2>1, ReachedExactly
<1>7. \A q \in SettledPairs : q[2] # d
  BY <1>5 DEF SettledPairs
<1>8. ASSUME NEW e \in Deliveries, accepted[e] # 0
      PROVE  conns'[attempts'[e][accepted[e]].conn].session = conns[attempts[e][accepted[e]].conn].session
  <2>1. accepted[e] \in DOMAIN attempts[e]
    BY <1>0, <1>8 DEF OpsInv, Tried
  <2>2. attempts[e][accepted[e]].conn \in Conns
    BY <1>0, <2>1, Opened DEF Attempts, Conns
  <2>3. attempts'[e][accepted[e]].conn = attempts[e][accepted[e]].conn
    BY <1>0, <2>1, AttemptsRemain
  <2> QED
    BY <2>2, <2>3 DEF Works, Endures
<1>9. conns'[attempts'[d][accepted'[d]].conn].session = s
  <2>1. attempts'[d][op[d].n].conn = op[d].conn
    BY <1>0, <1>5, AttemptsRemain
  <2> QED
    BY <1>3, <1>4, <2>1 DEF Works, Endures
<1> HIDE DEF s
<1>10. SettledPairs' = SettledPairs \cup {<<s, d>>}
  <2>1. SettledPairs' =
           {<<conns'[attempts'[e][accepted'[e]].conn].session, e>> : e \in {f \in Deliveries : accepted'[f] # 0}}
    BY DEF SettledPairs
  <2>2. \A e \in Deliveries : accepted'[e] # 0 <=> e = d \/ accepted[e] # 0
    BY <1>3, <1>5
  <2>3. \A e \in Deliveries : accepted[e] # 0 =>
           <<conns'[attempts'[e][accepted'[e]].conn].session, e>> = <<conns[attempts[e][accepted[e]].conn].session, e>>
    BY <1>5, <1>8
  <2>4. ASSUME NEW q \in SettledPairs' PROVE q \in SettledPairs \cup {<<s, d>>}
    <3>1. PICK e \in Deliveries :
              accepted'[e] # 0 /\ q = <<conns'[attempts'[e][accepted'[e]].conn].session, e>>
      BY <2>1, <2>4
    <3>2. CASE e = d
      BY <1>9, <3>1, <3>2
    <3>3. CASE e # d
      BY <2>2, <2>3, <3>1, <3>3 DEF SettledPairs
    <3> QED
      BY <3>2, <3>3
  <2>5. ASSUME NEW q \in SettledPairs \cup {<<s, d>>} PROVE q \in SettledPairs'
    <3>1. CASE q = <<s, d>>
      <4>1. accepted'[d] # 0 /\ q = <<conns'[attempts'[d][accepted'[d]].conn].session, d>>
        BY <1>9, <2>2, <3>1
      <4> QED
        BY <2>1, <4>1
    <3>2. ASSUME q \in SettledPairs PROVE q \in SettledPairs'
      <4>1. PICK e \in Deliveries :
                accepted[e] # 0 /\ q = <<conns[attempts[e][accepted[e]].conn].session, e>>
        BY <3>2 DEF SettledPairs
      <4> QED
        BY <2>1, <2>2, <2>3, <4>1
    <3> QED
      BY <2>5, <3>1, <3>2
  <2> QED
    BY <2>4, <2>5
<1> QED
  BY <1>6, <1>7, <1>10 DEF s

(* Which steps of the router the ledger can see                              *)
LEMMA RouterLedger ==
    ASSUME Typed, OpsInv, RouterSteps
    PROVE  \/ UNCHANGED <<deliveries, active, checkpoint, accepted>>
           \/ \E t \in Targets : Stored(t)
           \/ \E k \in Sockets : Register(k)
           \/ \E d \in Deliveries : Finish(d)
<1> DEFINE Same == UNCHANGED <<deliveries, active, checkpoint, accepted>>
<1>1. RouterStep /\ (\A k \in Sockets : ~Register(k)) /\ (\A d \in Deliveries : ~Finish(d)) => Same
  BY DEF RouterStep, Disconnect, SocketClosed, DropSocket, HostOutcome, StartDrain, DrainStep,
         Timeout, QueueReturns, rows
<1>2. Mishap \/ (\E d \in Deliveries : Notified(d)) => Same
  BY DEF Mishap, Notified, HandleNotify, FinishFails, SocketBreaks, DropSocket, DrainFails, LeaseTick, Crash,
         Stop, Die, Restart, rows
<1>3. \A k \in Sockets : Heartbeat(k) => Same
  BY DEF Heartbeat
<1> QED
  BY <1>1, <1>2, <1>3, SMTT(30) DEF RouterSteps

LEMMA ReachStep ==
    ASSUME HandWorked, HandWorked', UNCHANGED <<deliveries, active, checkpoint>>,
           ReachedPairs \subseteq ReachedPairs', SettledPairs' = SettledPairs
    PROVE  Ledger!Reach
<1>1. Typed' /\ HandInv'
  BY DEF HandWorked, Worked, Linked
<1>2. ReachedSound'
  BY <1>1, ReachedMeant, PTL
<1>3. \A r \in ReachedPairs' : r \in Sessions \X DOMAIN deliveries /\ Ledger!MeantFor(r[1], r[2])
  BY <1>2 DEF ReachedSound, Meant, Ledger!MeantFor
<1> QED
  BY <1>3 DEF Ledger!Reach, ReachedPairs, SettledPairs

LEMMA RegisterStep ==
    ASSUME HandWorked, HandWorked', UNCHANGED sessionOf, UNCHANGED handed, NEW k \in Sockets, Register(k)
    PROVE  Ledger!Next
<1> DEFINE p == PrincipalOf[sessionOf[owner[k]]]
<1>1. /\ UNCHANGED <<deliveries, accepted, native>> /\ active' = active \cup {p}
      /\ checkpoint' = IF p \in active THEN checkpoint ELSE [checkpoint EXCEPT ![p] = Len(deliveries)]
  BY DEF Register
<1>2. Works /\ ReachedPairs' = ReachedPairs
  BY <1>1, RegisterWorks DEF HandWorked, Worked, Linked, ReachedPairs
<1>3. SettledPairs' = SettledPairs
  BY <1>1, <1>2, SettledSame DEF HandWorked
<1>4. p \in Principals
  BY NewRow DEF HandWorked, Worked, Linked
<1> HIDE DEF p
<1>5. CASE p \in active
  <2>1. UNCHANGED <<deliveries, active, checkpoint>>
    BY <1>1, <1>5
  <2>2. Ledger!Reach
    BY <1>2, <1>3, <2>1, ReachStep
  <2> QED
    BY <2>2 DEF Ledger!Next
<1>6. CASE p \notin active
  <2>1. Ledger!Activate(p)
    BY <1>1, <1>2, <1>3, <1>6 DEF Ledger!Activate, ReachedPairs, SettledPairs
  <2> QED
    BY <1>4, <2>1 DEF Ledger!Next
<1> QED
  BY <1>5, <1>6

LEMMA StoreStep ==
    ASSUME HandWorked, UNCHANGED sessionOf, UNCHANGED handed, NEW t \in Targets, Stored(t)
    PROVE  Ledger!Next
<1>1. deliveries' = Append(deliveries, t) /\ UNCHANGED <<active, checkpoint, conns, attempts, accepted, native>>
  BY DEF Stored
<1>2. ReachedPairs' = ReachedPairs /\ SettledPairs' = SettledPairs
  BY <1>1 DEF ReachedPairs, SettledPairs
<1>3. t = [kind |-> t.kind, to |-> t.to]
      /\ \/ t.kind = "session" /\ t.to \in Sessions
         \/ t.kind = "principal" /\ t.to \in Principals
  BY DEF Targets
<1>4. Ledger!Add(t.kind, t.to)
  BY <1>1, <1>2, <1>3 DEF Ledger!Add, ReachedPairs, SettledPairs
<1> QED
  BY <1>3, <1>4 DEF Ledger!Next

LEMMA FinishStep ==
    ASSUME HandWorked, HandWorked', UNCHANGED sessionOf, UNCHANGED handed, NEW d \in Deliveries, Finish(d)
    PROVE  Ledger!Next
<1>1. UNCHANGED <<deliveries, active, checkpoint, native>>
      /\ \/ accepted' = accepted \/ accepted' = [accepted EXCEPT ![d] = op[d].n]
  BY DEF Finish
<1>2. Works /\ ReachedPairs' = ReachedPairs
  BY <1>1, FinishWorks DEF HandWorked, Worked, Linked, ReachedPairs
<1>3. accepted \in [Deliveries -> Nat]
  BY Types DEF HandWorked, Worked, Linked
<1>4. CASE accepted' = accepted
  <2>1. SettledPairs' = SettledPairs
    BY <1>2, <1>4, SettledSame DEF HandWorked
  <2>2. Ledger!Reach
    BY <1>1, <1>2, <2>1, ReachStep
  <2> QED
    BY <2>2 DEF Ledger!Next
<1>5. CASE accepted' # accepted
  <2>1. accepted' = [accepted EXCEPT ![d] = op[d].n] /\ accepted'[d] # accepted[d]
    BY <1>1, <1>3, <1>5
  <2>2. \A e \in Deliveries \ {d} : accepted'[e] = accepted[e]
    BY <1>3, <2>1
  <2>3. PICK r : r = <<conns[op[d].conn].session, d>>
    OBVIOUS
  <2>4. r \in ReachedPairs /\ (\A q \in SettledPairs : q[2] # r[2]) /\ SettledPairs' = SettledPairs \cup {r}
    BY <1>2, <2>1, <2>2, <2>3, SettledMore
  <2>5. Ledger!Settle(r)
    BY <1>1, <1>2, <2>4 DEF Ledger!Settle, ReachedPairs, SettledPairs
  <2> QED
    BY <2>4, <2>5 DEF Ledger!Next, ReachedPairs
<1> QED
  BY <1>4, <1>5

LEMMA RouterKeepsLedger ==
    ASSUME HandWorked, HandWorked', RouterSteps, UNCHANGED <<hostVars, sessionOf>> PROVE Ledger!Next
<1>0. UNCHANGED handed /\ UNCHANGED sessionOf
  BY DEF hostVars
<1>1. ASSUME UNCHANGED <<deliveries, active, checkpoint, accepted>> PROVE Ledger!Next
  <2>1. Works /\ native \subseteq native'
    BY RouterWorks, RouterQueues DEF HandWorked, Worked, Linked, Queues
  <2>2. SettledPairs' = SettledPairs
    BY <1>1, <2>1, SettledSame DEF HandWorked
  <2>3. ReachedPairs \subseteq ReachedPairs'
    BY <1>0, <2>1 DEF ReachedPairs
  <2>4. Ledger!Reach
    BY <1>1, <2>2, <2>3, ReachStep
  <2> QED
    BY <2>4 DEF Ledger!Next
<1> QED
  BY <1>0, <1>1, RouterLedger, RegisterStep, StoreStep, FinishStep DEF HandWorked, Worked, Linked

LEMMA HostKeepsLedger ==
    ASSUME HandWorked, HandWorked', NEW h \in Hosts, HostSteps(h), UNCHANGED <<routerVars, sessionOf>>
    PROVE  Ledger!Next
<1>1. UNCHANGED <<deliveries, active, checkpoint, accepted, attempts, conns, native, sessionOf>>
  BY DEF routerVars, rows
<1>2. Takes
  BY HostHandles DEF HandWorked, Worked, Linked, Handles
<1>3. ReachedPairs \subseteq ReachedPairs'
  BY <1>1, <1>2 DEF ReachedPairs, Takes, Taken
<1>4. SettledPairs' = SettledPairs
  BY <1>1 DEF SettledPairs
<1>5. Ledger!Reach
  BY <1>1, <1>3, <1>4, ReachStep
<1> QED
  BY <1>5 DEF Ledger!Next

LEMMA LedgerStep == HandWorked /\ HandWorked' /\ Steps => [Ledger!Next]_Ledger!ledgerVars
<1> SUFFICES ASSUME HandWorked, HandWorked', Steps PROVE [Ledger!Next]_Ledger!ledgerVars
  OBVIOUS
<1>1. CASE UNCHANGED <<routerVars, hostVars, wire, sessionOf>>
  BY <1>1 DEF routerVars, rows, hostVars, Ledger!ledgerVars
<1>2. ASSUME NEW h \in Hosts, HostSteps(h), UNCHANGED <<routerVars, sessionOf>> PROVE Ledger!Next
  BY <1>2, HostKeepsLedger
<1>3. CASE RouterSteps /\ UNCHANGED <<hostVars, sessionOf>>
  BY <1>3, RouterKeepsLedger
<1> QED
  BY <1>1, <1>2, <1>3 DEF Steps

LEMMA LedgerInit == Init => Ledger!Init
<1> SUFFICES ASSUME Init PROVE Ledger!Init
  OBVIOUS
<1>1. /\ deliveries = <<>> /\ active = {} /\ checkpoint = [p \in Principals |-> 0] /\ native = {}
      /\ \A h \in Hosts : DOMAIN handed[h] = {}
      /\ \A d \in Deliveries : accepted[d] = 0
  BY DEF Init, RouterInit, HostInit
<1>2. ReachedPairs = {} /\ SettledPairs = {}
  BY <1>1 DEF ReachedPairs, SettledPairs
<1> QED
  BY <1>1, <1>2 DEF Ledger!Init, ReachedPairs, SettledPairs

(* The dispatch and acceptance tables, with what hosts and adapters took,    *)
(* implement the abstract ledger: a delivery reaches only sessions it is     *)
(* meant for, is accepted at most once, for a session that has taken it, and *)
(* a principal receives nothing from before its activation.                  *)
THEOREM DeliveryImplementsLedger == Spec => KeepsLedger
<1>1. Init => HandWorked
  BY LinkedInit, OpsInit, HandInit DEF HandWorked, Worked
<1>2. Init => Ledger!Init
  BY LedgerInit
<1>3. HandWorked /\ HandWorked' /\ [Next]_vars => [Ledger!Next]_Ledger!ledgerVars
  BY NextSteps, LedgerStep DEF HandWorked, Worked, Linked
<1> QED
  BY <1>1, <1>2, <1>3, HandWorkedNext, PTL DEF Spec, KeepsLedger, Ledger!Spec

-----------------------------------------------------------------------------
(* Senders to an exact session *)

(* The message of a key is for its session, and a call is about it           *)
Addressed ==
    \A s \in Sessions : sent[s] # 0 => deliveries[sent[s]] = [kind |-> "session", to |-> s]
Walks(p) ==
    /\ call[p].pc # "idle" => call[p].d # 0 /\ call[p].d = sent[call[p].to]
    /\ call[p].pc = "asking" => request[p] # "none"
    /\ request[p] # "none" => call[p].pc # "idle"
    /\ answer[p] = "accepted" => call[p].pc # "idle" /\ accepted[call[p].d] # 0
Underway == \A p \in Senders : Walks(p)
SenderInv == SenderTypeOK /\ Addressed /\ Underway

(* What the ledger settles it has reached: its own invariant, of the tables  *)
Drawn == SettledPairs \subseteq ReachedPairs
ExactInv == HandWorked /\ SenderInv /\ Drawn

LEMMA DrawnNext == Drawn /\ [Ledger!Next]_Ledger!ledgerVars => Drawn'
<1> SUFFICES ASSUME Drawn, [Ledger!Next]_Ledger!ledgerVars PROVE Drawn'
  OBVIOUS
<1>1. ASSUME ReachedPairs \subseteq ReachedPairs', SettledPairs' = SettledPairs PROVE Drawn'
  BY <1>1 DEF Drawn
<1>2. ASSUME NEW r \in ReachedPairs, SettledPairs' = SettledPairs \cup {r}, ReachedPairs' = ReachedPairs
      PROVE  Drawn'
  BY <1>2 DEF Drawn
<1>3. CASE Ledger!Next
  <2>1. \/ ReachedPairs \subseteq ReachedPairs' /\ SettledPairs' = SettledPairs
        \/ \E r \in ReachedPairs : SettledPairs' = SettledPairs \cup {r} /\ ReachedPairs' = ReachedPairs
    BY <1>3, Zenon
    DEF Ledger!Next, Ledger!Add, Ledger!Activate, Ledger!Reach, Ledger!Settle, ReachedPairs, SettledPairs
  <2>2. ASSUME NEW r \in ReachedPairs, SettledPairs' = SettledPairs \cup {r}, ReachedPairs' = ReachedPairs
        PROVE  Drawn'
    BY <1>2, <2>2
  <2> QED
    BY <1>1, <2>1, <2>2, Zenon
<1>4. CASE UNCHANGED Ledger!ledgerVars
  <2>1. ReachedPairs' = ReachedPairs /\ SettledPairs' = SettledPairs
    BY <1>4, Zenon DEF Ledger!ledgerVars, ReachedPairs, SettledPairs
  <2> QED
    BY <2>1 DEF Drawn
<1> QED
  BY <1>3, <1>4

LEMMA SenderTypes ==
    ASSUME Typed, SenderInv
    PROVE  /\ Len(deliveries) \in Nat /\ Len(deliveries) <= MaxBacklog
           /\ DOMAIN deliveries = 1..Len(deliveries)
           /\ \A s \in Sessions : sent[s] \in 0..Len(deliveries)
           /\ \A p \in Senders :
                 /\ call[p] \in Calls /\ call[p].to \in Sessions
                 /\ call[p].pc # "idle" =>
                       /\ call[p].d \in DOMAIN deliveries /\ call[p].d \in Deliveries
                       /\ deliveries[call[p].d] = [kind |-> "session", to |-> call[p].to]
<1>1. /\ Len(deliveries) \in Nat /\ Len(deliveries) <= MaxBacklog
      /\ DOMAIN deliveries = 1..Len(deliveries) /\ DOMAIN deliveries \subseteq Deliveries
  BY Opened DEF Typed, TypeOK, RouterTypeOK
<1>2. /\ \A s \in Sessions : sent[s] \in 0..Len(deliveries)
      /\ \A p \in Senders : call[p] \in Calls /\ call[p].to \in Sessions
  BY DEF SenderInv, SenderTypeOK, Calls
<1>3. ASSUME NEW p \in Senders, call[p].pc # "idle"
      PROVE  /\ call[p].d \in DOMAIN deliveries
             /\ deliveries[call[p].d] = [kind |-> "session", to |-> call[p].to]
  <2>1. call[p].d # 0 /\ call[p].d = sent[call[p].to]
    BY <1>3 DEF SenderInv, Underway, Walks
  <2>2. call[p].d \in 1..Len(deliveries)
    BY <1>1, <1>2, <2>1
  <2> QED
    BY <1>1, <1>2, <2>1, <2>2 DEF SenderInv, Addressed
<1> QED
  BY <1>1, <1>2, <1>3

LEMMA ExactSteps == ASSUME Typed, SenderInv, [ExactNext]_exactVars PROVE Steps
<1>1. left \in [Events -> Nat] /\ "call" \in Events
  BY Types DEF Events
<1>2. ASSUME UNCHANGED vars PROVE Steps
  BY <1>1, <1>2 DEF vars, Steps
<1>3. ASSUME NEW p \in Senders, Store(p) PROVE Steps
  <2> DEFINE t == [kind |-> "session", to |-> call[p].to]
  <2>1. t \in Targets
    BY SenderTypes DEF Targets
  <2>2. left' \in [Events -> Nat] /\ UNCHANGED <<hostVars, sessionOf>>
    BY <1>1, <1>3, Spent DEF Store
  <2>3. Stored(t) \/ UNCHANGED <<routerVars, wire>>
    BY <1>3 DEF Store
  <2> HIDE DEF t
  <2> QED
    BY <2>1, <2>2, <2>3 DEF Steps, RouterSteps
<1>4. ASSUME NEW p \in Senders, Hear(p) PROVE Steps
  <2> DEFINE d == call[p].d
  <2>1. d \in DOMAIN deliveries /\ d \in Deliveries
    <3>1. call[p].pc # "idle"
      BY <1>4 DEF Hear, SenderInv, Underway, Walks
    <3> QED
      BY <3>1, SenderTypes
  <2>2. HandleNotify(d) /\ left' = left /\ UNCHANGED <<hostVars, sessionOf>>
    BY <1>4 DEF Hear
  <2> HIDE DEF d
  <2>3. CASE op[d].pc = "none"
    BY <1>1, <2>1, <2>2, <2>3 DEF Notified, Steps, RouterSteps
  <2>4. CASE op[d].pc # "none"
    <3>1. UNCHANGED <<routerVars, wire>>
      BY <2>2, <2>4 DEF HandleNotify, routerVars, rows, memory, wire
    <3> QED
      BY <1>1, <2>2, <3>1 DEF Steps
  <2> QED
    BY <2>3, <2>4
<1>5. ASSUME NEW p \in Senders, Ask(p) \/ Unheard(p) \/ Receive(p) \/ TimesOut(p) PROVE Steps
  BY <1>2, <1>5 DEF Ask, Unheard, Receive, TimesOut
<1>6. ASSUME Deliver PROVE Steps
  BY <1>6, NextSteps DEF Deliver
<1> QED
  BY <1>2, <1>3, <1>4, <1>5, <1>6 DEF ExactNext, exactVars

(* What no step takes from the senders                                       *)
Preserves ==
    /\ Len(deliveries) <= Len(deliveries') /\ Len(deliveries') \in Nat
    /\ Len(deliveries') <= MaxBacklog
    /\ \A d \in DOMAIN deliveries : deliveries'[d] = deliveries[d]
    /\ \A d \in Deliveries : accepted[d] # 0 => accepted'[d] # 0

LEMMA StepsPreserve == ASSUME HandWorked, Steps PROVE Preserves
<1>1. Typed /\ Typed' /\ OpsInv
  BY TypedStep DEF HandWorked, Worked, Linked
<1>2. /\ Len(deliveries) \in Nat /\ DOMAIN deliveries = 1..Len(deliveries)
      /\ Len(deliveries') \in Nat /\ DOMAIN deliveries' = 1..Len(deliveries')
      /\ Len(deliveries') <= MaxBacklog
  <2>1. /\ deliveries \in Seq(Targets) /\ deliveries' \in Seq(Targets')
        /\ Len(deliveries') <= MaxBacklog
    BY <1>1 DEF Typed, TypeOK, RouterTypeOK
  <2> QED
    BY <2>1
<1>3. CASE UNCHANGED routerVars
  BY <1>1, <1>2, <1>3 DEF routerVars, rows, Preserves, Typed, TypeOK, RouterTypeOK
<1>4. CASE RouterSteps
  <2>1. Works
    BY <1>4, RouterWorks DEF HandWorked, Worked, Linked
  <2>2. DOMAIN deliveries \subseteq DOMAIN deliveries'
        /\ \A d \in DOMAIN deliveries : deliveries'[d] = deliveries[d]
    BY <2>1 DEF Works, Endures
  <2>3. Len(deliveries) <= Len(deliveries')
    BY <1>2, <2>2
  <2>4. \A d \in Deliveries : accepted[d] # 0 => accepted'[d] # 0
    BY <1>1, <2>1, AttemptsRemain
  <2> QED
    BY <1>2, <2>2, <2>3, <2>4 DEF Preserves
<1> QED
  BY <1>3, <1>4 DEF Steps

-----------------------------------------------------------------------------
(* The steps of the senders                                                  *)

LEMMA CallMoves ==
    ASSUME call \in [Senders -> Calls], NEW p \in Senders, NEW at \in {"asking", "over"},
           call' = [call EXCEPT ![p].pc = at]
    PROVE  /\ call' \in [Senders -> Calls]
           /\ \A q \in Senders \ {p} : call'[q] = call[q]
           /\ call'[p].pc = at /\ call'[p].to = call[p].to /\ call'[p].d = call[p].d
  BY DEF Calls

(* What a sender does after its message is stored                            *)
Moved(p) ==
    /\ sent' = sent
    /\ call' \in [Senders -> Calls]
    /\ request' \in [Senders -> {"none", "sent", "joined"} \cup Replies]
    /\ answer' \in [Senders -> {"none", "accepted", "unavailable"}]
    /\ \A q \in Senders \ {p} : call'[q] = call[q] /\ request'[q] = request[q] /\ answer'[q] = answer[q]
    /\ call[p].pc # "idle" /\ call'[p].pc # "idle"
    /\ call'[p].to = call[p].to /\ call'[p].d = call[p].d
    /\ call'[p].pc = "asking" => request'[p] # "none"
    /\ answer'[p] = "accepted" => answer[p] = "accepted" \/ accepted[call[p].d] # 0

LEMMA SenderMoves ==
    ASSUME SenderInv, NEW p \in Senders,
           Ask(p) \/ Hear(p) \/ Unheard(p) \/ Receive(p) \/ TimesOut(p)
    PROVE  Moved(p)
<1> USE DEF Replies
<1>1. /\ call \in [Senders -> Calls]
      /\ request \in [Senders -> {"none", "sent", "joined"} \cup Replies]
      /\ answer \in [Senders -> {"none", "accepted", "unavailable"}]
      /\ Walks(p)
  BY DEF SenderInv, SenderTypeOK, Underway
<1>2. ASSUME NEW told \in {"accepted", "unavailable"}, Over(p, told), sent' = sent, request' = request,
             call[p].pc # "idle", told = "accepted" => accepted[call[p].d] # 0
      PROVE  Moved(p)
  <2>1. /\ call' \in [Senders -> Calls]
        /\ \A q \in Senders \ {p} : call'[q] = call[q]
        /\ call'[p].pc = "over" /\ call'[p].to = call[p].to /\ call'[p].d = call[p].d
    BY <1>1, <1>2, CallMoves DEF Over
  <2>2. /\ answer' \in [Senders -> {"none", "accepted", "unavailable"}]
        /\ answer'[p] = told /\ \A q \in Senders \ {p} : answer'[q] = answer[q]
    BY <1>1, <1>2 DEF Over
  <2> QED
    BY <1>1, <1>2, <2>1, <2>2 DEF Moved
<1>3. Told(p) \in {"accepted", "unavailable"} /\ (Told(p) = "accepted" => accepted[call[p].d] # 0)
  BY DEF Told
<1>4. CASE Ask(p)
  <2>1. CASE accepted[call[p].d] = 0 /\ running
    <3>1. /\ call' = [call EXCEPT ![p].pc = "asking"] /\ request' = [request EXCEPT ![p] = "sent"]
          /\ answer' = answer /\ sent' = sent /\ call[p].pc = "stored"
      BY <1>4, <2>1 DEF Ask
    <3>2. /\ call' \in [Senders -> Calls]
          /\ \A q \in Senders \ {p} : call'[q] = call[q]
          /\ call'[p].pc = "asking" /\ call'[p].to = call[p].to /\ call'[p].d = call[p].d
      BY <1>1, <3>1, CallMoves
    <3>3. /\ request' \in [Senders -> {"none", "sent", "joined"} \cup Replies]
          /\ request'[p] = "sent" /\ \A q \in Senders \ {p} : request'[q] = request[q]
      BY <1>1, <3>1
    <3> QED
      BY <1>1, <3>1, <3>2, <3>3 DEF Moved
  <2>2. CASE ~(accepted[call[p].d] = 0 /\ running)
    BY <1>2, <1>3, <1>4, <2>2 DEF Ask
  <2> QED
    BY <2>1, <2>2
<1>5. CASE Hear(p) \/ Unheard(p)
  <2>1. /\ sent' = sent /\ call' = call /\ answer' = answer /\ request[p] = "sent"
        /\ \E r \in {"refused", "joined", "closed"} : request' = [request EXCEPT ![p] = r]
    BY <1>5 DEF Hear, Unheard
  <2>2. PICK r \in {"refused", "joined", "closed"} : request' = [request EXCEPT ![p] = r]
    BY <2>1
  <2>3. /\ request' \in [Senders -> {"none", "sent", "joined"} \cup Replies]
        /\ request'[p] = r /\ \A q \in Senders \ {p} : request'[q] = request[q]
    BY <1>1, <2>2
  <2> QED
    BY <1>1, <2>1, <2>3 DEF Moved, Walks
<1>6. CASE Receive(p)
  BY <1>2, <1>3, <1>6 DEF Receive
<1>7. CASE TimesOut(p)
  BY <1>2, <1>7 DEF TimesOut
<1> QED
  BY <1>4, <1>5, <1>6, <1>7

LEMMA RepliesTo ==
    ASSUME NEW p \in Senders
    PROVE  /\ ReplyTo(p) \in Replies \cup {request[p]}
           /\ request[p] \notin {"sent", "joined"} => ReplyTo(p) = request[p]
<1> DEFINE out == op[call[p].d].pc # "none" /\ op'[call[p].d].pc = "none"
<1>1. CASE request[p] \in {"sent", "joined"} /\ ~running'
  BY <1>1 DEF ReplyTo, Replies
<1>2. CASE ~(request[p] \in {"sent", "joined"} /\ ~running') /\ request[p] = "joined" /\ out
  BY <1>2 DEF ReplyTo, Replies
<1>3. CASE ~(request[p] \in {"sent", "joined"} /\ ~running') /\ ~(request[p] = "joined" /\ out)
  BY <1>3 DEF ReplyTo, Replies
<1> QED
  BY <1>1, <1>2, <1>3

LEMMA DeliverMoves ==
    ASSUME SenderInv, Deliver
    PROVE  /\ sent' = sent /\ call' = call /\ answer' = answer
           /\ request' \in [Senders -> {"none", "sent", "joined"} \cup Replies]
           /\ \A p \in Senders : request'[p] = "none" <=> request[p] = "none"
<1>1. /\ sent' = sent /\ call' = call /\ answer' = answer
      /\ request' = [p \in Senders |-> ReplyTo(p)]
  BY DEF Deliver
<1>2. request \in [Senders -> {"none", "sent", "joined"} \cup Replies]
  BY DEF SenderInv, SenderTypeOK
<1>3. ASSUME NEW p \in Senders
      PROVE  /\ request'[p] = ReplyTo(p)
             /\ request'[p] \in {"none", "sent", "joined"} \cup Replies
             /\ request'[p] = "none" <=> request[p] = "none"
  <2>1. request'[p] = ReplyTo(p)
    BY <1>1
  <2>2. /\ ReplyTo(p) \in Replies \cup {request[p]}
        /\ request[p] \notin {"sent", "joined"} => ReplyTo(p) = request[p]
    BY RepliesTo
  <2>3. request[p] \in {"none", "sent", "joined"} \cup Replies
    BY <1>2
  <2> QED
    BY <2>1, <2>2, <2>3 DEF Replies
<1> QED
  BY <1>1, <1>3

(* What the calls rest on outlives every step that leaves the keys alone     *)
LEMMA KeysStay ==
    ASSUME Typed, SenderInv, Preserves, sent' = sent
    PROVE  sent' \in [Sessions -> 0..Len(deliveries')] /\ Addressed'
<1>1. sent \in [Sessions -> 0..Len(deliveries)] /\ Addressed
  BY DEF SenderInv, SenderTypeOK
<1>2. /\ Len(deliveries) \in Nat /\ Len(deliveries') \in Nat /\ Len(deliveries) <= Len(deliveries')
      /\ DOMAIN deliveries = 1..Len(deliveries)
  BY SenderTypes DEF Preserves
<1>3. sent' \in [Sessions -> 0..Len(deliveries')]
  BY <1>1, <1>2
<1>4. ASSUME NEW s \in Sessions, sent[s] # 0 PROVE deliveries'[sent[s]] = [kind |-> "session", to |-> s]
  <2>1. sent[s] \in DOMAIN deliveries
    BY <1>1, <1>2, <1>4
  <2> QED
    BY <1>1, <1>4, <2>1 DEF Preserves, Addressed
<1> QED
  BY <1>3, <1>4 DEF Addressed

LEMMA WalksOn ==
    ASSUME Typed, SenderInv, Preserves, sent' = sent, NEW p \in Senders,
           call'[p].to = call[p].to, call'[p].d = call[p].d,
           call'[p].pc = "idle" <=> call[p].pc = "idle",
           call'[p].pc = "asking" => request'[p] # "none",
           request'[p] # "none" => call[p].pc # "idle",
           answer'[p] = "accepted" => answer[p] = "accepted" \/ (call[p].pc # "idle" /\ accepted[call[p].d] # 0)
    PROVE  Walks(p)'
<1>1. Walks(p)
  BY DEF SenderInv, Underway
<1>2. call[p].pc # "idle" => call[p].d \in Deliveries
  BY SenderTypes
<1> QED
  BY <1>1, <1>2 DEF Walks, Preserves

LEMMA StoreMoves ==
    ASSUME Typed, SenderInv, Preserves, NEW p \in Senders, Store(p)
    PROVE  SenderTypeOK' /\ Addressed' /\ Underway'
<1>1. /\ sent \in [Sessions -> 0..Len(deliveries)] /\ Addressed
      /\ call \in [Senders -> Calls]
      /\ request \in [Senders -> {"none", "sent", "joined"} \cup Replies]
      /\ answer \in [Senders -> {"none", "accepted", "unavailable"}]
  BY DEF SenderInv, SenderTypeOK
<1>2. /\ Len(deliveries) \in Nat /\ Len(deliveries') \in Nat /\ Len(deliveries) <= Len(deliveries')
      /\ Len(deliveries') <= MaxBacklog
      /\ DOMAIN deliveries = 1..Len(deliveries)
      /\ \A d \in DOMAIN deliveries : deliveries'[d] = deliveries[d]
  BY SenderTypes DEF Preserves
<1> DEFINE s == call[p].to
<1>3. /\ call[p].pc = "idle" /\ s \in Sessions
      /\ call' = [call EXCEPT ![p].pc = "stored", ![p].d = sent'[s]]
      /\ request' = request /\ answer' = answer
  BY <1>1 DEF Store, Calls
<1>4. ASSUME sent[s] # 0
      PROVE  /\ sent' \in [Sessions -> 0..Len(deliveries')] /\ Addressed'
             /\ sent'[s] # 0 /\ sent'[s] \in 0..Len(deliveries')
             /\ \A r \in Sessions : sent[r] # 0 => sent'[r] = sent[r]
  <2>1. sent' = sent
    BY <1>4 DEF Store
  <2>2. sent' \in [Sessions -> 0..Len(deliveries')] /\ Addressed'
    BY <2>1, KeysStay
  <2>3. sent'[s] # 0 /\ sent'[s] \in 0..Len(deliveries') /\ \A r \in Sessions : sent[r] # 0 => sent'[r] = sent[r]
    BY <1>1, <1>2, <1>3, <1>4, <2>1
  <2> QED
    BY <2>2, <2>3
<1>5. ASSUME sent[s] = 0
      PROVE  /\ sent' \in [Sessions -> 0..Len(deliveries')] /\ Addressed'
             /\ sent'[s] # 0 /\ sent'[s] \in 0..Len(deliveries')
             /\ \A r \in Sessions : sent[r] # 0 => sent'[r] = sent[r]
  <2>1. /\ deliveries' = Append(deliveries, [kind |-> "session", to |-> s])
        /\ sent' = [sent EXCEPT ![s] = Len(deliveries) + 1]
    BY <1>5 DEF Store, Stored
  <2>2. deliveries \in Seq(Targets)
    BY DEF Typed, TypeOK, RouterTypeOK
  <2>3. /\ Len(deliveries') = Len(deliveries) + 1
        /\ deliveries'[Len(deliveries) + 1] = [kind |-> "session", to |-> s]
    BY <1>3, <2>1, <2>2 DEF Targets
  <2>4. /\ sent' \in [Sessions -> 0..Len(deliveries')]
        /\ sent'[s] = Len(deliveries) + 1
        /\ \A r \in Sessions \ {s} : sent'[r] = sent[r]
    BY <1>1, <1>2, <1>3, <2>1, <2>3
  <2>5. ASSUME NEW r \in Sessions, sent'[r] # 0 PROVE deliveries'[sent'[r]] = [kind |-> "session", to |-> r]
    <3>1. CASE r = s
      BY <2>3, <2>4, <3>1
    <3>2. CASE r # s
      <4>1. sent'[r] = sent[r] /\ sent[r] \in DOMAIN deliveries
        BY <1>1, <1>2, <2>4, <2>5, <3>2
      <4> QED
        BY <1>1, <1>2, <2>5, <4>1 DEF Addressed
    <3> QED
      BY <3>1, <3>2
  <2>6. Addressed'
    BY <2>5 DEF Addressed
  <2>7. \A r \in Sessions : sent[r] # 0 => sent'[r] = sent[r]
    BY <1>5, <2>4
  <2>8. sent'[s] # 0 /\ sent'[s] \in 0..Len(deliveries')
    BY <1>2, <2>3, <2>4
  <2> QED
    BY <2>4, <2>6, <2>7, <2>8
<1>6. /\ sent' \in [Sessions -> 0..Len(deliveries')] /\ Addressed'
      /\ sent'[s] # 0 /\ sent'[s] \in 0..MaxBacklog
      /\ \A r \in Sessions : sent[r] # 0 => sent'[r] = sent[r]
  BY <1>2, <1>4, <1>5
<1> HIDE DEF s
<1>7. /\ \A q \in Senders \ {p} : call'[q] = call[q]
      /\ call'[p].pc = "stored" /\ call'[p].d = sent'[s] /\ call'[p].to = call[p].to
  <2>1. \E n : n = sent'[s]
    OBVIOUS
  <2>2. PICK n : n = sent'[s]
    BY <2>1
  <2>3. call' = [call EXCEPT ![p].pc = "stored", ![p].d = n]
    BY <1>3, <2>2
  <2>4. /\ \A q \in Senders \ {p} : call'[q] = call[q]
        /\ call'[p] = [call[p] EXCEPT !.pc = "stored", !.d = n]
    BY <1>1, <2>3
  <2>5. call[p] \in Calls
    BY <1>1
  <2>6. call'[p].pc = "stored" /\ call'[p].d = n /\ call'[p].to = call[p].to
    BY <2>4, <2>5 DEF Calls
  <2> QED
    BY <2>2, <2>4, <2>6
<1>8. call' \in [Senders -> Calls]
  <2>1. PICK n \in 0..MaxBacklog : n = sent'[s]
    BY <1>6
  <2>2. call' = [call EXCEPT ![p].pc = "stored", ![p].d = n]
    BY <1>3, <2>1
  <2>3. [call[p] EXCEPT !.pc = "stored", !.d = n] \in Calls
    BY <1>1 DEF Calls
  <2> QED
    BY <1>1, <2>2, <2>3
<1>9. SenderTypeOK'
  BY <1>1, <1>3, <1>6, <1>8 DEF SenderTypeOK
<1>10. ASSUME NEW q \in Senders PROVE Walks(q)'
  <2>1. Walks(q) /\ (call[q].pc # "idle" => call[q].d \in Deliveries) /\ call[q].to \in Sessions
    BY SenderTypes DEF SenderInv, Underway
  <2>2. CASE q = p
    BY <1>3, <1>6, <1>7, <2>1, <2>2 DEF Walks, s
  <2>3. CASE q # p
    BY <1>3, <1>6, <1>7, <2>1, <2>3 DEF Walks, Preserves
  <2> QED
    BY <2>2, <2>3
<1> QED
  BY <1>6, <1>9, <1>10 DEF Underway

LEMMA SenderInvStep ==
    ASSUME Typed, SenderInv, Preserves, [ExactNext]_exactVars PROVE SenderInv'
<1>1. ASSUME NEW p \in Senders, Store(p) PROVE SenderInv'
  BY <1>1, StoreMoves DEF SenderInv
<1>2. ASSUME NEW p \in Senders, Ask(p) \/ Hear(p) \/ Unheard(p) \/ Receive(p) \/ TimesOut(p)
      PROVE  SenderInv'
  <2>1. Moved(p)
    BY <1>2, SenderMoves
  <2>2. sent' \in [Sessions -> 0..Len(deliveries')] /\ Addressed'
    BY <2>1, KeysStay DEF Moved
  <2>3. ASSUME NEW q \in Senders PROVE Walks(q)'
    <3>1. Walks(q)
      BY DEF SenderInv, Underway
    <3>2. CASE q = p
      BY <2>1, <3>1, <3>2, WalksOn DEF Moved, Walks
    <3>3. CASE q # p
      BY <2>1, <3>1, <3>3, WalksOn DEF Moved, Walks
    <3> QED
      BY <3>2, <3>3
  <2> QED
    BY <2>1, <2>2, <2>3 DEF SenderInv, SenderTypeOK, Underway, Moved
<1>3. ASSUME Deliver PROVE SenderInv'
  <2>1. /\ sent' = sent /\ call' = call /\ answer' = answer
        /\ request' \in [Senders -> {"none", "sent", "joined"} \cup Replies]
        /\ \A p \in Senders : request'[p] = "none" <=> request[p] = "none"
    BY <1>3, DeliverMoves
  <2>2. sent' \in [Sessions -> 0..Len(deliveries')] /\ Addressed'
    BY <2>1, KeysStay
  <2>3. ASSUME NEW q \in Senders PROVE Walks(q)'
    <3>1. Walks(q)
      BY DEF SenderInv, Underway
    <3> QED
      BY <2>1, <3>1, WalksOn DEF Walks
  <2> QED
    BY <2>1, <2>2, <2>3 DEF SenderInv, SenderTypeOK, Underway
<1>4. CASE UNCHANGED exactVars
  <2>1. UNCHANGED <<sent, call, request, answer>>
    BY <1>4 DEF exactVars, senderVars
  <2>2. sent' \in [Sessions -> 0..Len(deliveries')] /\ Addressed'
    BY <2>1, KeysStay
  <2>3. ASSUME NEW q \in Senders PROVE Walks(q)'
    <3>1. Walks(q)
      BY DEF SenderInv, Underway
    <3> QED
      BY <2>1, <3>1, WalksOn DEF Walks
  <2> QED
    BY <2>1, <2>2, <2>3 DEF SenderInv, SenderTypeOK, Underway
<1> QED
  BY <1>1, <1>2, <1>3, <1>4 DEF ExactNext

LEMMA ExactInvInit == ExactInit => ExactInv
<1> SUFFICES ASSUME ExactInit PROVE ExactInv
  OBVIOUS
<1>1. Init /\ HandWorked
  BY LinkedInit, OpsInit, HandInit DEF ExactInit, HandWorked, Worked
<1>2. PICK s \in {sessionOf[h] : h \in Hosts} : call = [p \in Senders |-> [pc |-> "idle", to |-> s, d |-> 0]]
  BY DEF ExactInit
<1>3. s \in Sessions /\ Len(deliveries) \in Nat /\ 0 \in 0..MaxBacklog
  BY <1>1, Opened DEF HandWorked, Worked, Linked, Typed, TypeOK, WireTypeOK
<1>4. /\ sent = [r \in Sessions |-> 0] /\ request = [p \in Senders |-> "none"]
      /\ answer = [p \in Senders |-> "none"]
  BY DEF ExactInit
<1>5. SenderTypeOK
  BY <1>2, <1>3, <1>4 DEF SenderTypeOK, Calls
<1>6. Addressed /\ Underway
  BY <1>2, <1>4 DEF Addressed, Underway, Walks
<1>7. \A d \in Deliveries : accepted[d] = 0
  BY <1>1 DEF Init, RouterInit
<1> QED
  BY <1>1, <1>5, <1>6, <1>7 DEF ExactInv, SenderInv, Drawn, SettledPairs

LEMMA ExactInvNext == ExactInv /\ [ExactNext]_exactVars => ExactInv' /\ Steps /\ Preserves
<1> SUFFICES ASSUME ExactInv, [ExactNext]_exactVars PROVE ExactInv' /\ Steps /\ Preserves
  OBVIOUS
<1>1. HandWorked /\ Typed /\ SenderInv /\ Drawn
  BY DEF ExactInv, HandWorked, Worked, Linked
<1>2. Steps
  BY <1>1, ExactSteps
<1>3. HandWorked' /\ Preserves
  BY <1>1, <1>2, HandWorkedStep, StepsPreserve
<1>4. SenderInv'
  BY <1>1, <1>3, SenderInvStep
<1>5. Drawn'
  BY <1>1, <1>2, <1>3, LedgerStep, DrawnNext
<1> QED
  BY <1>2, <1>3, <1>4, <1>5 DEF ExactInv

(* An acceptance is of the session the message is for, which has taken it    *)
LEMMA AcceptedThere ==
    ASSUME ExactInv, NEW p \in Senders, call[p].pc # "idle", accepted[call[p].d] # 0
    PROVE  LET d == call[p].d
           IN  /\ conns[attempts[d][accepted[d]].conn].session = call[p].to
               /\ d \in Reached(call[p].to)
<1> DEFINE d == call[p].d
           n == accepted[d]
           s == conns[attempts[d][n].conn].session
<1>1. d \in Deliveries /\ deliveries[d] = [kind |-> "session", to |-> call[p].to]
  BY SenderTypes DEF ExactInv, HandWorked, Worked, Linked
<1>2. n \in DOMAIN attempts[d] /\ Meant(s, d)
  <2>1. Tried(d) /\ accepted[d] # 0
    BY <1>1 DEF ExactInv, HandWorked, Worked, OpsInv
  <2> HIDE DEF d
  <2> QED
    BY <2>1 DEF Tried
<1>3. s = call[p].to
  <2> HIDE DEF d, n, s
  <2> QED
    BY <1>1, <1>2 DEF Meant
<1>4. <<s, d>> \in SettledPairs
  BY <1>1 DEF SettledPairs
<1>5. Took(s, d)
  <2>1. <<s, d>> \in ReachedPairs
    BY <1>4 DEF ExactInv, Drawn
  <2> HIDE DEF d, n, s
  <2> QED
    BY <2>1, ReachedExactly
<1> HIDE DEF d, n, s
<1>6. d \in Reached(s)
  BY <1>1, <1>5 DEF Took, Taken, Reached
<1> QED
  BY <1>3, <1>6 DEF d, n, s

(* A sender is answered by what the tables say when it is                    *)
AnswersRight(p) ==
    LET d == call[p].d
    IN  /\ answer'[p] = "accepted" =>
              /\ accepted[d] # 0
              /\ conns[attempts[d][accepted[d]].conn].session = call[p].to
              /\ d \in Reached(call[p].to)
        /\ answer[p] = "none" /\ answer'[p] = "unavailable" /\ accepted[d] # 0 =>
              request[p] \in {"sent", "joined", "closed"}

LEMMA AnswersStep ==
    ASSUME ExactInv, [ExactNext]_exactVars, NEW p \in Senders PROVE AnswersRight(p)
<1>1. SenderInv /\ Walks(p)
  BY DEF ExactInv, SenderInv, Underway
<1>2. ASSUME answer'[p] = "accepted" =>
                answer[p] = "accepted" \/ (call[p].pc # "idle" /\ accepted[call[p].d] # 0),
             answer[p] = "none" /\ answer'[p] = "unavailable" /\ accepted[call[p].d] # 0 =>
                request[p] \in {"sent", "joined", "closed"}
      PROVE  AnswersRight(p)
  <2>1. CASE answer'[p] # "accepted"
    BY <1>2, <2>1 DEF AnswersRight
  <2>2. CASE answer'[p] = "accepted"
    <3>1. call[p].pc # "idle" /\ accepted[call[p].d] # 0
      BY <1>1, <1>2, <2>2 DEF Walks
    <3>2. /\ conns[attempts[call[p].d][accepted[call[p].d]].conn].session = call[p].to
          /\ call[p].d \in Reached(call[p].to)
      BY <3>1, AcceptedThere
    <3> QED
      BY <2>2, <3>1, <3>2 DEF AnswersRight
  <2> QED
    BY <2>1, <2>2
<1>3. CASE answer'[p] = answer[p]
  BY <1>2, <1>3
<1>4. ASSUME NEW told \in {"accepted", "unavailable"}, Over(p, told) PROVE answer'[p] = told
  BY <1>1, <1>4 DEF Over, SenderInv, SenderTypeOK
<1>5. CASE Ask(p) \/ Receive(p) \/ TimesOut(p)
  <2>1. /\ answer'[p] = "accepted" =>
              answer[p] = "accepted" \/ (call[p].pc # "idle" /\ accepted[call[p].d] # 0)
    BY <1>1, <1>5, SenderMoves DEF Moved
  <2>2. Told(p) \in {"accepted", "unavailable"} /\ (accepted[call[p].d] # 0 => Told(p) = "accepted")
    BY DEF Told
  <2>3. CASE Ask(p)
    BY <1>2, <1>3, <1>4, <2>1, <2>2, <2>3 DEF Ask
  <2>4. CASE Receive(p)
    <3>1. CASE request[p] = "closed"
      BY <1>2, <2>1, <3>1
    <3>2. CASE request[p] # "closed"
      BY <1>2, <1>4, <2>1, <2>2, <2>4, <3>2 DEF Receive
    <3> QED
      BY <3>1, <3>2
  <2>5. CASE TimesOut(p)
    <3>1. request[p] \in {"sent", "joined"}
      <4>1. request[p] \in {"none", "sent", "joined"} \cup Replies /\ request[p] # "none"
        BY <1>1, <2>5 DEF TimesOut, Walks, SenderInv, SenderTypeOK
      <4> QED
        BY <2>5, <4>1 DEF TimesOut
    <3> QED
      BY <1>2, <2>1, <3>1
  <2> QED
    BY <1>5, <2>3, <2>4, <2>5
<1>6. ASSUME NEW q \in Senders, q # p, Ask(q) \/ Hear(q) \/ Unheard(q) \/ Receive(q) \/ TimesOut(q)
      PROVE  answer'[p] = answer[p]
  BY <1>1, <1>6, SenderMoves DEF Moved
<1>7. CASE Deliver \/ (\E q \in Senders : Store(q)) \/ Hear(p) \/ Unheard(p) \/ UNCHANGED exactVars
  BY <1>3, <1>7 DEF Deliver, Store, Hear, Unheard, exactVars, senderVars
<1> QED
  BY <1>3, <1>5, <1>6, <1>7 DEF ExactNext

-----------------------------------------------------------------------------
(* Who begins an attempt for an exact session                                *)

LEMMA Grown ==
    ASSUME Typed, OpsInv, Works, NEW d \in Deliveries, Len(attempts'[d]) # Len(attempts[d])
    PROVE  Tries(d)
<1>1. ~Steady(d)
  BY DEF Steady
<1>2. ASSUME Concludes(d) PROVE FALSE
  <2>1. PICK r \in {"returned", "rejected", "stale"} : EndsWith(d, r)
    BY <1>2 DEF Concludes
  <2>2. attempts[d] \in Seq(Attempts)
    BY Types
  <2> QED
    BY <2>1, <2>2 DEF EndsWith, Marked
<1> QED
  BY <1>1, <1>2 DEF Works

LEMMA DispatchesOne ==
    ASSUME Typed, NEW d \in Deliveries, NEW e \in Deliveries, NEW C, Dispatch(e, C), e # d
    PROVE  attempts'[d] = attempts[d] /\ op'[d] = op[d]
<1>1. op \in [Deliveries -> Ops] /\ attempts \in [Deliveries -> Seq(Attempts)]
  BY Types
<1>2. CASE UNCHANGED <<attempts, op, toHost>>
  BY <1>2
<1>3. CASE \E o, q : op' = [op EXCEPT ![e] = o] /\ attempts' = [attempts EXCEPT ![e] = q]
  BY <1>1, <1>3
<1> QED
  BY <1>2, <1>3 DEF Dispatch

(* An operation begins with a request, or with a drain of what a principal   *)
(* missed                                                                    *)
LEMMA OnlyDispatches ==
    ASSUME Typed, RouterStep \/ RouterEnv \/ \E k \in Sockets : Heartbeat(k),
           NEW d \in Deliveries, op[d].pc = "none", op'[d].pc # "none"
    PROVE  Notify(d) \/ deliveries[d].kind = "principal"
<1>1. op \in [Deliveries -> Ops] /\ NoOp.pc = "none"
  BY Types DEF NoOp
<1>2. ASSUME NEW c \in Sockets, DrainStep(c) PROVE deliveries[d].kind = "principal"
  <2>1. PICK e \in Backlog(c) :
            IF op[e].pc = "none" THEN Dispatch(e, {b \in {c} : Current(b)})
                                 ELSE UNCHANGED <<attempts, op, toHost>>
    BY <1>2 DEF DrainStep
  <2>2. deliveries[e].kind = "principal"
    BY DEF Backlog
  <2>3. e \in Deliveries
    <3>1. drain[c].upper \in 0..MaxBacklog /\ drain[c].cur \in 0..MaxBacklog
      BY Types
    <3> QED
      BY <3>1 DEF Backlog, Deliveries
  <2>4. Dispatch(e, {b \in {c} : Current(b)})
    BY <2>1
  <2>5. e = d
    BY <2>3, <2>4, DispatchesOne
  <2> QED
    BY <2>2, <2>5
<1>3. ASSUME NEW e \in Deliveries, Notify(e) PROVE Notify(d)
  <2>1. op[e].pc = "none" /\ HandleNotify(e)
    BY <1>3 DEF Notify
  <2>2. Dispatch(e, Resolve(e))
    BY <2>1 DEF HandleNotify
  <2>3. e = d
    BY <2>2, DispatchesOne
  <2> QED
    BY <1>3, <2>3
<1>4. ASSUME NEW k \in Sockets, Register(k) \/ Disconnect(k) \/ SocketClosed(k) \/ SocketBreaks(k) \/ Heartbeat(k)
      PROVE  FALSE
  <2>1. CASE op' = op
    BY <2>1
  <2>2. ASSUME NEW gone, op' = RejectPending(op, gone) PROVE FALSE
    <3>1. op[d].pc # "waiting"
      OBVIOUS
    <3>2. RejectPending(op, gone)[d] = op[d]
      BY <3>1 DEF RejectPending
    <3> QED
      BY <2>2, <3>2
  <2>3. ASSUME SocketClosed(k) \/ SocketBreaks(k) PROVE FALSE
    BY <2>2, <2>3 DEF SocketClosed, SocketBreaks, DropSocket
  <2>4. ASSUME Register(k) PROVE FALSE
    BY <2>2, <2>4 DEF Register
  <2>5. ASSUME Disconnect(k) \/ Heartbeat(k) PROVE FALSE
    BY <2>1, <2>5 DEF Disconnect, Heartbeat, memory
  <2> QED
    BY <1>4, <2>3, <2>4, <2>5
<1>5. ASSUME NEW k \in Sockets, NEW type \in {"accept", "reject"}, HostOutcome(k, type)
      PROVE  FALSE
  <2>1. CASE op' = op
    BY <2>1
  <2>2. CASE Pending(k, Head(toRouter[k]))
    BY <1>1, <1>5, <2>2 DEF HostOutcome, Pending
  <2> QED
    BY <1>5, <2>1, <2>2 DEF HostOutcome
<1>6. ASSUME NEW c \in Sockets, StartDrain(c) \/ DrainFails(c) PROVE FALSE
  BY <1>6 DEF StartDrain, DrainFails
<1>7. ASSUME NEW e \in Deliveries, Timeout(e) PROVE FALSE
  BY <1>1, <1>7 DEF Timeout
<1>8. ASSUME NEW e \in Deliveries, Finish(e) \/ FinishFails(e) PROVE FALSE
  BY <1>1, <1>8 DEF Finish, FinishFails
<1>9. ASSUME NEW e \in Deliveries, NEW took \in BOOLEAN, NEW ok \in BOOLEAN, QueueReturns(e, took, ok)
      PROVE  FALSE
  BY <1>1, <1>9 DEF QueueReturns
<1>10. ASSUME NEW t \in Targets, Commit(t) PROVE FALSE
  BY <1>10 DEF Commit, Stored, memory
<1>11. ASSUME NEW c \in Conns, LeaseTick(c) PROVE FALSE
  BY <1>11 DEF LeaseTick, memory
<1>12. ASSUME Crash \/ Stop PROVE FALSE
  BY <1>1, <1>12 DEF Crash, Stop, Die
<1>13. ASSUME Restart PROVE FALSE
  BY <1>13 DEF Restart
<1> QED
  BY <1>2, <1>3, <1>4, <1>5, <1>6, <1>7, <1>8, <1>9, <1>10, <1>11, <1>12, <1>13
  DEF RouterStep, RouterEnv

(* An attempt of a message to an exact session is begun by the request of a  *)
(* sender, while it is not accepted                                          *)
Asked(s) ==
    LET d == sent[s]
    IN  d # 0 /\ attempts'[d] # attempts[d] /\ Len(attempts'[d]) # Len(attempts[d]) =>
            /\ accepted[d] = 0
            /\ \E p \in Senders : /\ call[p].d = d
                                  /\ request[p] = "sent" /\ request'[p] # "sent"

LEMMA AskedStep ==
    ASSUME ExactInv, [ExactNext]_exactVars, NEW s \in Sessions PROVE Asked(s)
<1> SUFFICES ASSUME NEW d, d = sent[s], d # 0, Len(attempts'[d]) # Len(attempts[d])
             PROVE  /\ accepted[d] = 0
                    /\ \E p \in Senders : /\ call[p].d = d
                                          /\ request[p] = "sent" /\ request'[p] # "sent"
  BY DEF Asked
<1>1. HandWorked /\ Worked /\ Typed /\ OpsInv /\ SenderInv /\ SenderTypeOK
  BY DEF ExactInv, HandWorked, Worked, Linked, SenderInv
<1>2. d \in Deliveries /\ d \in DOMAIN deliveries /\ deliveries[d] = [kind |-> "session", to |-> s]
  <2>1. d \in DOMAIN deliveries
    BY <1>1, SenderTypes
  <2> QED
    BY <1>1, <2>1, Opened DEF SenderInv, Addressed
<1>3. attempts' # attempts
  OBVIOUS
<1>4. Works
  <2>1. Steps
    BY ExactInvNext
  <2>2. CASE UNCHANGED routerVars
    BY <1>3, <2>2 DEF routerVars, rows
  <2>3. CASE RouterSteps
    BY <1>1, <2>3, RouterWorks DEF Worked, Linked
  <2> QED
    BY <1>3, <2>1, <2>2, <2>3 DEF Steps
<1>5. Tries(d)
  BY <1>1, <1>2, <1>4, Grown
<1>6. op[d].pc = "none" /\ op'[d].pc # "none" /\ accepted[d] = 0
  BY <1>5 DEF Tries
<1>7. ASSUME NEW p \in Senders, Hear(p)
      PROVE  call[p].d = d /\ request[p] = "sent" /\ request'[p] # "sent"
  <2> DEFINE e == call[p].d
  <2>1. request[p] = "sent" /\ HandleNotify(e)
    BY <1>7 DEF Hear
  <2>2. e \in Deliveries
    BY <1>1, <2>1, SenderTypes DEF SenderInv, Underway, Walks
  <2> HIDE DEF e
  <2>3. Dispatch(e, Resolve(e))
    BY <1>3, <2>1 DEF HandleNotify
  <2>4. e = d
    BY <1>1, <1>2, <1>6, <2>2, <2>3, DispatchesOne
  <2>5. request'[p] \in {"refused", "joined"}
    BY <1>1, <1>7 DEF Hear, SenderTypeOK
  <2> QED
    BY <2>1, <2>4, <2>5 DEF e
<1>8. ASSUME Deliver PROVE FALSE
  <2>1. Next /\ ~Notify(d)
    BY <1>8 DEF Deliver
  <2>2. ~UNCHANGED routerVars
    BY <1>3 DEF routerVars, rows
  <2>3. RouterStep \/ RouterEnv \/ \E k \in Sockets : Heartbeat(k)
    BY <2>1, <2>2 DEF Next
  <2> QED
    BY <1>1, <1>2, <1>6, <2>1, <2>3, OnlyDispatches
<1>9. ASSUME NEW p \in Senders, Store(p) \/ Ask(p) \/ Unheard(p) \/ Receive(p) \/ TimesOut(p)
      PROVE  FALSE
  BY <1>3, <1>9 DEF Store, Stored, Ask, Unheard, Receive, TimesOut, vars, routerVars, rows
<1>10. CASE UNCHANGED exactVars
  BY <1>3, <1>10 DEF exactVars, vars, routerVars, rows
<1> QED
  BY <1>6, <1>7, <1>8, <1>9, <1>10 DEF ExactNext

(* The senders of src/src/transports/agent-messaging.ts disturb no table of  *)
(* the router: with them the types hold, of their own state too.             *)
THEOREM SendersTyped == ExactSpec => [](TypeOK /\ SenderTypeOK)
<1>1. ExactInv => TypeOK /\ SenderTypeOK
  BY DEF ExactInv, HandWorked, Worked, Linked, Typed, SenderInv
<1> QED
  BY <1>1, ExactInvInit, ExactInvNext, PTL DEF ExactSpec

(* native_accepted is said only of a message that the session it is for has  *)
(* taken and accepted, and recipient_unavailable of an accepted message only *)
(* when the sender's own request failed.                                     *)
THEOREM SendersAreToldTheTruth == ExactSpec => AnswersHold
<1>1. ExactInv /\ [ExactNext]_exactVars =>
          [\A p \in Senders : AnswersRight(p)]_exactVars
  BY AnswersStep
<1> QED
  BY <1>1, ExactInvInit, ExactInvNext, PTL DEF ExactSpec, AnswersHold, AnswersRight

(* Each attempt of a delivery to an exact session is begun by the request of *)
(* a sender, and none once it is accepted: not by a registration, a drain or *)
(* a restart of the router.                                                  *)
THEOREM ExactSessionsAreNotReplayed == ExactSpec => NeverReplayed
<1>1. ExactInv /\ [ExactNext]_exactVars => [\A s \in Sessions : Asked(s)]_exactVars
  BY AskedStep
<1> QED
  BY <1>1, ExactInvInit, ExactInvNext, PTL DEF ExactSpec, NeverReplayed, Asked

(* The ledger is kept with senders to exact sessions as it is without.       *)
THEOREM SendersKeepTheLedger == ExactSpec => KeepsLedger
<1>1. Init => Ledger!Init
  BY LedgerInit
<1>2. ExactInit => Ledger!Init
  BY <1>1 DEF ExactInit
<1>3. ExactInv /\ ExactInv' /\ [ExactNext]_exactVars => [Ledger!Next]_Ledger!ledgerVars
  BY ExactInvNext, LedgerStep DEF ExactInv
<1> QED
  BY <1>2, <1>3, ExactInvInit, ExactInvNext, PTL DEF ExactSpec, KeepsLedger, Ledger!Spec
=============================================================================
