---------------------------- MODULE ExactSender -----------------------------
(* The sender of a message to an exact session, of                           *)
(* src/src/transports/agent-messaging.ts: it stores the message, asks the    *)
(* router to deliver it now, and waits for the acceptance of the session's   *)
(* host. A call that is repeated finds the message of the first by its key.  *)
(* Every sender makes one call; a retry is the call of another sender.       *)
EXTENDS AgentDelivery

CONSTANT Senders

VARIABLES
    sent,     \* the delivery of the key for each session, 0 for none
    call,     \* where each call stands, and what it is about
    request,  \* its notify request: none, sent, joined (the operation in
              \* flight), or the router's reply
    answer    \* what the sender was told

senderVars == <<sent, call, request, answer>>
exactVars == <<vars, senderVars>>

Calls == [pc : {"idle", "stored", "asking", "over"}, to : Sessions, d : 0..MaxBacklog]
Replies == {"delivered", "refused", "closed"}

SenderTypeOK ==
    /\ sent \in [Sessions -> 0..Len(deliveries)]
    /\ call \in [Senders -> Calls]
    /\ request \in [Senders -> {"none", "sent", "joined"} \cup Replies]
    /\ answer \in [Senders -> {"none", "accepted", "unavailable"}]

ExactInit ==
    /\ Init
    /\ sent = [s \in Sessions |-> 0]
    /\ \E s \in {sessionOf[h] : h \in Hosts} : call = [p \in Senders |-> [pc |-> "idle", to |-> s, d |-> 0]]
    /\ request = [p \in Senders |-> "none"]
    /\ answer = [p \in Senders |-> "none"]

-----------------------------------------------------------------------------
(* sendAgentMessage: the message of the key, stored now or before; no hint   *)
(* is sent for a session                                                     *)
Store(p) ==
    LET s == call[p].to
        new == sent[s] = 0
    IN  /\ call[p].pc = "idle"
        /\ Spend("call")
        /\ IF new THEN /\ Stored([kind |-> "session", to |-> s])
                       /\ sent' = [sent EXCEPT ![s] = Len(deliveries) + 1]
                  ELSE UNCHANGED <<routerVars, wire, sent>>
        /\ call' = [call EXCEPT ![p].pc = "stored", ![p].d = sent'[s]]
        /\ UNCHANGED <<hostVars, sessionOf, request, answer>>

Over(p, told) ==
    /\ call' = [call EXCEPT ![p].pc = "over"]
    /\ answer' = [answer EXCEPT ![p] = told]

(* readHostAccept                                                            *)
Told(p) == IF accepted[call[p].d] # 0 THEN "accepted" ELSE "unavailable"

(* The look at the acceptance before the request, and the connection to a    *)
(* router that may not be there                                              *)
Ask(p) ==
    /\ call[p].pc = "stored"
    /\ IF accepted[call[p].d] = 0 /\ running
       THEN /\ call' = [call EXCEPT ![p].pc = "asking"]
            /\ request' = [request EXCEPT ![p] = "sent"]
            /\ UNCHANGED answer
       ELSE Over(p, Told(p)) /\ UNCHANGED request
    /\ UNCHANGED <<vars, sent>>

(* The router reads the request: what is in flight is joined, and what       *)
(* cannot be dispatched is refused at once. The request of a sender that     *)
(* waits no more is handled as well.                                         *)
Hear(p) ==
    LET d == call[p].d
    IN  /\ request[p] = "sent"
        /\ HandleNotify(d)
        /\ request' = [request EXCEPT ![p] = IF op'[d].pc = "none" THEN "refused"
                                                                  ELSE "joined"]
        /\ UNCHANGED <<left, hostVars, sessionOf, sent, call, answer>>

(* ... or the socket of that sender closes before it is read                 *)
Unheard(p) ==
    /\ request[p] = "sent" /\ call[p].pc = "over"
    /\ request' = [request EXCEPT ![p] = "closed"]
    /\ UNCHANGED <<vars, sent, call, answer>>

(* Mutant: the answer of the router is taken for the state of the table      *)
ReceiveUnread(p) ==
    /\ call[p].pc = "asking"
    /\ request[p] \in Replies
    /\ Over(p, IF request[p] = "delivered" THEN "accepted" ELSE "unavailable")
    /\ UNCHANGED <<vars, sent, request>>

(* The reply, after which the acceptance is looked up again whichever it is; *)
(* a request that failed is an unavailable recipient, without another look   *)
Receive(p) ==
    /\ call[p].pc = "asking"
    /\ request[p] \in Replies
    /\ Over(p, IF request[p] = "closed" THEN "unavailable" ELSE Told(p))
    /\ UNCHANGED <<vars, sent, request>>

(* EXACT_SESSION_NATIVE_TIMEOUT_MS                                           *)
TimesOut(p) ==
    /\ call[p].pc = "asking"
    /\ request[p] \notin Replies
    /\ Over(p, "unavailable")
    /\ UNCHANGED <<vars, sent, request>>

(* What a step of the router replies to those whose requests wait for it: a  *)
(* router that is gone closes their sockets, an operation that fails is an   *)
(* error, and one that ends says whether it recorded the acceptance          *)
ReplyTo(p) ==
    LET d == call[p].d
    IN  IF request[p] \in {"sent", "joined"} /\ ~running' THEN "closed"
        ELSE IF request[p] = "joined" /\ op[d].pc # "none" /\ op'[d].pc = "none"
        THEN IF left'["busy"] # left["busy"] THEN "closed"
             ELSE IF accepted'[d] # accepted[d] THEN "delivered" ELSE "refused"
        ELSE request[p]

(* A step of the router or of a host; the hint after a commit is for         *)
(* principals only                                                           *)
Deliver ==
    /\ Next
    /\ \A s \in Sessions : sent[s] # 0 => ~Notify(sent[s])
    /\ request' = [p \in Senders |-> ReplyTo(p)]
    /\ UNCHANGED <<sent, call, answer>>

ExactNext ==
    \/ Deliver
    \/ \E p \in Senders :
          Store(p) \/ Ask(p) \/ Hear(p) \/ Unheard(p) \/ Receive(p) \/ TimesOut(p)

ExactSpec == ExactInit /\ [][ExactNext]_exactVars

(* The fairness of AgentDelivery; nobody need call                           *)
ExactFairSpec == ExactSpec /\ Fairness

-----------------------------------------------------------------------------
(* Properties *)

Reached(s) ==
    {d \in Deliveries : <<s, d>> \in native}
        \cup UNION {{handed[h][i] : i \in DOMAIN handed[h]} : h \in {g \in Hosts : sessionOf[g] = s}}

(* A sender is told native_accepted only of a message that the program of    *)
(* the session has been handed and whose acceptance that session gave; and   *)
(* recipient_unavailable of one that is accepted already only when its own   *)
(* request failed: not on the router's word, which says no of a delivery     *)
(* that another call got accepted in the meantime.                           *)
AnswersHold ==
    [][\A p \in Senders :
          LET d == call[p].d
          IN  /\ answer'[p] = "accepted" =>
                    /\ accepted[d] # 0
                    /\ conns[attempts[d][accepted[d]].conn].session = call[p].to
                    /\ d \in Reached(call[p].to)
              /\ answer[p] = "none" /\ answer'[p] = "unavailable" /\ accepted[d] # 0 =>
                    request[p] \in {"sent", "joined", "closed"}]_exactVars

(* docs/platforms/agent-messaging.md:131: a failed delivery to an exact      *)
(* session is not replayed by a later registration. Each of its attempts is  *)
(* begun by the request of a sender, and none once it is accepted, over      *)
(* registrations, drains and restarts of the router.                         *)
NeverReplayed ==
    [][\A s \in Sessions :
          LET d == sent[s]
          IN  d # 0 /\ attempts'[d] # attempts[d] /\ Len(attempts'[d]) # Len(attempts[d]) =>
                  /\ accepted[d] = 0
                  /\ \E p \in Senders : /\ call[p].d = d
                                        /\ request[p] = "sent" /\ request'[p] # "sent"]_exactVars
=============================================================================
