--------------------------- MODULE AgentMessaging ---------------------------
(* The durable message store of src/src/core/agent-messaging.ts: processes   *)
(* that share one SQLite file send messages under an idempotency key, and    *)
(* recipients page through their events with opaque cursors.                 *)
(*                                                                           *)
(* SQLite serialises write transactions, so a transaction is one step; what  *)
(* a process reads outside its transaction is a step of its own, and any     *)
(* other process may write in between. Message, delivery and event rows are  *)
(* inserted together, one of each: row i of `log` stands for the three, and  *)
(* i for message_id, delivery_id and event_sequence (AUTOINCREMENT: commit   *)
(* order is sequence order). A request stands for its canonical hash.        *)
EXTENDS Naturals, Sequences, FiniteSets

CONSTANTS
    Writers,      \* processes that send
    Readers,      \* processes that poll or wait for one recipient's events
    Requests,     \* the send requests the environment may make
    ScopeOf,      \* the (project, recipient) scope each reader asks for
    PollLimit,    \* `limit` of a poll
    MaxCrashes,   \* bound: crashes and restarts
    NoRequest     \* a writer that has no call under way

ScopedKey(r) == <<r.project, r.sender, r.key>>
Scope(r) == <<r.project, r.recipient>>
ScopedKeys == {ScopedKey(r) : r \in Requests}
Scopes == {Scope(r) : r \in Requests} \cup {ScopeOf[d] : d \in Readers}

ASSUME RequestsAssumption ==
    /\ NoRequest \notin Requests
    /\ \A r \in Requests : {"project", "sender", "recipient", "key", "payload"}
                              \subseteq DOMAIN r
ASSUME ReadersAssumption == DOMAIN ScopeOf = Readers
ASSUME BoundsAssumption ==
    PollLimit \in Nat \ {0} /\ MaxCrashes \in Nat

VARIABLES
    log,      \* agent_messages, agent_message_deliveries, agent_message_events
    idem,     \* agent_message_idempotency: scoped key -> message, 0 if absent
    cursors,  \* agent_message_cursors: row t is the cursor of token t
    wpc,      \* where each writer stands in sendAgentMessage
    wreq,     \* the request it is sending
    wmsg,     \* the message_id its own transaction committed
    answers,  \* history: every answer a sender was given, [req, kind, msg]
    rpc,      \* where each reader stands in pollAgentEvents / waitForAgentEvents
    rcur,     \* the cursor token a reader passes in, 0 for none
    rlast,    \* the sequence its next cursor must carry
    rgot,     \* the messages the poll under way has read
    base,     \* history: the sequence from which this reader began reading
    seen,     \* history: the messages handed to it since, in order
    due,      \* no wait is under way or its deadline has passed
    crashes   \* bound

store == <<log, idem, cursors>>
writer == <<wpc, wreq, wmsg, answers>>
reader == <<rpc, rcur, rlast, rgot, base, seen, due>>
vars == <<log, idem, cursors, wpc, wreq, wmsg, answers, rpc, rcur, rlast,
          rgot, base, seen, due, crashes>>

Messages == DOMAIN log
Tokens == DOMAIN cursors

(* Mutant: an off-by-one                                                     *)
AfterNext(s, n) == {i \in Messages : n + 1 < i /\ Scope(log[i]) = s}

(* The messages of scope s after sequence n, and the first PollLimit of them *)
After(s, n) == {i \in Messages : n < i /\ Scope(log[i]) = s}
Page(s, n) ==
    {i \in After(s, n) :
        Cardinality({j \in After(s, n) : j <= i}) <= PollLimit}

Position(t) == IF t = 0 THEN 0 ELSE cursors[t].seq

CursorTokens(s, n) == {t \in Tokens : cursors[t] = [scope |-> s, seq |-> n]}

Init ==
    /\ log = <<>>
    /\ idem = [k \in ScopedKeys |-> 0]
    /\ cursors = <<>>
    /\ wpc = [w \in Writers |-> "idle"]
    /\ wreq = [w \in Writers |-> NoRequest]
    /\ wmsg = [w \in Writers |-> 0]
    /\ answers = {}
    /\ rpc = [d \in Readers |-> "idle"]
    /\ rcur = [d \in Readers |-> 0]
    /\ rlast = [d \in Readers |-> 0]
    /\ rgot = [d \in Readers |-> {}]
    /\ base = [d \in Readers |-> 0]
    /\ seen = [d \in Readers |-> {}]
    /\ due = [d \in Readers |-> TRUE]
    /\ crashes = 0

-----------------------------------------------------------------------------
(* Sending *)

Goto(w, label) == wpc' = [wpc EXCEPT ![w] = label]

(* The call returns or throws: the stored message, or an error that names no *)
(* message (0)                                                               *)
Answer(w, kind, m) ==
    /\ answers' = answers \cup {[req |-> wreq[w], kind |-> kind, msg |-> m]}
    /\ wreq' = [wreq EXCEPT ![w] = NoRequest]
    /\ wmsg' = [wmsg EXCEPT ![w] = 0]
    /\ Goto(w, "idle")

(* Mutant: the request hashes are not compared                               *)
AnswerAny(w, m) == Answer(w, "sent", m)

(* What a caller is told that finds its key already bound to message m       *)
AnswerFrom(w, m) ==
    IF log[m] = wreq[w] THEN Answer(w, "sent", m)
                        ELSE Answer(w, "conflict", 0)

(* A call arrives with a request that normalizeSendInput accepts             *)
BeginSend(w, r) ==
    /\ wpc[w] = "idle"
    /\ wreq' = [wreq EXCEPT ![w] = r]
    /\ Goto(w, "lookup")
    /\ UNCHANGED <<store, wmsg, answers, reader, crashes>>

(* lookupExistingMessage, before the transaction                             *)
Lookup(w) ==
    /\ wpc[w] = "lookup"
    /\ LET m == idem[ScopedKey(wreq[w])]
       IN  \/ m # 0 /\ AnswerFrom(w, m)
           \/ m = 0 /\ Goto(w, "insert") /\ UNCHANGED <<wreq, wmsg, answers>>
    /\ UNCHANGED <<store, reader, crashes>>

(* Mutant: no UNIQUE constraint                                              *)
InsertAlways(w) ==
    /\ wpc[w] = "insert"
    /\ log' = Append(log, wreq[w])
    /\ idem' = [idem EXCEPT ![ScopedKey(wreq[w])] = Len(log) + 1]
    /\ wmsg' = [wmsg EXCEPT ![w] = Len(log) + 1]
    /\ Goto(w, "readback")
    /\ UNCHANGED <<cursors, wreq, answers, reader, crashes>>

(* tx.immediate(): the message, delivery, event and idempotency rows, or     *)
(* none of them when the key has been taken meanwhile                        *)
Insert(w) ==
    /\ wpc[w] = "insert"
    /\ LET k == ScopedKey(wreq[w])
       IN  \/ /\ idem[k] = 0
              /\ log' = Append(log, wreq[w])
              /\ idem' = [idem EXCEPT ![k] = Len(log) + 1]
              /\ wmsg' = [wmsg EXCEPT ![w] = Len(log) + 1]
              /\ Goto(w, "readback")
           \/ /\ idem[k] # 0
              /\ Goto(w, "raced")
              /\ UNCHANGED <<log, idem, wmsg>>
    /\ UNCHANGED <<cursors, wreq, answers, reader, crashes>>

(* The transaction throws something else (quota, a lock held too long) and   *)
(* rolls back                                                                *)
InsertFails(w) ==
    /\ wpc[w] = "insert"
    /\ Answer(w, "failed", 0)
    /\ UNCHANGED <<store, reader, crashes>>

(* The lookup after a UNIQUE failure: the winner's message, a conflict, or   *)
(* the constraint error itself                                               *)
Raced(w) ==
    /\ wpc[w] = "raced"
    /\ LET m == idem[ScopedKey(wreq[w])]
       IN  \/ m # 0 /\ AnswerFrom(w, m)
           \/ m = 0 /\ Answer(w, "error", 0)
    /\ UNCHANGED <<store, reader, crashes>>

(* Mutant: the newest message is read back                                   *)
ReadNewest(w) ==
    /\ wpc[w] = "readback"
    /\ Answer(w, "sent", Len(log))
    /\ UNCHANGED <<store, reader, crashes>>

(* loadSentMessage after the commit                                          *)
Readback(w) ==
    /\ wpc[w] = "readback"
    /\ Answer(w, "sent", wmsg[w])
    /\ UNCHANGED <<store, reader, crashes>>

(* The process dies: its call is lost, what it committed is not              *)
CrashWriter(w) ==
    /\ wpc[w] # "idle"
    /\ crashes < MaxCrashes
    /\ crashes' = crashes + 1
    /\ wreq' = [wreq EXCEPT ![w] = NoRequest]
    /\ wmsg' = [wmsg EXCEPT ![w] = 0]
    /\ Goto(w, "idle")
    /\ UNCHANGED <<store, answers, reader>>

-----------------------------------------------------------------------------
(* Polling and waiting *)

OwnCursor(d) == rcur[d] = 0 \/ cursors[rcur[d]].scope = ScopeOf[d]

(* Mutant: the scope of a cursor is not looked at                            *)
NeverForeign(d) == rcur[d] \notin {0} \cup Tokens

Foreign(d) == ~OwnCursor(d)

RGoto(d, label) == rpc' = [rpc EXCEPT ![d] = label]

(* A poll is a wait whose deadline has passed when it starts                 *)
BeginPoll(d, waits) ==
    /\ rpc[d] = "idle"
    /\ RGoto(d, "read")
    /\ due' = [due EXCEPT ![d] = ~waits]
    /\ UNCHANGED <<store, writer, rcur, rlast, rgot, base, seen, crashes>>

Leave(d) ==
    /\ RGoto(d, "idle")
    /\ due' = [due EXCEPT ![d] = TRUE]

(* One pass of waitForAgentEvents is over: rows or the deadline end the      *)
(* call, otherwise it sleeps for the poll interval                           *)
EndPass(d, token) ==
    /\ rcur' = [rcur EXCEPT ![d] = token]
    /\ seen' = [seen EXCEPT ![d] = @ \cup rgot[d]]
    /\ rgot' = [rgot EXCEPT ![d] = {}]
    /\ rlast' = [rlast EXCEPT ![d] = 0]
    /\ IF rgot[d] # {} \/ due[d] THEN Leave(d)
       ELSE RGoto(d, "delay") /\ UNCHANGED due

(* resolveCursor refuses a cursor of another scope                           *)
Denied(d) ==
    /\ rpc[d] = "read"
    /\ Foreign(d)
    /\ Leave(d)
    /\ UNCHANGED <<store, writer, rcur, rlast, rgot, base, seen, crashes>>

(* The event rows after the cursor; an empty page keeps the cursor passed in *)
ReadRows(d) ==
    /\ rpc[d] = "read"
    /\ ~Foreign(d)
    /\ LET from == Position(rcur[d])
           page == Page(ScopeOf[d], from)
           NextCursorAt(n) ==
              /\ rgot' = [rgot EXCEPT ![d] = page]
              /\ rlast' = [rlast EXCEPT ![d] = n]
              /\ RGoto(d, "cursor")
              /\ UNCHANGED <<rcur, seen, due>>
       IN  \/ page = {} /\ rcur[d] # 0 /\ EndPass(d, rcur[d])
           \/ page = {} /\ rcur[d] = 0 /\ NextCursorAt(from)
           \/ \E last \in page :
                 (\A i \in page : i <= last) /\ NextCursorAt(last)
    /\ UNCHANGED <<store, writer, base, crashes>>

(* createCursor looks for a token of this position first                     *)
FindCursor(d) ==
    /\ rpc[d] = "cursor"
    /\ LET found == CursorTokens(ScopeOf[d], rlast[d])
       IN  \/ \E t \in found : EndPass(d, t)
           \/ /\ found = {}
              /\ RGoto(d, "mint")
              /\ UNCHANGED <<rcur, seen, rgot, rlast, due>>
    /\ UNCHANGED <<store, writer, base, crashes>>

(* The insert, or the token of the process that inserted it first            *)
MintCursor(d) ==
    /\ rpc[d] = "mint"
    /\ LET found == CursorTokens(ScopeOf[d], rlast[d])
       IN  \/ \E t \in found : EndPass(d, t) /\ UNCHANGED cursors
           \/ /\ found = {}
              /\ cursors' = Append(cursors, [scope |-> ScopeOf[d],
                                             seq |-> rlast[d]])
              /\ EndPass(d, Len(cursors) + 1)
    /\ UNCHANGED <<log, idem, writer, base, crashes>>

(* waitForDelay ends and the loop polls again                                *)
PollAgain(d) ==
    /\ rpc[d] = "delay"
    /\ RGoto(d, "read")
    /\ UNCHANGED <<store, writer, rcur, rlast, rgot, base, seen, due, crashes>>

(* The caller's signal aborts the wait between two polls                     *)
AbortWait(d) ==
    /\ rpc[d] = "delay"
    /\ Leave(d)
    /\ UNCHANGED <<store, writer, rcur, rlast, rgot, base, seen, crashes>>

DeadlinePasses(d) ==
    /\ ~due[d]
    /\ due' = [due EXCEPT ![d] = TRUE]
    /\ UNCHANGED <<store, writer, rpc, rcur, rlast, rgot, base, seen, crashes>>

(* A reader starts over from a cursor it kept, from none after it lost it,   *)
(* or from one that was minted for somebody else                             *)
RestartReader(d, t) ==
    /\ crashes < MaxCrashes
    /\ crashes' = crashes + 1
    /\ Leave(d)
    /\ rcur' = [rcur EXCEPT ![d] = t]
    /\ base' = [base EXCEPT ![d] = IF t # 0 /\ cursors[t].scope = ScopeOf[d]
                                   THEN Position(t) ELSE 0]
    /\ seen' = [seen EXCEPT ![d] = {}]
    /\ rgot' = [rgot EXCEPT ![d] = {}]
    /\ rlast' = [rlast EXCEPT ![d] = 0]
    /\ UNCHANGED <<store, writer>>

-----------------------------------------------------------------------------
WriterStep(w) == Lookup(w) \/ Insert(w) \/ Raced(w) \/ Readback(w)

ReaderStep(d) ==
    Denied(d) \/ ReadRows(d) \/ FindCursor(d) \/ MintCursor(d) \/ PollAgain(d)

Next ==
    \/ \E w \in Writers :
          \/ \E r \in Requests : BeginSend(w, r)
          \/ WriterStep(w)
          \/ InsertFails(w)
          \/ CrashWriter(w)
    \/ \E d \in Readers :
          \/ \E waits \in BOOLEAN : BeginPoll(d, waits)
          \/ ReaderStep(d)
          \/ AbortWait(d)
          \/ DeadlinePasses(d)
          \/ \E t \in Tokens \cup {0} : RestartReader(d, t)

Spec == Init /\ [][Next]_vars

(* A process that is inside a call runs on (the store calls are synchronous  *)
(* code), timers fire, and an application that has not stopped polls again   *)
Fairness ==
    /\ \A w \in Writers : WF_vars(WriterStep(w))
    /\ \A d \in Readers :
          /\ WF_vars(ReaderStep(d))
          /\ WF_vars(DeadlinePasses(d))
          /\ WF_vars(\E waits \in BOOLEAN : BeginPoll(d, waits))

FairSpec == Spec /\ Fairness

-----------------------------------------------------------------------------
(* Properties *)

WriterPcs == {"idle", "lookup", "insert", "raced", "readback"}
ReaderPcs == {"idle", "read", "cursor", "mint", "delay"}
AnswerKinds == {"sent", "conflict", "failed", "error"}

(* Every variable keeps its shape; rows refer to rows that exist.            *)
TypeOK ==
    /\ log \in Seq(Requests)
    /\ idem \in [ScopedKeys -> {0} \cup Messages]
    /\ cursors \in Seq([scope : Scopes, seq : Nat])
    /\ wpc \in [Writers -> WriterPcs]
    /\ wreq \in [Writers -> Requests \cup {NoRequest}]
    /\ \A w \in Writers : wreq[w] = NoRequest <=> wpc[w] = "idle"
    /\ wmsg \in [Writers -> {0} \cup Messages]
    /\ answers \subseteq [req : Requests, kind : AnswerKinds,
                          msg : {0} \cup Messages]
    /\ rpc \in [Readers -> ReaderPcs]
    /\ rcur \in [Readers -> {0} \cup Tokens]
    /\ rlast \in [Readers -> Nat]
    /\ rgot \in [Readers -> SUBSET Messages]
    /\ base \in [Readers -> Nat]
    /\ seen \in [Readers -> SUBSET Messages]
    /\ due \in [Readers -> BOOLEAN]
    /\ crashes \in 0..MaxCrashes

(* However the senders race and crash, a (project, sender, idempotency_key)  *)
(* names at most one message: sendAgentMessage commits no second row for it. *)
OneMessagePerKey ==
    \A i, j \in Messages : ScopedKey(log[i]) = ScopedKey(log[j]) => i = j

(* What a sender is told is true of the store: "sent" names a message that   *)
(* carries exactly its request, a conflict means that the key is bound to a  *)
(* different request, and the UNIQUE error of a lost race never reaches the  *)
(* caller.                                                                   *)
AnswersAreTrue ==
    \A a \in answers :
        /\ a.kind = "sent" => a.msg \in Messages /\ log[a.msg] = a.req
        /\ a.kind = "conflict" =>
              \E m \in Messages : /\ ScopedKey(log[m]) = ScopedKey(a.req)
                                  /\ log[m] # a.req
        /\ a.kind # "error"

(* The abstract promise: an idempotent append-only ledger.                   *)
Ledger == INSTANCE MessageLedger
            WITH ledger <- log, answered <- answers,
                 KeyOf <- [r \in Requests |-> ScopedKey(r)]

(* Every step of the racing, crashing senders is a step of the ledger: the   *)
(* lookups outside the transaction decide nothing the ledger would not.      *)
ImplementsLedger == Ledger!Spec

EventsOf(s, lo, hi) == {i \in Messages : lo < i /\ i <= hi /\ Scope(log[i]) = s}

(* A recipient that passes back next_cursor has been handed every event of   *)
(* its scope from where it began up to its cursor, whatever is committed     *)
(* between the page and the cursor, and nothing of another scope; and the    *)
(* page it is about to be handed lies after all of them, so no event comes   *)
(* twice or out of order. Nothing is read from a cursor of another recipient. *)
NoGapNoRepeat ==
    \A d \in Readers :
        /\ IF ~OwnCursor(d) THEN seen[d] = {} /\ rgot[d] = {}
           ELSE seen[d] = EventsOf(ScopeOf[d], base[d], Position(rcur[d]))
        /\ \A i \in seen[d], j \in rgot[d] : i < j

(* createCursor: two readers that reach one position share one token.        *)
OneTokenPerPosition ==
    \A t, u \in Tokens : cursors[t] = cursors[u] => t = u

(* A committed message reaches every reader of its recipient that goes on    *)
(* polling from a cursor of its own at or before the message.                *)
EventReachesReader ==
    \A d \in Readers, i \in 1..Cardinality(ScopedKeys) :
        (i \in Messages /\ Scope(log[i]) = ScopeOf[d])
            ~> (i <= base[d] \/ Foreign(d) \/ i \in seen[d])

=============================================================================
