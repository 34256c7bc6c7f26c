------------------------ MODULE AgentMessagingProofs ------------------------
(* What AgentMessaging guarantees for every set of processes and requests.   *)
EXTENDS AgentMessaging, SequenceTheorems, FiniteSetTheorems, TLAPS

(* The rows a step of any process may rely on: the log only grows.           *)
LEMMA AppendGrows ==
    ASSUME TypeOK, NEW r \in Requests, log' = Append(log, r)
    PROVE  /\ Len(log') = Len(log) + 1
           /\ Messages' = Messages \cup {Len(log) + 1}
           /\ \A i \in Messages : log'[i] = log[i]
           /\ log'[Len(log) + 1] = r
           /\ log' \in Seq(Requests)
           /\ Messages = 1..Len(log)
           /\ Len(log) \in Nat
  BY DEF TypeOK, Messages

LEMMA KeyTyped == \A r \in Requests : ScopedKey(r) \in ScopedKeys
  BY DEF ScopedKeys

(* The state of every process and every table keeps its type.                *)
LEMMA TypeInit == Init => TypeOK
  BY BoundsAssumption DEF Init, TypeOK, WriterPcs, ReaderPcs, Messages, Tokens

LEMMA AnswerTyped ==
    ASSUME TypeOK, NEW w \in Writers, NEW kind \in AnswerKinds,
           NEW m \in {0} \cup Messages, wpc[w] # "idle", Answer(w, kind, m),
           UNCHANGED <<store, reader, crashes>>
    PROVE  TypeOK'
  BY RequestsAssumption
  DEF TypeOK, Answer, Goto, WriterPcs, store, reader, Messages, Tokens

LEMMA WriterTyped ==
    ASSUME TypeOK, NEW w \in Writers, WriterStep(w)
    PROVE  TypeOK'
<1>1. CASE Lookup(w)
  <2>. DEFINE m == idem[ScopedKey(wreq[w])]
  <2>0. wpc[w] # "idle" /\ wreq[w] \in Requests
    BY <1>1 DEF Lookup, TypeOK
  <2>1. m \in {0} \cup Messages
    BY <2>0, KeyTyped DEF TypeOK
  <2>2. CASE m # 0 /\ AnswerFrom(w, m)
    BY <1>1, <2>0, <2>1, <2>2, AnswerTyped DEF Lookup, AnswerFrom, AnswerKinds
  <2>3. CASE m = 0 /\ Goto(w, "insert") /\ UNCHANGED <<wreq, wmsg, answers>>
    BY <1>1, <2>0, <2>3, RequestsAssumption
    DEF Lookup, TypeOK, Goto, WriterPcs, store, reader, Messages, Tokens
  <2>. QED  BY <1>1, <2>2, <2>3 DEF Lookup
<1>2. CASE Insert(w)
  <2>. DEFINE k == ScopedKey(wreq[w])
  <2>0. wreq[w] \in Requests /\ k \in ScopedKeys /\ wpc[w] = "insert"
    BY <1>2, KeyTyped DEF Insert, TypeOK
  <2>1. CASE idem[k] = 0
    <3>1. log' = Append(log, wreq[w])
      BY <1>2, <2>1 DEF Insert
    <3>2. PICK n \in Nat : /\ n = Len(log)
                           /\ Messages' = Messages \cup {n + 1}
                           /\ log' \in Seq(Requests)
      BY <2>0, <3>1, AppendGrows
    <3>3. /\ idem' = [idem EXCEPT ![k] = n + 1]
          /\ wmsg' = [wmsg EXCEPT ![w] = n + 1]
          /\ wpc' = [wpc EXCEPT ![w] = "readback"]
          /\ UNCHANGED <<cursors, wreq, answers, rpc, rcur, rlast, rgot,
                         base, seen, due, crashes>>
      BY <1>2, <2>1, <3>2 DEF Insert, Goto, reader
    <3>4. /\ idem' \in [ScopedKeys -> {0} \cup Messages']
          /\ wmsg' \in [Writers -> {0} \cup Messages']
      BY <2>0, <3>2, <3>3 DEF TypeOK
    <3>5. /\ answers' \subseteq [req : Requests, kind : AnswerKinds,
                                 msg : {0} \cup Messages']
          /\ rgot' \in [Readers -> SUBSET Messages']
          /\ seen' \in [Readers -> SUBSET Messages']
      BY <3>2, <3>3 DEF TypeOK
    <3>6. /\ wpc' \in [Writers -> WriterPcs]
          /\ \A v \in Writers : wreq'[v] = NoRequest <=> wpc'[v] = "idle"
      BY <2>0, <3>3, RequestsAssumption DEF TypeOK, WriterPcs
    <3>. QED  BY <3>2, <3>3, <3>4, <3>5, <3>6 DEF TypeOK, Tokens
  <2>2. CASE idem[k] # 0
    BY <1>2, <2>0, <2>2, RequestsAssumption
    DEF Insert, TypeOK, Goto, WriterPcs, reader, Messages, Tokens
  <2>. QED  BY <2>1, <2>2
<1>3. CASE Raced(w)
  <2>. DEFINE m == idem[ScopedKey(wreq[w])]
  <2>0. wpc[w] # "idle" /\ wreq[w] \in Requests
    BY <1>3 DEF Raced, TypeOK
  <2>1. m \in {0} \cup Messages
    BY <2>0, KeyTyped DEF TypeOK
  <2>. QED  BY <1>3, <2>0, <2>1, AnswerTyped DEF Raced, AnswerFrom, AnswerKinds
<1>4. CASE Readback(w)
  <2>1. wmsg[w] \in {0} \cup Messages
    BY DEF TypeOK
  <2>. QED  BY <1>4, <2>1, AnswerTyped DEF Readback, AnswerKinds
<1>. QED  BY <1>1, <1>2, <1>3, <1>4 DEF WriterStep

LEMMA ScopeTyped == \A d \in Readers : ScopeOf[d] \in Scopes
  BY DEF Scopes

LEMMA PositionTyped ==
    ASSUME TypeOK, NEW t \in {0} \cup Tokens
    PROVE  Position(t) \in Nat
<1>1. CASE t = 0
  BY <1>1 DEF Position
<1>2. CASE t # 0
  <2>0. cursors \in Seq([scope : Scopes, seq : Nat]) /\ t \in 1..Len(cursors)
    BY <1>2 DEF TypeOK, Tokens
  <2>1. cursors[t] \in [scope : Scopes, seq : Nat]
    BY <2>0, ElementOfSeq
  <2>. QED  BY <1>2, <2>1 DEF Position
<1>. QED  BY <1>1, <1>2

LEMMA EndPassTyped ==
    ASSUME TypeOK, NEW d \in Readers, NEW t \in {0} \cup Tokens',
           EndPass(d, t), cursors' \in Seq([scope : Scopes, seq : Nat]),
           Len(cursors) <= Len(cursors'),
           UNCHANGED <<log, idem, writer, base, crashes>>
    PROVE  TypeOK'
<1>1. Tokens \subseteq Tokens'
  BY DEF TypeOK, Tokens
<1>2. rcur' \in [Readers -> {0} \cup Tokens']
  BY <1>1 DEF TypeOK, EndPass
<1>3. /\ rpc' \in [Readers -> ReaderPcs]
      /\ due' \in [Readers -> BOOLEAN]
      /\ rlast' \in [Readers -> Nat]
  BY DEF TypeOK, EndPass, Leave, RGoto, ReaderPcs
<1>4. /\ rgot' \in [Readers -> SUBSET Messages]
      /\ seen' \in [Readers -> SUBSET Messages]
  BY DEF TypeOK, EndPass
<1>. QED  BY <1>2, <1>3, <1>4 DEF TypeOK, writer, Messages

LEMMA ReaderTyped ==
    ASSUME TypeOK, NEW d \in Readers, ReaderStep(d)
    PROVE  TypeOK'
<1>0. rcur[d] \in {0} \cup Tokens /\ rlast[d] \in Nat
  BY DEF TypeOK
<1>1. CASE Denied(d)
  BY <1>1 DEF Denied, TypeOK, Leave, RGoto, ReaderPcs, store, writer, Messages,
              Tokens
<1>2. CASE ReadRows(d)
  <2>. DEFINE from == Position(rcur[d])
              page == Page(ScopeOf[d], from)
  <2>1. from \in Nat
    BY <1>0, PositionTyped
  <2>2. page \subseteq Messages /\ Messages \subseteq Nat
    BY DEF Page, After, Messages, TypeOK
  <2>3. UNCHANGED <<log, idem, cursors, wpc, wreq, wmsg, answers, base, crashes>>
    BY <1>2 DEF ReadRows, store, writer
  <2>4. CASE EndPass(d, rcur[d])
    <3>1. UNCHANGED <<log, idem, writer, base, crashes>> /\ cursors' = cursors
      BY <2>3 DEF writer
    <3>2. rcur[d] \in {0} \cup Tokens'
      BY <1>0, <3>1 DEF Tokens
    <3>3. cursors' \in Seq([scope : Scopes, seq : Nat]) /\ Len(cursors) <= Len(cursors')
      BY <3>1 DEF TypeOK
    <3>. QED  BY <2>4, <3>1, <3>2, <3>3, EndPassTyped
  <2>5. CASE \E n \in Nat :
                /\ rgot' = [rgot EXCEPT ![d] = page]
                /\ rlast' = [rlast EXCEPT ![d] = n]
                /\ RGoto(d, "cursor")
                /\ UNCHANGED <<rcur, seen, due>>
    BY <2>2, <2>3, <2>5 DEF TypeOK, RGoto, ReaderPcs, Messages, Tokens
  <2>. QED  BY <1>2, <2>1, <2>2, <2>4, <2>5 DEF ReadRows
<1>3. CASE FindCursor(d)
  <2>. DEFINE found == CursorTokens(ScopeOf[d], rlast[d])
  <2>1. found \subseteq Tokens
    BY DEF CursorTokens
  <2>2. UNCHANGED <<log, idem, cursors, writer, base, crashes>>
    BY <1>3 DEF FindCursor, store
  <2>3. CASE \E t \in found : EndPass(d, t)
    <3>1. PICK t \in found : EndPass(d, t)
      BY <2>3
    <3>2. t \in {0} \cup Tokens'
      BY <2>1, <2>2 DEF Tokens
    <3>3. cursors' \in Seq([scope : Scopes, seq : Nat]) /\ Len(cursors) <= Len(cursors')
      BY <2>2 DEF TypeOK
    <3>. QED  BY <3>1, <3>2, <3>3, <2>2, EndPassTyped
  <2>4. CASE RGoto(d, "mint") /\ UNCHANGED <<rcur, seen, rgot, rlast, due>>
    BY <2>2, <2>4 DEF TypeOK, RGoto, ReaderPcs, writer, Messages, Tokens
  <2>. QED  BY <1>3, <2>3, <2>4 DEF FindCursor
<1>4. CASE MintCursor(d)
  <2>. DEFINE found == CursorTokens(ScopeOf[d], rlast[d])
              row == [scope |-> ScopeOf[d], seq |-> rlast[d]]
  <2>1. found \subseteq Tokens
    BY DEF CursorTokens
  <2>2. UNCHANGED <<log, idem, writer, base, crashes>>
    BY <1>4 DEF MintCursor
  <2>3. row \in [scope : Scopes, seq : Nat]
    BY <1>0, ScopeTyped
  <2>4. CASE \E t \in found : EndPass(d, t) /\ UNCHANGED cursors
    <3>1. PICK t \in found : EndPass(d, t) /\ UNCHANGED cursors
      BY <2>4
    <3>2. t \in {0} \cup Tokens'
      BY <2>1, <3>1 DEF Tokens
    <3>3. cursors' \in Seq([scope : Scopes, seq : Nat]) /\ Len(cursors) <= Len(cursors')
      BY <3>1 DEF TypeOK
    <3>. QED  BY <3>1, <3>2, <3>3, <2>2, EndPassTyped
  <2>5. CASE cursors' = Append(cursors, row) /\ EndPass(d, Len(cursors) + 1)
    <3>1. /\ cursors' \in Seq([scope : Scopes, seq : Nat])
          /\ Len(cursors) <= Len(cursors')
          /\ Len(cursors) + 1 \in Tokens'
      BY <2>3, <2>5 DEF TypeOK, Tokens
    <3>. QED  BY <2>5, <3>1, <2>2, EndPassTyped
  <2>. QED  BY <1>4, <2>4, <2>5 DEF MintCursor
<1>5. CASE PollAgain(d)
  BY <1>5 DEF PollAgain, TypeOK, RGoto, ReaderPcs, store, writer, Messages, Tokens
<1>. QED  BY <1>1, <1>2, <1>3, <1>4, <1>5 DEF ReaderStep

LEMMA TypeNext == TypeOK /\ [Next]_vars => TypeOK'
<1>. SUFFICES ASSUME TypeOK, [Next]_vars PROVE TypeOK'
  OBVIOUS
<1>1. ASSUME NEW w \in Writers, NEW r \in Requests, BeginSend(w, r) PROVE TypeOK'
  BY <1>1, RequestsAssumption
  DEF BeginSend, TypeOK, Goto, WriterPcs, store, reader, Messages, Tokens
<1>2. ASSUME NEW w \in Writers, WriterStep(w) PROVE TypeOK'
  BY <1>2, WriterTyped
<1>3. ASSUME NEW w \in Writers, InsertFails(w) PROVE TypeOK'
  <2>. wpc[w] # "idle"
    BY <1>3 DEF InsertFails
  <2>. QED  BY <1>3, AnswerTyped DEF InsertFails, AnswerKinds
<1>4. ASSUME NEW w \in Writers, CrashWriter(w) PROVE TypeOK'
  BY <1>4, RequestsAssumption, BoundsAssumption
  DEF CrashWriter, TypeOK, Goto, WriterPcs, store, reader, Messages, Tokens
<1>5. ASSUME NEW d \in Readers, NEW waits \in BOOLEAN, BeginPoll(d, waits)
      PROVE  TypeOK'
  BY <1>5 DEF BeginPoll, TypeOK, RGoto, ReaderPcs, store, writer, Messages, Tokens
<1>6. ASSUME NEW d \in Readers, ReaderStep(d) PROVE TypeOK'
  BY <1>6, ReaderTyped
<1>7. ASSUME NEW d \in Readers, AbortWait(d) \/ DeadlinePasses(d) PROVE TypeOK'
  BY <1>7 DEF AbortWait, DeadlinePasses, Leave, TypeOK, RGoto, ReaderPcs, store,
              writer, Messages, Tokens
<1>8. ASSUME NEW d \in Readers, NEW t \in Tokens \cup {0}, RestartReader(d, t)
      PROVE  TypeOK'
  <2>1. Position(t) \in Nat
    BY PositionTyped
  <2>. QED  BY <1>8, <2>1, BoundsAssumption
            DEF RestartReader, Leave, TypeOK, RGoto, ReaderPcs, store, writer,
                Messages, Tokens
<1>9. CASE UNCHANGED vars
  BY <1>9 DEF vars, TypeOK, Messages, Tokens
<1>. QED  BY <1>1, <1>2, <1>3, <1>4, <1>5, <1>6, <1>7, <1>8, <1>9 DEF Next

(* For every set of writers, readers and requests: the state of every        *)
(* process and every table keeps its type, and rows refer to rows that exist.*)
THEOREM TypeCorrect == Spec => []TypeOK
  BY TypeInit, TypeNext, PTL DEF Spec

-----------------------------------------------------------------------------
(* Senders. The idempotency table and the log say the same thing, a writer   *)
(* that committed remembers its own row, and one that lost a race finds the  *)
(* winner's: that is why OneMessagePerKey and AnswersAreTrue are inductive.  *)
Agree ==
    /\ \A k \in ScopedKeys : idem[k] # 0 => ScopedKey(log[idem[k]]) = k
    /\ \A m \in Messages : idem[ScopedKey(log[m])] = m

InFlight ==
    \A w \in Writers :
        /\ wpc[w] = "raced" => idem[ScopedKey(wreq[w])] # 0
        /\ wpc[w] = "readback" => wmsg[w] \in Messages /\ log[wmsg[w]] = wreq[w]

SendInv == Agree /\ InFlight /\ AnswersAreTrue

LEMMA SendInit == Init => SendInv
  BY DEF Init, SendInv, Agree, InFlight, AnswersAreTrue, Messages

LEMMA RowTyped ==
    ASSUME TypeOK
    PROVE  /\ Messages = 1..Len(log)
           /\ Len(log) \in Nat
           /\ \A m \in Messages : log[m] \in Requests
  BY ElementOfSeq DEF TypeOK, Messages

(* Adding a true answer and sending the writer home keeps the invariant.     *)
LEMMA AnswerSafe ==
    ASSUME TypeOK, SendInv, NEW w \in Writers, NEW kind, NEW m,
           Answer(w, kind, m), UNCHANGED <<log, idem>>,
           kind = "sent" => m \in Messages /\ log[m] = wreq[w],
           kind = "conflict" =>
              \E i \in Messages : /\ ScopedKey(log[i]) = ScopedKey(wreq[w])
                                  /\ log[i] # wreq[w],
           kind # "error"
    PROVE  SendInv'
<1>. USE DEF Answer, Goto
<1>1. Agree'
  BY DEF SendInv, Agree, Messages
<1>2. InFlight'
  BY DEF SendInv, InFlight, Messages, TypeOK
<1>3. AnswersAreTrue'
  BY DEF SendInv, AnswersAreTrue, Messages
<1>. QED  BY <1>1, <1>2, <1>3 DEF SendInv

LEMMA AnswerFromSafe ==
    ASSUME TypeOK, SendInv, NEW w \in Writers, wreq[w] \in Requests,
           idem[ScopedKey(wreq[w])] # 0,
           AnswerFrom(w, idem[ScopedKey(wreq[w])]), UNCHANGED <<log, idem>>
    PROVE  SendInv'
<1>. DEFINE m == idem[ScopedKey(wreq[w])]
<1>1. m \in Messages /\ ScopedKey(log[m]) = ScopedKey(wreq[w])
  BY KeyTyped DEF TypeOK, SendInv, Agree
<1>2. CASE log[m] = wreq[w]
  BY <1>1, <1>2, AnswerSafe DEF AnswerFrom
<1>3. CASE log[m] # wreq[w]
  BY <1>1, <1>3, AnswerSafe DEF AnswerFrom
<1>. QED  BY <1>2, <1>3

LEMMA InsertSafe ==
    ASSUME TypeOK, SendInv, NEW w \in Writers, Insert(w)
    PROVE  SendInv'
<1>. DEFINE k == ScopedKey(wreq[w])
<1>0. wreq[w] \in Requests /\ k \in ScopedKeys /\ wpc[w] = "insert"
  BY KeyTyped DEF Insert, TypeOK
<1>1. CASE idem[k] = 0
  <2>1. log' = Append(log, wreq[w])
    BY <1>1 DEF Insert
  <2>2. PICK n \in Nat : /\ n = Len(log)
                         /\ Messages = 1..n
                         /\ Messages' = Messages \cup {n + 1}
                         /\ \A i \in Messages : log'[i] = log[i]
                         /\ log'[n + 1] = wreq[w]
    BY <1>0, <2>1, AppendGrows
  <2>3. /\ idem' = [idem EXCEPT ![k] = n + 1]
        /\ wmsg' = [wmsg EXCEPT ![w] = n + 1]
        /\ wpc' = [wpc EXCEPT ![w] = "readback"]
        /\ UNCHANGED <<wreq, answers>>
    BY <1>1, <2>2 DEF Insert, Goto
  <2>4. Agree'
    <3>1. \A j \in ScopedKeys : idem'[j] # 0 => ScopedKey(log'[idem'[j]]) = j
      BY <1>0, <2>2, <2>3 DEF SendInv, Agree, TypeOK, ScopedKey
    <3>2. \A m \in Messages : ScopedKey(log[m]) # k
      BY <1>1, <2>2 DEF SendInv, Agree
    <3>3. \A m \in Messages : ScopedKey(log[m]) \in ScopedKeys
      BY RowTyped, KeyTyped
    <3>4. \A j \in ScopedKeys : idem'[j] = IF j = k THEN n + 1 ELSE idem[j]
      BY <1>0, <2>3 DEF TypeOK
    <3>5. \A m \in Messages' : idem'[ScopedKey(log'[m])] = m
      BY <1>0, <2>2, <3>2, <3>3, <3>4 DEF SendInv, Agree
    <3>. QED  BY <3>1, <3>5 DEF Agree, ScopedKey
  <2>5. InFlight'
    <3>. SUFFICES ASSUME NEW v \in Writers
                  PROVE  /\ wpc'[v] = "raced" => idem'[ScopedKey(wreq'[v])] # 0
                         /\ wpc'[v] = "readback" =>
                               wmsg'[v] \in Messages' /\ log'[wmsg'[v]] = wreq'[v]
      BY DEF InFlight, ScopedKey
    <3>1. CASE v = w
      BY <2>2, <2>3, <3>1 DEF TypeOK
    <3>2. CASE v # w
      <4>1. wpc'[v] = wpc[v] /\ wmsg'[v] = wmsg[v] /\ wreq'[v] = wreq[v]
        BY <2>3, <3>2 DEF TypeOK
      <4>2. wpc[v] = "raced" => ScopedKey(wreq[v]) \in ScopedKeys
        BY KeyTyped DEF TypeOK
      <4>. QED  BY <1>0, <2>2, <2>3, <4>1, <4>2 DEF SendInv, InFlight, TypeOK, ScopedKey
    <3>. QED  BY <3>1, <3>2
  <2>6. AnswersAreTrue'
    BY <2>2, <2>3 DEF SendInv, AnswersAreTrue, ScopedKey
  <2>. QED  BY <2>4, <2>5, <2>6 DEF SendInv
<1>2. CASE idem[k] # 0
  <2>1. /\ wpc' = [wpc EXCEPT ![w] = "raced"]
        /\ UNCHANGED <<log, idem, wmsg, wreq, answers>>
    BY <1>2 DEF Insert, Goto
  <2>. QED  BY <1>2, <2>1
            DEF SendInv, Agree, InFlight, AnswersAreTrue, Messages, TypeOK
<1>. QED  BY <1>1, <1>2

LEMMA SendNext == TypeOK /\ SendInv /\ [Next]_vars => SendInv'
<1>. SUFFICES ASSUME TypeOK, SendInv, [Next]_vars PROVE SendInv'
  OBVIOUS
<1>1. ASSUME NEW w \in Writers, NEW r \in Requests, BeginSend(w, r) PROVE SendInv'
  BY <1>1 DEF BeginSend, Goto, store, SendInv, Agree, InFlight, AnswersAreTrue,
              Messages, TypeOK
<1>2. ASSUME NEW w \in Writers, Lookup(w) PROVE SendInv'
  <2>0. wreq[w] \in Requests /\ UNCHANGED <<log, idem>>
    BY <1>2 DEF Lookup, TypeOK, store
  <2>1. CASE idem[ScopedKey(wreq[w])] # 0
    BY <1>2, <2>0, <2>1, AnswerFromSafe DEF Lookup
  <2>2. CASE idem[ScopedKey(wreq[w])] = 0
    <3>1. Goto(w, "insert") /\ UNCHANGED <<wreq, wmsg, answers>>
      BY <1>2, <2>2 DEF Lookup
    <3>. QED  BY <2>0, <3>1 DEF Goto, SendInv, Agree, InFlight, AnswersAreTrue,
                                Messages, TypeOK
  <2>. QED  BY <2>1, <2>2
<1>3. ASSUME NEW w \in Writers, Insert(w) PROVE SendInv'
  BY <1>3, InsertSafe
<1>4. ASSUME NEW w \in Writers, InsertFails(w) PROVE SendInv'
  <2>1. UNCHANGED <<log, idem>> /\ Answer(w, "failed", 0)
    BY <1>4 DEF InsertFails, store
  <2>. QED  BY <2>1, AnswerSafe
<1>5. ASSUME NEW w \in Writers, Raced(w) PROVE SendInv'
  <2>1. /\ wreq[w] \in Requests
        /\ UNCHANGED <<log, idem>>
        /\ idem[ScopedKey(wreq[w])] # 0
    BY <1>5 DEF Raced, TypeOK, store, SendInv, InFlight
  <2>. QED  BY <1>5, <2>1, AnswerFromSafe DEF Raced
<1>6. ASSUME NEW w \in Writers, Readback(w) PROVE SendInv'
  <2>1. /\ UNCHANGED <<log, idem>>
        /\ Answer(w, "sent", wmsg[w])
        /\ wmsg[w] \in Messages /\ log[wmsg[w]] = wreq[w]
    BY <1>6 DEF Readback, store, SendInv, InFlight
  <2>. QED  BY <2>1, AnswerSafe
<1>7. ASSUME NEW w \in Writers, CrashWriter(w) PROVE SendInv'
  BY <1>7 DEF CrashWriter, Goto, store, SendInv, Agree, InFlight, AnswersAreTrue,
              Messages, TypeOK
<1>8. CASE UNCHANGED <<log, idem, writer>>
  BY <1>8 DEF writer, SendInv, Agree, InFlight, AnswersAreTrue, Messages
<1>9. ASSUME NEW d \in Readers,
             \/ \E waits \in BOOLEAN : BeginPoll(d, waits)
             \/ ReaderStep(d) \/ AbortWait(d) \/ DeadlinePasses(d)
             \/ \E t \in Tokens \cup {0} : RestartReader(d, t)
      PROVE  UNCHANGED <<log, idem, writer>>
  BY <1>9 DEF BeginPoll, ReaderStep, Denied, ReadRows, FindCursor, MintCursor,
              PollAgain, AbortWait, DeadlinePasses, RestartReader, store
<1>10. CASE UNCHANGED vars
  BY <1>8, <1>10 DEF vars, writer
<1>. QED  BY <1>1, <1>2, <1>3, <1>4, <1>5, <1>6, <1>7, <1>8, <1>9, <1>10
          DEF Next, WriterStep

(* However many senders race and crash, a scoped idempotency key names at    *)
(* most one message.                                                         *)
THEOREM AtMostOneMessagePerKey == Spec => []OneMessagePerKey
<1>1. SendInv => OneMessagePerKey
  BY DEF SendInv, Agree, OneMessagePerKey
<1>. QED  BY <1>1, TypeInit, TypeNext, SendInit, SendNext, PTL DEF Spec

(* Every answer a sender gets is true of the store, and the UNIQUE error of  *)
(* a lost race never reaches it.                                             *)
THEOREM SendersAreToldTheTruth == Spec => []AnswersAreTrue
<1>1. SendInv => AnswersAreTrue
  BY DEF SendInv
<1>. QED  BY <1>1, TypeInit, TypeNext, SendInit, SendNext, PTL DEF Spec

-----------------------------------------------------------------------------
(* The store implements the ledger: an insert takes a request, an answer     *)
(* confirms, refuses or fails one, and every other step stutters.            *)
LEMMA KeyOfRequest ==
    ASSUME TypeOK, NEW m \in Messages
    PROVE  [r \in Requests |-> ScopedKey(r)][log[m]] = ScopedKey(log[m])
  BY RowTyped

LEMMA AnswerTells ==
    ASSUME TypeOK, SendInv, NEW w \in Writers, wreq[w] \in Requests,
           idem[ScopedKey(wreq[w])] # 0,
           AnswerFrom(w, idem[ScopedKey(wreq[w])]), UNCHANGED log
    PROVE  Ledger!Confirm(wreq[w]) \/ Ledger!Refuse(wreq[w])
<1>. DEFINE m == idem[ScopedKey(wreq[w])]
<1>1. m \in Messages /\ ScopedKey(log[m]) = ScopedKey(wreq[w])
  BY KeyTyped DEF TypeOK, SendInv, Agree
<1>2. m \in Ledger!Bound([r \in Requests |-> ScopedKey(r)][wreq[w]])
  BY <1>1, KeyOfRequest DEF Ledger!Bound, Messages
<1>3. CASE log[m] = wreq[w]
  <2>1. Ledger!Tell(wreq[w], "sent", m)
    BY <1>3 DEF AnswerFrom, Answer, Ledger!Tell
  <2>. QED  BY <1>2, <1>3, <2>1 DEF Ledger!Confirm
<1>4. CASE log[m] # wreq[w]
  <2>1. Ledger!Tell(wreq[w], "conflict", 0)
    BY <1>4 DEF AnswerFrom, Answer, Ledger!Tell
  <2>. QED  BY <1>2, <1>4, <2>1 DEF Ledger!Refuse
<1>. QED  BY <1>3, <1>4

LEMMA StepImplements ==
    TypeOK /\ SendInv /\ [Next]_vars => [Ledger!Next]_<<log, answers>>
<1>. SUFFICES ASSUME TypeOK, SendInv, [Next]_vars
              PROVE  Ledger!Next \/ UNCHANGED <<log, answers>>
  OBVIOUS
<1>1. ASSUME NEW w \in Writers, WriterStep(w) \/ InsertFails(w)
      PROVE  Ledger!Next \/ UNCHANGED <<log, answers>>
  <2>0. wreq[w] \in Requests
    BY <1>1 DEF WriterStep, Lookup, Insert, Raced, Readback, InsertFails, TypeOK
  <2>1. CASE Lookup(w) \/ Raced(w)
    <3>1. UNCHANGED log
      BY <2>1 DEF Lookup, Raced, store
    <3>2. CASE idem[ScopedKey(wreq[w])] # 0
      <4>1. AnswerFrom(w, idem[ScopedKey(wreq[w])])
        BY <2>1, <3>2 DEF Lookup, Raced
      <4>. QED  BY <2>0, <3>1, <3>2, <4>1, AnswerTells DEF Ledger!Next
    <3>3. CASE idem[ScopedKey(wreq[w])] = 0
      BY <2>1, <3>1, <3>3 DEF Lookup, Raced, SendInv, InFlight
    <3>. QED  BY <3>2, <3>3
  <2>2. CASE Insert(w)
    <3>1. CASE idem[ScopedKey(wreq[w])] = 0
      <4>1. log' = Append(log, wreq[w]) /\ UNCHANGED answers
        BY <2>2, <3>1 DEF Insert
      <4>2. \A m \in Messages : ScopedKey(log[m]) # ScopedKey(wreq[w])
        BY <3>1, RowTyped DEF SendInv, Agree
      <4>3. Ledger!Bound([r \in Requests |-> ScopedKey(r)][wreq[w]]) = {}
        BY <2>0, <4>2, KeyOfRequest DEF Ledger!Bound, Messages
      <4>. QED  BY <2>0, <4>1, <4>3 DEF Ledger!Next, Ledger!Take
    <3>2. CASE idem[ScopedKey(wreq[w])] # 0
      BY <2>2, <3>2 DEF Insert
    <3>. QED  BY <3>1, <3>2
  <2>3. CASE Readback(w)
    <3>1. wmsg[w] \in Messages /\ log[wmsg[w]] = wreq[w]
      BY <2>3 DEF Readback, SendInv, InFlight
    <3>2. Ledger!Tell(wreq[w], "sent", wmsg[w])
      BY <2>3 DEF Readback, Answer, store, Ledger!Tell
    <3>3. wmsg[w] \in Ledger!Bound([r \in Requests |-> ScopedKey(r)][wreq[w]])
      BY <2>0, <3>1 DEF Ledger!Bound, Messages
    <3>. QED  BY <2>0, <3>1, <3>2, <3>3 DEF Ledger!Next, Ledger!Confirm
  <2>4. CASE InsertFails(w)
    <3>1. Ledger!Tell(wreq[w], "failed", 0)
      BY <2>4 DEF InsertFails, Answer, store, Ledger!Tell
    <3>. QED  BY <2>0, <3>1 DEF Ledger!Next, Ledger!Fail
  <2>. QED  BY <1>1, <2>1, <2>2, <2>3, <2>4 DEF WriterStep
<1>2. ASSUME NEW w \in Writers,
             CrashWriter(w) \/ \E r \in Requests : BeginSend(w, r)
      PROVE  UNCHANGED <<log, answers>>
  BY <1>2 DEF CrashWriter, BeginSend, store
<1>3. ASSUME NEW d \in Readers,
             \/ \E waits \in BOOLEAN : BeginPoll(d, waits)
             \/ ReaderStep(d) \/ AbortWait(d) \/ DeadlinePasses(d)
             \/ \E t \in Tokens \cup {0} : RestartReader(d, t)
      PROVE  UNCHANGED <<log, answers>>
  BY <1>3 DEF BeginPoll, ReaderStep, Denied, ReadRows, FindCursor, MintCursor,
              PollAgain, AbortWait, DeadlinePasses, RestartReader, store, writer
<1>4. CASE UNCHANGED vars
  BY <1>4 DEF vars
<1>. QED  BY <1>1, <1>2, <1>3, <1>4 DEF Next

(* Seen through its log and its answers, the store with its racing lookups,  *)
(* transactions and crashes is the atomic idempotent ledger.                 *)
THEOREM StoreImplementsLedger == Spec => ImplementsLedger
<1>1. Init => Ledger!Init
  BY DEF Init, Ledger!Init
<1>. QED  BY <1>1, TypeInit, TypeNext, SendInit, SendNext, StepImplements, PTL
          DEF Spec, ImplementsLedger, Ledger!Spec

-----------------------------------------------------------------------------
(* Readers. A page under way is exactly what lies between the cursor passed  *)
(* in and the one to be handed out, and no cursor is ahead of the log: events*)
(* committed later fall after every cursor that exists.                      *)
ReaderSafe(d) ==
    /\ IF rpc[d] \in {"cursor", "mint"}
       THEN /\ ~Foreign(d)
            /\ Position(rcur[d]) <= rlast[d] /\ rlast[d] <= Len(log)
            /\ rgot[d] = EventsOf(ScopeOf[d], Position(rcur[d]), rlast[d])
       ELSE rgot[d] = {}
    /\ IF Foreign(d) THEN seen[d] = {}
       ELSE /\ base[d] <= Position(rcur[d])
            /\ seen[d] = EventsOf(ScopeOf[d], base[d], Position(rcur[d]))

CursorsWithinLog == \A t \in Tokens : cursors[t].seq <= Len(log)

PollInv == CursorsWithinLog /\ \A d \in Readers : ReaderSafe(d)

LEMMA PollInit == Init => PollInv
  BY DEF Init, PollInv, CursorsWithinLog, ReaderSafe, EventsOf, Foreign, OwnCursor, Position,
         Messages, Tokens

LEMMA ReaderTypes ==
    ASSUME TypeOK, NEW d \in Readers
    PROVE  /\ rcur[d] \in {0} \cup Tokens
           /\ Position(rcur[d]) \in Nat
           /\ base[d] \in Nat
           /\ rlast[d] \in Nat
<1>1. rcur[d] \in {0} \cup Tokens /\ base[d] \in Nat /\ rlast[d] \in Nat
  BY DEF TypeOK
<1>. QED  BY <1>1, PositionTyped

LEMMA EventsSplit ==
    ASSUME TypeOK, NEW s, NEW lo \in Nat, NEW mid \in Nat, NEW hi \in Nat,
           lo <= mid, mid <= hi
    PROVE  /\ EventsOf(s, lo, hi) = EventsOf(s, lo, mid) \cup EventsOf(s, mid, hi)
           /\ \A i \in EventsOf(s, lo, mid), j \in EventsOf(s, mid, hi) : i < j
<1>1. Messages \subseteq Nat
  BY RowTyped
<1>2. ASSUME NEW i \in Messages
      PROVE  (lo < i /\ i <= hi) <=> ((lo < i /\ i <= mid) \/ (mid < i /\ i <= hi))
  BY <1>1
<1>3. EventsOf(s, lo, hi) = EventsOf(s, lo, mid) \cup EventsOf(s, mid, hi)
  BY <1>2, Zenon DEF EventsOf
<1>4. ASSUME NEW i \in EventsOf(s, lo, mid), NEW j \in EventsOf(s, mid, hi)
      PROVE  i < j
  <2>1. i \in Nat /\ j \in Nat /\ i <= mid /\ mid < j
    BY <1>1 DEF EventsOf
  <2>. QED  BY <2>1
<1>. QED  BY <1>3, <1>4

LEMMA EventsNone ==
    ASSUME TypeOK, NEW s, NEW n \in Nat
    PROVE  EventsOf(s, n, n) = {}
<1>1. \A i \in Messages : ~(n < i /\ i <= n)
  BY RowTyped
<1>. QED  BY <1>1 DEF EventsOf

LEMMA PollInvImplies == TypeOK /\ PollInv => NoGapNoRepeat
<1>. SUFFICES ASSUME TypeOK, PollInv, NEW d \in Readers
              PROVE  /\ IF ~OwnCursor(d) THEN seen[d] = {} /\ rgot[d] = {}
                        ELSE seen[d] = EventsOf(ScopeOf[d], base[d], Position(rcur[d]))
                     /\ \A i \in seen[d], j \in rgot[d] : i < j
  BY DEF NoGapNoRepeat
<1>1. ReaderSafe(d)
  BY DEF PollInv
<1>2. ASSUME NEW i \in seen[d], NEW j \in rgot[d] PROVE i < j
  <2>0. /\ Position(rcur[d]) \in Nat
        /\ base[d] \in Nat
        /\ rlast[d] \in Nat
    BY ReaderTypes
  <2>1. CASE rpc[d] \in {"cursor", "mint"}
    <3>1. /\ base[d] <= Position(rcur[d])
          /\ Position(rcur[d]) <= rlast[d]
          /\ i \in EventsOf(ScopeOf[d], base[d], Position(rcur[d]))
          /\ j \in EventsOf(ScopeOf[d], Position(rcur[d]), rlast[d])
      BY <1>1, <1>2, <2>1 DEF ReaderSafe
    <3>. QED  BY <2>0, <3>1, EventsSplit
  <2>. QED  BY <1>1, <1>2, <2>1 DEF ReaderSafe
<1>. QED  BY <1>1, <1>2 DEF ReaderSafe, Foreign

LEMMA TokenTyped ==
    ASSUME TypeOK
    PROVE  /\ Tokens = 1..Len(cursors)
           /\ Len(cursors) \in Nat
           /\ \A t \in Tokens : cursors[t] \in [scope : Scopes, seq : Nat]
<1>1. cursors \in Seq([scope : Scopes, seq : Nat])
  BY DEF TypeOK
<1>2. Tokens = 1..Len(cursors) /\ Len(cursors) \in Nat
  BY <1>1 DEF Tokens
<1>. QED  BY <1>1, <1>2, ElementOfSeq

(* Whoever does not touch its own cursor, page and history keeps the         *)
(* invariant while rows are added behind every cursor or nothing is added.   *)
LEMMA OtherReaderSafe ==
    ASSUME TypeOK, PollInv, NEW e \in Readers,
           Len(log) \in Nat, Len(log') \in Nat, Len(log) <= Len(log'),
           Messages = 1..Len(log), Messages' = 1..Len(log'),
           \A i \in Messages : log'[i] = log[i],
           \A u \in Tokens : u \in Tokens' /\ cursors'[u] = cursors[u],
           rcur'[e] = rcur[e], rlast'[e] = rlast[e], rgot'[e] = rgot[e],
           base'[e] = base[e], seen'[e] = seen[e],
           rpc'[e] \in {"cursor", "mint"} <=> rpc[e] \in {"cursor", "mint"}
    PROVE  ReaderSafe(e)'
<1>1. rcur[e] \in {0} \cup Tokens /\ Tokens \subseteq Nat \ {0}
  <2>1. Tokens = 1..Len(cursors) /\ Len(cursors) \in Nat
    BY TokenTyped
  <2>2. rcur[e] \in {0} \cup Tokens
    BY DEF TypeOK
  <2>. QED  BY <2>1, <2>2
<1>2. Foreign(e)' = Foreign(e)
  <2>1. CASE rcur[e] = 0
    BY <2>1 DEF Foreign, OwnCursor
  <2>2. CASE rcur[e] \in Tokens
    <3>1. cursors'[rcur[e]] = cursors[rcur[e]]
      BY <2>2
    <3>. QED  BY <3>1 DEF Foreign, OwnCursor
  <2>. QED  BY <1>1, <2>1, <2>2
<1>3. Position(rcur[e])' = Position(rcur[e])
  BY <1>1 DEF Position
<1>4. Position(rcur[e]) \in Nat /\ Position(rcur[e]) <= Len(log)
  <2>1. CASE rcur[e] = 0
    BY <2>1 DEF Position
  <2>2. CASE rcur[e] # 0
    BY <1>1, <2>2, TokenTyped DEF Position, PollInv, CursorsWithinLog
  <2>. QED  BY <2>1, <2>2
<1>5. ASSUME NEW lo \in Nat, NEW hi \in Nat, hi <= Len(log)
      PROVE  {i \in Messages' : lo < i /\ i <= hi /\ Scope(log'[i]) = ScopeOf[e]}
               = EventsOf(ScopeOf[e], lo, hi)
  BY <1>5 DEF EventsOf
<1>6. rlast[e] \in Nat /\ base[e] \in Nat
  BY DEF TypeOK
<1>7. EventsOf(ScopeOf[e], base[e], Position(rcur[e]))'
        = EventsOf(ScopeOf[e], base[e], Position(rcur[e]))
  BY <1>3, <1>4, <1>5, <1>6 DEF EventsOf, Scope
<1>8. rlast[e] <= Len(log) =>
        EventsOf(ScopeOf[e], Position(rcur[e]), rlast[e])'
          = EventsOf(ScopeOf[e], Position(rcur[e]), rlast[e])
  BY <1>3, <1>4, <1>5, <1>6 DEF EventsOf, Scope
<1>9. ReaderSafe(e)
  BY DEF PollInv
<1>. QED
  BY <1>2, <1>3, <1>4, <1>6, <1>7, <1>8, <1>9 DEF ReaderSafe

LEMMA PageExtends ==
    ASSUME TypeOK, NEW d \in Readers, NEW n \in Nat,
           base[d] <= Position(rcur[d]), Position(rcur[d]) <= n
    PROVE  EventsOf(ScopeOf[d], base[d], n)
             = EventsOf(ScopeOf[d], base[d], Position(rcur[d]))
                 \cup EventsOf(ScopeOf[d], Position(rcur[d]), n)
<1>1. base[d] \in Nat /\ Position(rcur[d]) \in Nat
  BY ReaderTypes
<1>. QED  BY <1>1, EventsSplit

LEMMA EndPassSafe ==
    ASSUME TypeOK, TypeOK', PollInv, NEW d \in Readers, NEW t \in Tokens',
           EndPass(d, t), UNCHANGED <<log, base>>, ~Foreign(d),
           NEW n \in Nat, Position(rcur[d]) <= n, n <= Len(log),
           rgot[d] = EventsOf(ScopeOf[d], Position(rcur[d]), n),
           cursors'[t] = [scope |-> ScopeOf[d], seq |-> n],
           \A u \in Tokens : u \in Tokens' /\ cursors'[u] = cursors[u],
           \A u \in Tokens' : cursors'[u].seq <= Len(log)
    PROVE  PollInv'
<1>1. /\ rcur' = [rcur EXCEPT ![d] = t]
      /\ seen' = [seen EXCEPT ![d] = @ \cup rgot[d]]
      /\ rgot' = [rgot EXCEPT ![d] = {}]
      /\ rlast' = [rlast EXCEPT ![d] = 0]
      /\ \E pc \in {"idle", "delay"} : rpc' = [rpc EXCEPT ![d] = pc]
  BY DEF EndPass, Leave, RGoto
<1>2. t # 0
  BY TokenTyped DEF TypeOK, Tokens
<1>3. rcur'[d] = t /\ rgot'[d] = {} /\ rpc'[d] \notin {"cursor", "mint"}
      /\ seen'[d] = seen[d] \cup rgot[d] /\ base'[d] = base[d]
  BY <1>1 DEF TypeOK
<1>4. Position(rcur[d])' = n /\ ~Foreign(d)'
  BY <1>2, <1>3 DEF Position, Foreign, OwnCursor
<1>5. /\ base[d] <= Position(rcur[d])
      /\ seen[d] = EventsOf(ScopeOf[d], base[d], Position(rcur[d]))
  BY DEF PollInv, ReaderSafe
<1>6. base[d] \in Nat /\ Position(rcur[d]) \in Nat
  BY ReaderTypes
<1>7. EventsOf(ScopeOf[d], base[d], n)
        = EventsOf(ScopeOf[d], base[d], Position(rcur[d]))
            \cup EventsOf(ScopeOf[d], Position(rcur[d]), n)
  BY <1>5, PageExtends
<1>8. EventsOf(ScopeOf[d], base[d], Position(rcur[d]))'
        = EventsOf(ScopeOf[d], base[d], n)
  BY <1>3, <1>4 DEF EventsOf, Messages, Scope
<1>9. ReaderSafe(d)'
  BY <1>3, <1>4, <1>5, <1>6, <1>7, <1>8 DEF ReaderSafe
<1>10. ASSUME NEW e \in Readers, e # d PROVE ReaderSafe(e)'
  <2>1. /\ rcur'[e] = rcur[e] /\ rlast'[e] = rlast[e] /\ rgot'[e] = rgot[e]
        /\ base'[e] = base[e] /\ seen'[e] = seen[e] /\ rpc'[e] = rpc[e]
    BY <1>1, <1>10 DEF TypeOK
  <2>2. /\ Len(log) \in Nat /\ Len(log') \in Nat /\ Len(log) <= Len(log')
        /\ Messages = 1..Len(log) /\ Messages' = 1..Len(log')
        /\ \A i \in Messages : log'[i] = log[i]
    BY RowTyped DEF Messages
  <2>. QED  BY <2>1, <2>2, OtherReaderSafe
<1>11. CursorsWithinLog'
  BY DEF CursorsWithinLog
<1>. QED  BY <1>9, <1>10, <1>11 DEF PollInv

(* A step after which no reader has another cursor, page or history, and     *)
(* which only adds rows.                                                     *)
LEMMA ReadersUntouched ==
    ASSUME TypeOK, TypeOK', PollInv,
           UNCHANGED <<cursors, rcur, rlast, rgot, base, seen>>,
           Len(log) <= Len(log'), \A i \in Messages : log'[i] = log[i],
           \A e \in Readers :
              rpc'[e] \in {"cursor", "mint"} <=> rpc[e] \in {"cursor", "mint"}
    PROVE  PollInv'
<1>1. /\ Len(log) \in Nat /\ Len(log') \in Nat
      /\ Messages = 1..Len(log) /\ Messages' = 1..Len(log')
  BY DEF TypeOK, Messages
<1>2. ASSUME NEW e \in Readers PROVE ReaderSafe(e)'
  <2>1. \A u \in Tokens : u \in Tokens' /\ cursors'[u] = cursors[u]
    BY DEF Tokens
  <2>. QED  BY <1>1, <2>1, OtherReaderSafe
<1>3. CursorsWithinLog'
  <2>1. \A t \in Tokens : cursors[t].seq \in Nat /\ cursors[t].seq <= Len(log)
    BY TokenTyped DEF PollInv, CursorsWithinLog
  <2>. QED  BY <1>1, <2>1 DEF CursorsWithinLog, Tokens
<1>. QED  BY <1>2, <1>3 DEF PollInv

(* A step that only touches reader d, and leaves every row alone.            *)
LEMMA OneReaderTouched ==
    ASSUME TypeOK, PollInv, NEW d \in Readers, ReaderSafe(d)',
           UNCHANGED <<log, cursors>>,
           \A e \in Readers \ {d} :
              /\ rcur'[e] = rcur[e] /\ rlast'[e] = rlast[e] /\ rgot'[e] = rgot[e]
              /\ base'[e] = base[e] /\ seen'[e] = seen[e] /\ rpc'[e] = rpc[e]
    PROVE  PollInv'
<1>1. /\ Len(log) \in Nat /\ Len(log') \in Nat /\ Len(log) <= Len(log')
      /\ Messages = 1..Len(log) /\ Messages' = 1..Len(log')
      /\ \A i \in Messages : log'[i] = log[i]
      /\ \A u \in Tokens : u \in Tokens' /\ cursors'[u] = cursors[u]
  BY RowTyped DEF Messages, Tokens
<1>2. ASSUME NEW e \in Readers, e # d PROVE ReaderSafe(e)'
  BY <1>1, <1>2, OtherReaderSafe
<1>3. CursorsWithinLog'
  BY DEF PollInv, CursorsWithinLog, Tokens
<1>. QED  BY <1>2, <1>3 DEF PollInv

LEMMA PageIsEvents ==
    ASSUME TypeOK, NEW s, NEW lo \in Nat, NEW last \in Page(s, lo),
           \A i \in Page(s, lo) : i <= last
    PROVE  /\ Page(s, lo) = EventsOf(s, lo, last)
           /\ lo <= last /\ last \in Nat /\ last <= Len(log)
<1>1. /\ Messages = 1..Len(log) /\ Len(log) \in Nat
      /\ last \in Messages /\ last \in After(s, lo) /\ lo < last
      /\ Cardinality({j \in After(s, lo) : j <= last}) <= PollLimit
  BY RowTyped DEF Page, After
<1>2. Page(s, lo) \subseteq EventsOf(s, lo, last)
  BY DEF Page, After, EventsOf
<1>3. ASSUME NEW i \in EventsOf(s, lo, last) PROVE i \in Page(s, lo)
  <2>. DEFINE A == {j \in After(s, lo) : j <= i}
              B == {j \in After(s, lo) : j <= last}
  <2>1. i \in After(s, lo) /\ i <= last /\ i \in Nat
    BY <1>1, <1>3 DEF EventsOf, After
  <2>2. After(s, lo) \subseteq 1..Len(log)
    BY <1>1 DEF After
  <2>3. A \subseteq B
    BY <1>1, <2>1, <2>2
  <2>4. IsFiniteSet(B)
    <3>1. IsFiniteSet(1..Len(log))
      BY <1>1, FS_Interval
    <3>2. B \subseteq 1..Len(log)
      BY <2>2
    <3>. QED  BY <3>1, <3>2, FS_Subset
  <2>5. Cardinality(A) <= Cardinality(B) /\ Cardinality(A) \in Nat
        /\ Cardinality(B) \in Nat
    BY <2>3, <2>4, FS_Subset, FS_CardinalityType
  <2>6. Cardinality(A) <= PollLimit
    BY <1>1, <2>5, BoundsAssumption
  <2>. QED  BY <2>1, <2>6 DEF Page
<1>. QED  BY <1>1, <1>2, <1>3

LEMMA ReadRowsSafe ==
    ASSUME TypeOK, TypeOK', PollInv, NEW d \in Readers, ReadRows(d)
    PROVE  PollInv'
<1>. DEFINE from == Position(rcur[d])
            page == Page(ScopeOf[d], from)
<1>1. /\ rpc[d] = "read" /\ ~Foreign(d)
      /\ UNCHANGED <<log, cursors, base>>
  BY DEF ReadRows, store
<1>2. /\ from \in Nat /\ from <= Len(log) /\ Len(log) \in Nat
      /\ rgot[d] = {} /\ ReaderSafe(d)
  <2>1. rcur[d] \in {0} \cup Tokens /\ from \in Nat /\ Len(log) \in Nat
    BY ReaderTypes, RowTyped
  <2>2. from <= Len(log)
    BY <2>1 DEF Position, PollInv, CursorsWithinLog
  <2>3. ReaderSafe(d)
    BY DEF PollInv
  <2>. QED  BY <1>1, <2>1, <2>2, <2>3 DEF ReaderSafe
<1>3. CASE page = {} /\ EndPass(d, rcur[d])
  <2>1. /\ rcur' = rcur /\ rlast' = [rlast EXCEPT ![d] = 0]
        /\ seen' = seen /\ rgot' = rgot
        /\ \E pc \in {"idle", "delay"} : rpc' = [rpc EXCEPT ![d] = pc]
    BY <1>2, <1>3 DEF EndPass, Leave, RGoto, TypeOK
  <2>2. ReaderSafe(d)'
    BY <1>1, <1>2, <2>1
    DEF ReaderSafe, TypeOK, Foreign, OwnCursor, Position, EventsOf, Messages, Scope
  <2>. QED  BY <1>1, <2>1, <2>2, OneReaderTouched DEF TypeOK
<1>4. ASSUME NEW n \in Nat, from <= n, n <= Len(log),
             page = EventsOf(ScopeOf[d], from, n),
             rgot' = [rgot EXCEPT ![d] = page],
             rlast' = [rlast EXCEPT ![d] = n],
             RGoto(d, "cursor"), UNCHANGED <<rcur, seen>>
      PROVE  PollInv'
  <2>1. rpc' = [rpc EXCEPT ![d] = "cursor"]
    BY <1>4 DEF RGoto
  <2>2. /\ rpc'[d] = "cursor" /\ rlast'[d] = n /\ rgot'[d] = page
        /\ rcur'[d] = rcur[d] /\ base'[d] = base[d] /\ seen'[d] = seen[d]
    BY <1>1, <1>4, <2>1 DEF TypeOK
  <2>3. Foreign(d)' = Foreign(d) /\ Position(rcur[d])' = from
    BY <1>1, <2>2 DEF Foreign, OwnCursor, Position
  <2>4. \A lo, hi : {i \in Messages' : lo < i /\ i <= hi /\ Scope(log'[i]) = ScopeOf[d]}
                       = EventsOf(ScopeOf[d], lo, hi)
    BY <1>1 DEF EventsOf, Messages
  <2>5. ReaderSafe(d)'
    BY <1>1, <1>2, <1>4, <2>2, <2>3, <2>4 DEF ReaderSafe, EventsOf, Scope
  <2>6. \A e \in Readers \ {d} :
          /\ rcur'[e] = rcur[e] /\ rlast'[e] = rlast[e] /\ rgot'[e] = rgot[e]
          /\ base'[e] = base[e] /\ seen'[e] = seen[e] /\ rpc'[e] = rpc[e]
    BY <1>1, <1>4, <2>1 DEF TypeOK
  <2>. QED  BY <1>1, <2>5, <2>6, OneReaderTouched
<1>5. CASE /\ page = {}
           /\ rgot' = [rgot EXCEPT ![d] = page]
           /\ rlast' = [rlast EXCEPT ![d] = from]
           /\ RGoto(d, "cursor")
           /\ UNCHANGED <<rcur, seen, due>>
  <2>1. page = EventsOf(ScopeOf[d], from, from)
    BY <1>2, <1>5, EventsNone
  <2>2. from <= from
    BY <1>2
  <2>. QED  BY <1>2, <1>4, <1>5, <2>1, <2>2
<1>6. CASE \E last \in page :
                /\ \A i \in page : i <= last
                /\ rgot' = [rgot EXCEPT ![d] = page]
                /\ rlast' = [rlast EXCEPT ![d] = last]
                /\ RGoto(d, "cursor")
                /\ UNCHANGED <<rcur, seen, due>>
  <2>1. PICK last \in page :
                /\ \A i \in page : i <= last
                /\ rgot' = [rgot EXCEPT ![d] = page]
                /\ rlast' = [rlast EXCEPT ![d] = last]
                /\ RGoto(d, "cursor")
                /\ UNCHANGED <<rcur, seen, due>>
    BY <1>6
  <2>2. /\ page = EventsOf(ScopeOf[d], from, last)
        /\ from <= last /\ last \in Nat /\ last <= Len(log)
    BY <1>2, <2>1, PageIsEvents
  <2>. QED  BY <1>4, <2>1, <2>2
<1>. QED  BY <1>3, <1>5, <1>6 DEF ReadRows

(* FindCursor and MintCursor hand out a token of the position just read.     *)
LEMMA HandOutSafe ==
    ASSUME TypeOK, TypeOK', PollInv, NEW d \in Readers,
           rpc[d] \in {"cursor", "mint"}, UNCHANGED <<log, base>>,
           NEW t \in Tokens', EndPass(d, t),
           cursors'[t] = [scope |-> ScopeOf[d], seq |-> rlast[d]],
           \A u \in Tokens : u \in Tokens' /\ cursors'[u] = cursors[u],
           \A u \in Tokens' : u \in Tokens \/ u = t
    PROVE  PollInv'
<1>1. /\ ~Foreign(d) /\ rlast[d] \in Nat
      /\ Position(rcur[d]) <= rlast[d] /\ rlast[d] <= Len(log)
      /\ rgot[d] = EventsOf(ScopeOf[d], Position(rcur[d]), rlast[d])
  BY ReaderTypes DEF PollInv, ReaderSafe
<1>2. \A u \in Tokens' : cursors'[u].seq <= Len(log)
  BY <1>1 DEF PollInv, CursorsWithinLog
<1>. QED  BY <1>1, <1>2, EndPassSafe

LEMMA PollNext == TypeOK /\ TypeOK' /\ PollInv /\ [Next]_vars => PollInv'
<1>. SUFFICES ASSUME TypeOK, TypeOK', PollInv, [Next]_vars PROVE PollInv'
  OBVIOUS
<1>0. Len(log) \in Nat
  BY RowTyped
<1>1. ASSUME UNCHANGED <<log, cursors, rcur, rlast, rgot, base, seen>>,
             \A e \in Readers :
                rpc'[e] \in {"cursor", "mint"} <=> rpc[e] \in {"cursor", "mint"}
      PROVE  PollInv'
  <2>1. Len(log) <= Len(log') /\ \A i \in Messages : log'[i] = log[i]
    BY <1>0, <1>1
  <2>. QED  BY <1>1, <2>1, ReadersUntouched
<1>2. ASSUME NEW w \in Writers, Insert(w) PROVE PollInv'
  <2>1. UNCHANGED <<cursors, rpc, rcur, rlast, rgot, base, seen>>
    BY <1>2 DEF Insert, reader
  <2>2. CASE log' = Append(log, wreq[w])
    <3>1. wreq[w] \in Requests
      BY <1>2 DEF Insert, TypeOK
    <3>2. Len(log) <= Len(log') /\ \A i \in Messages : log'[i] = log[i]
      BY <1>0, <2>2, <3>1, AppendGrows
    <3>. QED  BY <2>1, <3>2, ReadersUntouched
  <2>3. CASE UNCHANGED log
    BY <1>1, <2>1, <2>3
  <2>. QED  BY <1>2, <2>2, <2>3 DEF Insert
<1>3. ASSUME NEW w \in Writers,
             \/ \E r \in Requests : BeginSend(w, r)
             \/ Lookup(w) \/ Raced(w) \/ Readback(w)
             \/ InsertFails(w) \/ CrashWriter(w)
      PROVE  PollInv'
  <2>1. UNCHANGED <<log, cursors, rpc, rcur, rlast, rgot, base, seen>>
    BY <1>3 DEF BeginSend, Lookup, Raced, Readback, InsertFails, CrashWriter,
                store, reader
  <2>. QED  BY <1>1, <2>1
<1>4. ASSUME NEW d \in Readers,
             \/ \E waits \in BOOLEAN : BeginPoll(d, waits)
             \/ Denied(d) \/ PollAgain(d) \/ AbortWait(d) \/ DeadlinePasses(d)
      PROVE  PollInv'
  <2>1. UNCHANGED <<log, cursors, rcur, rlast, rgot, base, seen>>
    BY <1>4 DEF BeginPoll, Denied, PollAgain, AbortWait, DeadlinePasses, store
  <2>2. \A e \in Readers :
           rpc'[e] \in {"cursor", "mint"} <=> rpc[e] \in {"cursor", "mint"}
    BY <1>4 DEF BeginPoll, Denied, PollAgain, AbortWait, DeadlinePasses, Leave,
                RGoto, TypeOK
  <2>. QED  BY <1>1, <2>1, <2>2
<1>5. ASSUME NEW d \in Readers, ReadRows(d) PROVE PollInv'
  BY <1>5, ReadRowsSafe
<1>6. ASSUME NEW d \in Readers, FindCursor(d) PROVE PollInv'
  <2>0. rpc[d] = "cursor" /\ UNCHANGED <<log, cursors, base>>
    BY <1>6 DEF FindCursor, store
  <2>1. CASE \E t \in CursorTokens(ScopeOf[d], rlast[d]) : EndPass(d, t)
    <3>1. PICK t \in Tokens : /\ EndPass(d, t)
                              /\ cursors[t] = [scope |-> ScopeOf[d], seq |-> rlast[d]]
      BY <2>1 DEF CursorTokens
    <3>2. t \in Tokens' /\ Tokens' = Tokens
      BY <2>0 DEF Tokens
    <3>. QED  BY <2>0, <3>1, <3>2, HandOutSafe
  <2>2. CASE RGoto(d, "mint") /\ UNCHANGED <<rcur, seen, rgot, rlast, due>>
    <3>1. \A e \in Readers :
             rpc'[e] \in {"cursor", "mint"} <=> rpc[e] \in {"cursor", "mint"}
      BY <2>0, <2>2 DEF RGoto, TypeOK
    <3>. QED  BY <1>1, <2>0, <2>2, <3>1
  <2>. QED  BY <1>6, <2>1, <2>2 DEF FindCursor
<1>7. ASSUME NEW d \in Readers, MintCursor(d) PROVE PollInv'
  <2>. DEFINE row == [scope |-> ScopeOf[d], seq |-> rlast[d]]
  <2>0. rpc[d] = "mint" /\ UNCHANGED <<log, base>>
    BY <1>7 DEF MintCursor
  <2>1. CASE \E t \in CursorTokens(ScopeOf[d], rlast[d]) :
                EndPass(d, t) /\ UNCHANGED cursors
    <3>1. PICK t \in Tokens : /\ EndPass(d, t) /\ UNCHANGED cursors
                              /\ cursors[t] = row
      BY <2>1 DEF CursorTokens
    <3>2. t \in Tokens' /\ Tokens' = Tokens
      BY <3>1 DEF Tokens
    <3>. QED  BY <2>0, <3>1, <3>2, HandOutSafe
  <2>2. CASE cursors' = Append(cursors, row) /\ EndPass(d, Len(cursors) + 1)
    <3>1. cursors \in Seq([scope : Scopes, seq : Nat])
          /\ row \in [scope : Scopes, seq : Nat]
      BY ReaderTypes, ScopeTyped DEF TypeOK
    <3>2. /\ Tokens = 1..Len(cursors) /\ Len(cursors) \in Nat
          /\ Tokens' = 1..(Len(cursors) + 1)
          /\ cursors'[Len(cursors) + 1] = row
          /\ \A u \in 1..Len(cursors) : cursors'[u] = cursors[u]
      BY <2>2, <3>1 DEF Tokens
    <3>. QED  BY <2>0, <2>2, <3>2, HandOutSafe
  <2>. QED  BY <1>7, <2>1, <2>2 DEF MintCursor
<1>8. ASSUME NEW d \in Readers, NEW t \in Tokens \cup {0}, RestartReader(d, t)
      PROVE  PollInv'
  <2> DEFINE own == t # 0 /\ cursors[t].scope = ScopeOf[d]
             from == IF own THEN Position(t) ELSE 0
  <2>1. /\ UNCHANGED <<log, cursors>>
        /\ rpc' = [rpc EXCEPT ![d] = "idle"] /\ rcur' = [rcur EXCEPT ![d] = t]
        /\ base' = [base EXCEPT ![d] = from]
        /\ seen' = [seen EXCEPT ![d] = {}] /\ rgot' = [rgot EXCEPT ![d] = {}]
        /\ rlast' = [rlast EXCEPT ![d] = 0]
    BY <1>8 DEF RestartReader, Leave, RGoto, store
  <2> HIDE DEF from
  <2>2. /\ rpc'[d] = "idle" /\ rcur'[d] = t /\ base'[d] = from
        /\ seen'[d] = {} /\ rgot'[d] = {}
    BY <2>1 DEF TypeOK
  <2>3. Position(rcur[d])' = Position(t) /\ Position(t) \in Nat
    <3>1. rcur'[d] = t /\ cursors' = cursors
      BY <2>1, <2>2
    <3>. QED  BY <3>1, PositionTyped DEF Position
  <2>4. ~Foreign(d)' => from = Position(t)
    BY <2>1, <2>2 DEF Foreign, OwnCursor, from, Position
  <2>5. ReaderSafe(d)'
    <3>1. EventsOf(ScopeOf[d], Position(t), Position(t)) = {}
      BY <2>3, EventsNone
    <3>2. ~Foreign(d)' => EventsOf(ScopeOf[d], base[d], Position(rcur[d]))'
                            = EventsOf(ScopeOf[d], Position(t), Position(t))
      BY <2>1, <2>2, <2>3, <2>4 DEF EventsOf, Messages, Scope
    <3>. QED  BY <2>2, <2>3, <2>4, <3>1, <3>2 DEF ReaderSafe
  <2>6. \A e \in Readers \ {d} :
          /\ rcur'[e] = rcur[e] /\ rlast'[e] = rlast[e] /\ rgot'[e] = rgot[e]
          /\ base'[e] = base[e] /\ seen'[e] = seen[e] /\ rpc'[e] = rpc[e]
    BY <2>1 DEF TypeOK
  <2>. QED  BY <2>1, <2>5, <2>6, OneReaderTouched
<1>9. CASE UNCHANGED vars
  BY <1>1, <1>9 DEF vars
<1>. QED  BY <1>2, <1>3, <1>4, <1>5, <1>6, <1>7, <1>8, <1>9
          DEF Next, WriterStep, ReaderStep

(* Whatever is committed while a recipient pages through its events, it is   *)
(* handed each of them once, in order, with none left out and none of        *)
(* anybody else's.                                                           *)
THEOREM PagingIsExact == Spec => []NoGapNoRepeat
<1>. QED  BY TypeInit, TypeNext, PollInit, PollNext, PollInvImplies, PTL DEF Spec

(* Two processes that reach one position hand out the same token.            *)
THEOREM TokensAreUnique == Spec => []OneTokenPerPosition
<1>1. Init => OneTokenPerPosition
  BY DEF Init, OneTokenPerPosition, Tokens
<1>2. TypeOK /\ OneTokenPerPosition /\ [Next]_vars => OneTokenPerPosition'
  <2>. SUFFICES ASSUME TypeOK, OneTokenPerPosition, [Next]_vars
                PROVE  OneTokenPerPosition'
    OBVIOUS
  <2>1. ASSUME UNCHANGED cursors PROVE OneTokenPerPosition'
    BY <2>1 DEF OneTokenPerPosition, Tokens
  <2>2. ASSUME NEW d \in Readers, MintCursor(d) PROVE OneTokenPerPosition'
    <3>. DEFINE row == [scope |-> ScopeOf[d], seq |-> rlast[d]]
    <3>1. CASE CursorTokens(ScopeOf[d], rlast[d]) = {} /\ cursors' = Append(cursors, row)
      <4>1. cursors \in Seq([scope : Scopes, seq : Nat])
            /\ row \in [scope : Scopes, seq : Nat]
        BY ReaderTypes, ScopeTyped DEF TypeOK
      <4>2. /\ Tokens = 1..Len(cursors) /\ Len(cursors) \in Nat
            /\ Tokens' = 1..(Len(cursors) + 1)
            /\ cursors'[Len(cursors) + 1] = row
            /\ \A u \in 1..Len(cursors) : cursors'[u] = cursors[u]
        BY <3>1, <4>1 DEF Tokens
      <4>3. \A u \in Tokens : cursors[u] # row
        BY <3>1 DEF CursorTokens
      <4>. QED  BY <4>2, <4>3 DEF OneTokenPerPosition
    <3>. QED  BY <2>1, <2>2, <3>1 DEF MintCursor
  <2>. QED
    BY <2>1, <2>2 DEF Next, WriterStep, ReaderStep, BeginSend, Lookup, Insert,
       Raced, Readback, InsertFails, CrashWriter, BeginPoll, Denied, ReadRows,
       FindCursor, PollAgain, AbortWait, DeadlinePasses, RestartReader, store, vars
<1>. QED  BY <1>1, <1>2, TypeInit, TypeNext, PTL DEF Spec

=============================================================================
