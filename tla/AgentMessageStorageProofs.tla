--------------------- MODULE AgentMessageStorageProofs ---------------------
(* What AgentMessageStorage promises for every set of messages, processes,   *)
(* payload sizes, quota and batch size. The quota itself is a sum over a set *)
(* and stays with TLC.                                                       *)
EXTENDS AgentMessageStorage, TLAPS

(* A call that is about to write knows what to write                         *)
CallsUnderWay ==
    \A s \in Senders : sending[s].step = "inserting" =>
        sending[s].message \in Messages

(* created_at never decreases along the order of insertion                   *)
InTimeOrder ==
    /\ \A i \in DOMAIN facts : facts[i].at <= now
    /\ \A i, j \in DOMAIN facts : i <= j => facts[i].at <= facts[j].at

UniqueKeys ==
    \A i, j \in DOMAIN facts :
        /\ facts[i].table = facts[j].table
        /\ facts[i].message = facts[j].message
        /\ facts[i].key = facts[j].key
        => i = j

Answered ==
    \A r \in Recorders :
        LET q == recording[r].request
        IN  /\ recording[r].step # "idle" => q \in Requests
            /\ recording[r].step = "recorded" =>
                  \E i \in SameKey(q) : facts[i].value = q.value
            /\ recording[r].step = "conflict" =>
                  \E i \in SameKey(q) : facts[i].value # q.value

(* The batch of an open transaction is what its selection saw: nobody else   *)
(* has written since                                                         *)
BatchStands ==
    /\ prune.open => prune.todo \cup prune.done \subseteq Prunable(prune.cutoff)
    /\ ~prune.open => prune.done = {}

IInv ==
    /\ TypeOK
    /\ CallsUnderWay
    /\ InTimeOrder
    /\ UniqueKeys
    /\ Answered
    /\ BatchStands
    /\ ErasuresAreAudited
    /\ RetryIsNeverCharged

-----------------------------------------------------------------------------
(* The two queries of the report and of the prune classify alike, in every   *)
(* state and not only in the reachable ones.                                 *)
THEOREM QueriesAgree == TypeOK => ReportAgreesWithPrune
<1>1. SUFFICES ASSUME TypeOK, NEW cutoff \in 0..(MaxTime + 1)
               PROVE  Prunable(cutoff) =
                        {m \in Stored : StorageState(m, cutoff) = "prunable"}
      BY DEF ReportAgreesWithPrune
<1>2. \A m \in Messages : OldTerminal(m, cutoff) => IsTerminal(m)
      BY DEF OldTerminal
<1>3. ASSUME NEW m \in Messages
      PROVE  (payload[m] = "whole" /\ Acknowledged(m) /\ OldTerminal(m, cutoff))
               <=> (m \in Stored /\ StorageState(m, cutoff) = "prunable")
  <2>1. payload[m] \in {"absent", "whole", "tombstone"}
        BY <1>1, <1>3 DEF TypeOK
  <2>2. m \in Stored <=> payload[m] # "absent"
        BY <1>3 DEF Stored
  <2>3. CASE payload[m] = "whole" /\ Acknowledged(m) /\ OldTerminal(m, cutoff)
        BY <1>2, <1>3, <2>2, <2>3 DEF StorageState
  <2>4. CASE payload[m] = "tombstone"
        BY <2>4 DEF StorageState
  <2>5. CASE payload[m] = "absent"
        BY <2>2, <2>5
  <2>6. CASE payload[m] = "whole" /\ ~(Acknowledged(m) /\ OldTerminal(m, cutoff))
        BY <1>2, <1>3, <2>6 DEF StorageState
  <2> QED
        BY <2>1, <2>3, <2>4, <2>5, <2>6
<1> QED
      BY <1>3 DEF Prunable, Stored

LEMMA RowsTyped == TypeOK => \A i \in DOMAIN facts : facts[i] \in Rows
BY DEF TypeOK

LEMMA InitHolds == Init => IInv
<1> SUFFICES ASSUME Init PROVE IInv
    OBVIOUS
<1>1. TypeOK
      BY LimitsAssumption DEF Init, TypeOK, Stored, NoPrune,
          SendCalls, RecordCalls
<1>2. CallsUnderWay /\ Answered
      BY DEF Init, CallsUnderWay, Answered
<1>3. InTimeOrder /\ UniqueKeys
      BY DEF Init, InTimeOrder, UniqueKeys
<1>4. BatchStands
      BY DEF Init, BatchStands, NoPrune
<1>5. ErasuresAreAudited
      BY DEF Init, ErasuresAreAudited, Tombstoned
<1>6. RetryIsNeverCharged
      BY DEF Init, RetryIsNeverCharged
<1> QED
    BY <1>1, <1>2, <1>3, <1>4, <1>5, <1>6 DEF IInv

-----------------------------------------------------------------------------
(* What a transaction selected stays selectable as long as the rows stand    *)
LEMMA SelectionStands ==
    ASSUME UNCHANGED <<payload, facts>>, NEW c
    PROVE  Prunable(c)' = Prunable(c')
    BY DEF Prunable, Acknowledged, OldTerminal, IsTerminal, Latest, RowsFor

(* A writer outside the transaction finds no batch open                      *)
LEMMA ClosedBatchStands ==
    ASSUME BatchStands, MayWrite, UNCHANGED prune
    PROVE  BatchStands'
    BY DEF BatchStands, MayWrite

LEMMA UntouchedBatchStands ==
    ASSUME BatchStands, UNCHANGED <<payload, facts, prune>>
    PROVE  BatchStands'
    BY SelectionStands DEF BatchStands

(* The fact tables and the answers of the recorders, when no row is added    *)
LEMMA FactsUntouched ==
    ASSUME InTimeOrder, UniqueKeys, UNCHANGED <<now, facts>>
    PROVE  InTimeOrder' /\ UniqueKeys'
    BY DEF InTimeOrder, UniqueKeys

LEMMA AnswersStand ==
    ASSUME Answered, UNCHANGED <<facts, recording>>
    PROVE  Answered'
    BY DEF Answered, SameKey

LEMMA ErasuresUntouched ==
    ASSUME ErasuresAreAudited, UNCHANGED <<payload, retained>>
    PROVE  ErasuresAreAudited'
    BY DEF ErasuresAreAudited, Tombstoned

LEMMA SendersUntouched ==
    ASSUME CallsUnderWay, RetryIsNeverCharged, UNCHANGED sending
    PROVE  CallsUnderWay' /\ RetryIsNeverCharged'
    BY DEF CallsUnderWay, RetryIsNeverCharged

-----------------------------------------------------------------------------
(* One lemma per action                                                      *)
LEMMA TickHolds == IInv /\ Tick => IInv'
<1> SUFFICES ASSUME IInv, Tick PROVE IInv'
    OBVIOUS
<1> USE DEF IInv
<1>1. TypeOK'
      BY LimitsAssumption DEF TypeOK, Tick, Stored
<1>2. InTimeOrder' /\ UniqueKeys'
  <2>1. \A i \in DOMAIN facts : facts[i].at \in 0..MaxTime
        BY RowsTyped DEF Rows
  <2>2. now \in Int /\ now' = now + 1 /\ facts' = facts
        BY LimitsAssumption DEF TypeOK, Tick
  <2>3. \A i \in DOMAIN facts : facts[i].at \in Int
        BY <2>1, LimitsAssumption
  <2>4. \A i \in DOMAIN facts' : facts'[i].at <= now'
        BY <2>2, <2>3 DEF InTimeOrder
  <2> QED
        BY <2>2, <2>4 DEF InTimeOrder, UniqueKeys
<1> QED
    BY <1>1, <1>2, UntouchedBatchStands, AnswersStand, ErasuresUntouched,
       SendersUntouched DEF Tick

LEMMA HostAcceptsHolds ==
    ASSUME NEW m \in Messages PROVE IInv /\ HostAccepts(m) => IInv'
<1> SUFFICES ASSUME IInv, HostAccepts(m) PROVE IInv'
    OBVIOUS
<1> USE DEF IInv
<1>1. TypeOK'
      BY DEF TypeOK, HostAccepts, Stored
<1> QED
    BY <1>1, ClosedBatchStands, FactsUntouched, AnswersStand, ErasuresUntouched,
       SendersUntouched DEF HostAccepts

LEMMA BeginSendHolds ==
    ASSUME NEW s \in Senders, NEW m \in Messages
    PROVE  IInv /\ BeginSend(s, m) => IInv'
<1> SUFFICES ASSUME IInv, BeginSend(s, m) PROVE IInv'
    OBVIOUS
<1> USE DEF IInv
<1>1. TypeOK'
      BY DEF TypeOK, BeginSend, Stored, SendCalls
<1>2. CallsUnderWay'
      BY DEF TypeOK, CallsUnderWay, BeginSend, SendCalls
<1>3. RetryIsNeverCharged'
      BY DEF TypeOK, RetryIsNeverCharged, BeginSend
<1> QED
    BY <1>1, <1>2, <1>3, UntouchedBatchStands, FactsUntouched, AnswersStand,
       ErasuresUntouched DEF BeginSend

(* The answer to a call that was about to write                              *)
LEMMA EndSendHolds ==
    ASSUME NEW s \in Senders, NEW a \in {"idle", "sent", "quota"},
           sending \in [Senders -> SendCalls], CallsUnderWay,
           RetryIsNeverCharged, sending[s].step = "inserting", EndSend(s, a)
    PROVE  /\ sending' \in [Senders -> SendCalls]
           /\ CallsUnderWay' /\ RetryIsNeverCharged'
<1>1. /\ sending' = [sending EXCEPT ![s] = sending'[s]]
      /\ sending'[s] = [step |-> a, message |-> sending[s].message,
                        stored |-> sending[s].stored]
      BY DEF EndSend, SendCalls
<1>2. sending' \in [Senders -> SendCalls]
      BY <1>1 DEF SendCalls
<1>3. sending[s].stored = FALSE
      BY DEF RetryIsNeverCharged, SendCalls
<1>4. \A t \in Senders : t # s => sending'[t] = sending[t]
      BY <1>1
<1> QED
    BY <1>1, <1>2, <1>3, <1>4 DEF CallsUnderWay, RetryIsNeverCharged

LEMMA InsertHolds == ASSUME NEW s \in Senders PROVE IInv /\ Insert(s) => IInv'
<1> SUFFICES ASSUME IInv, Insert(s) PROVE IInv'
    OBVIOUS
<1> USE DEF IInv
<1> DEFINE m == sending[s].message
<1>1. /\ m \in Messages /\ m \notin Stored
      /\ payload' = [payload EXCEPT ![m] = "whole"]
      /\ Stored' = Stored \cup {m}
      BY DEF CallsUnderWay, Insert, TypeOK, Stored
<1>2. /\ sending' \in [Senders -> SendCalls]
      /\ CallsUnderWay' /\ RetryIsNeverCharged'
      BY EndSendHolds DEF Insert, TypeOK
<1>3. TypeOK'
      BY <1>1, <1>2 DEF TypeOK, Insert
<1>5. ErasuresAreAudited'
      BY <1>1 DEF TypeOK, ErasuresAreAudited, Tombstoned, Stored, Insert
<1> QED
    BY <1>2, <1>3, <1>5, ClosedBatchStands, FactsUntouched, AnswersStand
    DEF Insert

LEMMA SendEndsHolds ==
    ASSUME NEW s \in Senders
    PROVE  IInv /\ (OverQuota(s) \/ Raced(s)) => IInv'
<1> SUFFICES ASSUME IInv, OverQuota(s) \/ Raced(s) PROVE IInv'
    OBVIOUS
<1> USE DEF IInv
<1>1. /\ sending' \in [Senders -> SendCalls]
      /\ CallsUnderWay' /\ RetryIsNeverCharged'
      BY EndSendHolds DEF OverQuota, Raced, TypeOK
<1>2. TypeOK'
      BY <1>1 DEF TypeOK, OverQuota, Raced, Stored
<1> QED
    BY <1>1, <1>2, UntouchedBatchStands, FactsUntouched, AnswersStand,
       ErasuresUntouched DEF OverQuota, Raced

LEMMA BeginRecordHolds ==
    ASSUME NEW r \in Recorders, NEW q \in Requests
    PROVE  IInv /\ BeginRecord(r, q) => IInv'
<1> SUFFICES ASSUME IInv, BeginRecord(r, q) PROVE IInv'
    OBVIOUS
<1> USE DEF IInv
<1>1. TypeOK'
      BY DEF TypeOK, BeginRecord, Stored, AnswerTo, RecordCalls
<1>2. Answered'
      BY DEF TypeOK, Answered, BeginRecord, AnswerTo, SameKey
<1> QED
    BY <1>1, <1>2, UntouchedBatchStands, FactsUntouched, ErasuresUntouched,
       SendersUntouched DEF BeginRecord

(* A row is added under a key that has none                                  *)
LEMMA AppendHolds ==
    ASSUME IInv, NEW q \in Requests, SameKey(q) = {}, UNCHANGED now,
           facts' = Append(facts, [table |-> q.table, message |-> q.message,
                       key |-> q.key, value |-> q.value, at |-> now])
    PROVE  /\ facts' \in Seq(Rows) /\ InTimeOrder' /\ UniqueKeys'
           /\ \A p : \A i \in SameKey(p) :
                 i \in SameKey(p)' /\ facts'[i] = facts[i]
           /\ \E i \in SameKey(q)' : facts'[i].value = q.value
<1> DEFINE row == [table |-> q.table, message |-> q.message, key |-> q.key,
                   value |-> q.value, at |-> now]
           n == Len(facts) + 1
<1>1. facts \in Seq(Rows) /\ now \in 0..MaxTime
      BY DEF IInv, TypeOK
<1>2. row \in Rows
      BY <1>1 DEF Requests, Rows
<1>3. /\ facts' \in Seq(Rows)
      /\ DOMAIN facts' = DOMAIN facts \cup {n} /\ n \notin DOMAIN facts
      /\ facts'[n] = row
      /\ \A i \in DOMAIN facts : facts'[i] = facts[i] /\ i <= n /\ ~(n <= i)
      BY <1>1, <1>2
<1> HIDE DEF row, n
<1>4. /\ row.table = q.table /\ row.message = q.message /\ row.key = q.key
      /\ row.value = q.value /\ row.at = now
      BY DEF row
<1>5. now <= now
      BY <1>1, LimitsAssumption
<1>6. InTimeOrder'
      BY <1>3, <1>4, <1>5 DEF IInv, InTimeOrder
<1>7. \A i \in DOMAIN facts : ~(/\ facts[i].table = q.table
                                /\ facts[i].message = q.message
                                /\ facts[i].key = q.key)
      BY DEF SameKey
<1>8. UniqueKeys'
      BY <1>3, <1>4, <1>7 DEF IInv, UniqueKeys
<1> QED
    BY <1>3, <1>4, <1>6, <1>8 DEF SameKey

LEMMA RecordHolds ==
    ASSUME NEW r \in Recorders PROVE IInv /\ Record(r) => IInv'
<1> SUFFICES ASSUME IInv, Record(r) PROVE IInv'
    OBVIOUS
<1> USE DEF IInv
<1>0. recording[r].request \in Requests
      BY DEF Answered, Record
<1> PICK q \in Requests : q = recording[r].request
    BY <1>0
<1>1. recording \in [Recorders -> RecordCalls]
      BY DEF TypeOK
<1>2. \E a \in {"recorded", "conflict"} :
         recording' = [recording EXCEPT ![r].step = a]
      BY DEF Record, AnswerTo
<1>3. /\ recording' \in [Recorders -> RecordCalls]
      /\ recording'[r].request = q
      /\ \A t \in Recorders : t # r => recording'[t] = recording[t]
      BY <1>1, <1>2 DEF RecordCalls
<1>4. /\ facts' \in Seq(Rows) /\ InTimeOrder' /\ UniqueKeys'
      /\ \A p : \A i \in SameKey(p) : i \in SameKey(p)' /\ facts'[i] = facts[i]
      /\ recording'[r].step = "recorded" =>
            \E i \in SameKey(q)' : facts'[i].value = q.value
      /\ recording'[r].step = "conflict" =>
            \E i \in SameKey(q)' : facts'[i].value # q.value
  <2>1. CASE SameKey(q) = {} /\ Len(facts) < MaxFacts
    <3>1. /\ facts' = Append(facts, [table |-> q.table, message |-> q.message,
                        key |-> q.key, value |-> q.value, at |-> now])
          /\ recording' = [recording EXCEPT ![r].step = "recorded"]
          /\ UNCHANGED now
          BY <2>1 DEF Record
    <3>2. recording'[r].step = "recorded"
          BY <1>1, <3>1 DEF RecordCalls
    <3>3. /\ facts' \in Seq(Rows) /\ InTimeOrder' /\ UniqueKeys'
          /\ \A p : \A i \in SameKey(p) :
                i \in SameKey(p)' /\ facts'[i] = facts[i]
          /\ \E i \in SameKey(q)' : facts'[i].value = q.value
          BY <1>1, <2>1, <3>1, AppendHolds
    <3> QED
        BY <3>2, <3>3
  <2>2. CASE SameKey(q) # {}
    <3>1. /\ facts' = facts /\ UNCHANGED now
          /\ recording' = [recording EXCEPT ![r].step = AnswerTo(q)]
          BY <2>2 DEF Record
    <3>2. recording'[r].step = AnswerTo(q)
          BY <1>1, <3>1 DEF RecordCalls
    <3>3. \A p : SameKey(p)' = SameKey(p)
          BY <3>1 DEF SameKey
    <3>4. facts' \in Seq(Rows) /\ InTimeOrder' /\ UniqueKeys'
          BY <3>1, FactsUntouched DEF TypeOK
    <3>5. CASE \E i \in SameKey(q) : facts[i].value = q.value
          BY <3>1, <3>2, <3>3, <3>4, <3>5 DEF AnswerTo
    <3>6. CASE ~ \E i \in SameKey(q) : facts[i].value = q.value
          BY <2>2, <3>1, <3>2, <3>3, <3>4, <3>6 DEF AnswerTo
    <3> QED
        BY <3>5, <3>6
  <2> QED
      BY <2>1, <2>2 DEF Record
<1>5. TypeOK'
      BY <1>3, <1>4 DEF TypeOK, Record, Stored
<1>6. Answered'
      BY <1>1, <1>3, <1>4 DEF Answered
<1> QED
    BY <1>4, <1>5, <1>6, ClosedBatchStands, ErasuresUntouched, SendersUntouched
    DEF Record

LEMMA PruneBeginHolds ==
    ASSUME NEW cutoff \in 0..(MaxTime + 1)
    PROVE  IInv /\ PruneBegin(cutoff) => IInv'
<1> SUFFICES ASSUME IInv, PruneBegin(cutoff) PROVE IInv'
    OBVIOUS
<1> USE DEF IInv
<1>1. PICK b \in Batches(cutoff) :
         prune' = [open |-> TRUE, cutoff |-> cutoff, todo |-> b, done |-> {}]
      BY DEF PruneBegin
<1>2. b \subseteq Prunable(cutoff) /\ b \subseteq Messages
      BY DEF Batches, Prunable
<1>3. TypeOK'
      BY <1>1, <1>2, LimitsAssumption DEF TypeOK, PruneBegin, Stored
<1>4. BatchStands'
  <2>1. prune'.open /\ prune'.cutoff = cutoff
        /\ prune'.todo = b /\ prune'.done = {}
        BY <1>1
  <2>2. Prunable(cutoff)' = Prunable(cutoff)
        BY SelectionStands DEF PruneBegin
  <2> QED
      BY <1>2, <2>1, <2>2, SelectionStands DEF BatchStands, PruneBegin
<1> QED
    BY <1>3, <1>4, FactsUntouched, AnswersStand, ErasuresUntouched,
       SendersUntouched DEF PruneBegin

LEMMA TombstoneHolds ==
    ASSUME NEW m \in Messages PROVE IInv /\ Tombstone(m) => IInv'
<1> SUFFICES ASSUME IInv, Tombstone(m) PROVE IInv'
    OBVIOUS
<1> USE DEF IInv
<1>1. /\ prune'.open /\ prune.open /\ prune'.cutoff = prune.cutoff
      /\ prune'.todo = prune.todo \ {m} /\ prune'.done = prune.done \cup {m}
      /\ m \in prune.todo
      BY DEF TypeOK, Tombstone
<1>2. TypeOK'
      BY DEF TypeOK, Tombstone, Stored
<1>3. BatchStands'
      BY <1>1, SelectionStands DEF BatchStands, Tombstone
<1> QED
    BY <1>2, <1>3, FactsUntouched, AnswersStand, ErasuresUntouched,
       SendersUntouched DEF Tombstone

LEMMA PruneCommitHolds == IInv /\ PruneCommit => IInv'
<1> SUFFICES ASSUME IInv, PruneCommit PROVE IInv'
    OBVIOUS
<1> USE DEF IInv
<1>1. \A m \in prune.done : m \in Messages /\ payload[m] = "whole"
      BY DEF BatchStands, Prunable, PruneCommit
<1>2. Stored' = Stored
      BY <1>1 DEF PruneCommit, Stored
<1>3. TypeOK'
      BY <1>2 DEF TypeOK, PruneCommit, NoPrune
<1>4. BatchStands'
      BY DEF BatchStands, PruneCommit, NoPrune
<1>5. ErasuresAreAudited'
      BY <1>1 DEF TypeOK, ErasuresAreAudited, Tombstoned, PruneCommit
<1> QED
    BY <1>3, <1>4, <1>5, FactsUntouched, AnswersStand, SendersUntouched
    DEF PruneCommit

LEMMA PruneRollbackHolds == IInv /\ PruneRollback => IInv'
<1> SUFFICES ASSUME IInv, PruneRollback PROVE IInv'
    OBVIOUS
<1> USE DEF IInv
<1>1. TypeOK'
      BY DEF TypeOK, PruneRollback, NoPrune, Stored
<1>2. BatchStands'
      BY DEF BatchStands, PruneRollback, NoPrune
<1> QED
    BY <1>1, <1>2, FactsUntouched, AnswersStand, ErasuresUntouched,
       SendersUntouched DEF PruneRollback

LEMMA CrashHolds == IInv /\ Crash => IInv'
<1> SUFFICES ASSUME IInv, Crash PROVE IInv'
    OBVIOUS
<1> USE DEF IInv
<1>1. CASE \E s \in Senders : /\ sending[s].step = "inserting"
                              /\ EndSend(s, "idle") /\ UNCHANGED recording
  <2>1. /\ sending' \in [Senders -> SendCalls]
        /\ CallsUnderWay' /\ RetryIsNeverCharged'
        BY <1>1, EndSendHolds DEF TypeOK
  <2>2. TypeOK'
        BY <1>1, <2>1 DEF TypeOK, Crash, Stored
  <2> QED
      BY <1>1, <2>1, <2>2, UntouchedBatchStands, FactsUntouched, AnswersStand,
         ErasuresUntouched DEF Crash
<1>2. CASE \E r \in Recorders :
              /\ recording[r].step = "inserting"
              /\ recording' = [recording EXCEPT ![r].step = "idle"]
              /\ UNCHANGED sending
  <2>1. PICK r \in Recorders :
              /\ recording[r].step = "inserting"
              /\ recording' = [recording EXCEPT ![r].step = "idle"]
              /\ UNCHANGED sending
        BY <1>2
  <2>2. /\ recording' \in [Recorders -> RecordCalls]
        /\ recording'[r].step = "idle"
        /\ \A t \in Recorders : t # r => recording'[t] = recording[t]
        BY <2>1 DEF TypeOK, RecordCalls
  <2>3. TypeOK'
        BY <2>1, <2>2 DEF TypeOK, Crash, Stored
  <2>4. Answered'
        BY <2>2 DEF Answered, SameKey, Crash
  <2> QED
      BY <2>1, <2>3, <2>4, UntouchedBatchStands, FactsUntouched,
         ErasuresUntouched, SendersUntouched DEF Crash
<1> QED
    BY <1>1, <1>2 DEF Crash

LEMMA StutterHolds == IInv /\ UNCHANGED vars => IInv'
<1> SUFFICES ASSUME IInv, UNCHANGED vars PROVE IInv'
    OBVIOUS
<1> USE DEF IInv, vars
<1>1. TypeOK'
      BY DEF TypeOK, Stored
<1> QED
    BY <1>1, UntouchedBatchStands, FactsUntouched, AnswersStand,
       ErasuresUntouched, SendersUntouched

(* The inductive invariant of the storage                                    *)
THEOREM StorageInvariant == Spec => []IInv
<1>1. ASSUME IInv, [Next]_vars PROVE IInv'
      BY <1>1, TickHolds, HostAcceptsHolds, BeginSendHolds, InsertHolds,
         SendEndsHolds, BeginRecordHolds, RecordHolds, PruneBeginHolds,
         TombstoneHolds, PruneCommitHolds, PruneRollbackHolds, CrashHolds,
         StutterHolds DEF Next
<1> QED
    BY <1>1, InitHolds, PTL DEF Spec

(* TypeOK holds of every reachable state.                                    *)
THEOREM TypeCorrect == Spec => []TypeOK
BY StorageInvariant, PTL DEF IInv

(* An erased payload has its one audit fact, and no message has one that was *)
(* not erased: batches commit as a whole or not at all.                      *)
THEOREM ErasuresAudited == Spec => []ErasuresAreAudited
BY StorageInvariant, PTL DEF IInv

(* An exact retry that begins after the message was stored never fails for   *)
(* want of space.                                                            *)
THEOREM RetriesAreFree == Spec => []RetryIsNeverCharged
BY StorageInvariant, PTL DEF IInv

(* The report's prunable messages are those a prune may take.                *)
THEOREM ReportAndPruneAgree == Spec => []ReportAgreesWithPrune
<1>1. IInv => ReportAgreesWithPrune
      BY QueriesAgree DEF IInv
<1> QED
    BY <1>1, StorageInvariant, PTL

(* Recorders of receipts and facts are told what the tables say, and a key   *)
(* has one row, whoever raced whom.                                          *)
THEOREM RecordersTold == Spec => []RecordersAreToldTheTruth
<1>1. IInv => RecordersAreToldTheTruth
  <2> SUFFICES ASSUME IInv PROVE RecordersAreToldTheTruth
      OBVIOUS
  <2>1. \A q : \A i, j \in SameKey(q) : i = j
        BY DEF IInv, UniqueKeys, SameKey
  <2> QED
      BY <2>1 DEF IInv, Answered, RecordersAreToldTheTruth
<1> QED
    BY <1>1, StorageInvariant, PTL

(* The rows a selection calls old and terminal are settled in the plain      *)
(* sense: nobody recorded anything later, or as late, that says otherwise    *)
LEMMA OldTerminalIsSettled ==
    ASSUME IInv, NEW m \in Messages, NEW cutoff \in Nat, OldTerminal(m, cutoff)
    PROVE  LET states == RowsFor(m, StateTables)
           IN  /\ states # {}
               /\ \A i \in states :
                     (\A j \in states : j <= i) => facts[i].value \in Terminal
               /\ \A i \in states : facts[i].at < cutoff
<1> DEFINE states == RowsFor(m, StateTables)
<1>1. states \subseteq DOMAIN facts
      BY DEF RowsFor
<1>2. \A i \in states : facts[i].at \in Int
      BY <1>1, RowsTyped, LimitsAssumption DEF IInv, Rows
<1>3. PICK l \in Latest(m) : facts[l].at < cutoff
      BY DEF OldTerminal, IsTerminal
<1>4. l \in states /\ \A i \in states : facts[i].at <= facts[l].at
      BY DEF Latest
<1>5. \A i \in states : facts[i].at < cutoff
  <2> SUFFICES ASSUME NEW i \in states PROVE facts[i].at < cutoff
      OBVIOUS
  <2> QED
      BY <1>2, <1>3, <1>4
<1>6. ASSUME NEW i \in states, \A j \in states : j <= i
      PROVE  facts[i].value \in Terminal
  <2>1. \A j \in states : facts[j].at <= facts[i].at
        BY <1>1, <1>6 DEF IInv, InTimeOrder
  <2> QED
      BY <2>1 DEF OldTerminal, IsTerminal, Latest
<1> QED
    BY <1>4, <1>5, <1>6

(* A payload is erased only after its delivery was acknowledged and settled, *)
(* whatever raced with the prune.                                            *)
THEOREM OnlySettledErased == Spec => OnlySettledIsErased
<1> DEFINE Settled(m) ==
        LET states == RowsFor(m, StateTables)
        IN  /\ Acknowledged(m)
            /\ facts' = facts
            /\ states # {}
            /\ \A i \in states :
                  (\A j \in states : j <= i) => facts[i].value \in Terminal
            /\ \A i \in states : facts[i].at < prune.cutoff
        Erased == \A m \in Tombstoned' \ Tombstoned : Settled(m)
<1>1. ASSUME IInv, PruneCommit PROVE Erased
  <2> SUFFICES ASSUME NEW m \in Tombstoned' \ Tombstoned PROVE Settled(m)
      OBVIOUS
  <2>1. m \in prune.done /\ m \in Messages
        BY <1>1 DEF Tombstoned, PruneCommit, IInv, TypeOK
  <2>2. m \in Prunable(prune.cutoff)
        BY <1>1, <2>1 DEF IInv, BatchStands, PruneCommit
  <2>3. Acknowledged(m) /\ OldTerminal(m, prune.cutoff)
        BY <2>2 DEF Prunable
  <2>4. prune.cutoff \in Nat /\ facts' = facts
        BY <1>1 DEF IInv, TypeOK, PruneCommit
  <2> QED
      BY <1>1, <2>1, <2>3, <2>4, OldTerminalIsSettled
<1>2. ASSUME IInv, NEW s \in Senders, Insert(s) PROVE Tombstoned' \subseteq Tombstoned
      BY <1>2 DEF IInv, TypeOK, Insert, Tombstoned
<1>3. ASSUME UNCHANGED payload PROVE Tombstoned' \subseteq Tombstoned
      BY <1>3 DEF Tombstoned
<1>4. ASSUME IInv, Next PROVE PruneCommit \/ Tombstoned' \subseteq Tombstoned
      BY <1>2, <1>3, <1>4 DEF Next, Tick, HostAccepts, Tombstone, BeginSend,
         OverQuota, Raced, BeginRecord, Record, PruneBegin, PruneRollback, Crash
<1>5. ASSUME IInv, [Next]_vars PROVE [Erased]_vars
      BY <1>1, <1>4, <1>5
<1> QED
    BY <1>5, StorageInvariant, PTL DEF Spec, OnlySettledIsErased

=============================================================================
