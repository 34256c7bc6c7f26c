------------------------ MODULE AgentMessageStorage ------------------------
(* Retention and quota of the durable messages: the storage side of          *)
(* src/src/core/agent-message-storage.ts with the writers it races, the      *)
(* senders that are charged against the quota and the recipients that record *)
(* receipts and facts (src/src/core/agent-messaging.ts).                     *)
(*                                                                           *)
(* A message has one delivery, as sendAgentMessage inserts it, so a message  *)
(* stands for both. It also stands for its idempotency key: conflicting keys *)
(* are AgentMessaging's subject. Pruning runs in one immediate transaction:  *)
(* its row updates are steps of their own, it may fail between any two, and  *)
(* other writers wait for it.                                                *)
EXTENDS Integers, Sequences, FiniteSets, FiniteSetsExt

CONSTANTS
    Messages,        \* the messages the environment may send
    Bytes,           \* payload size of each message
    TombstoneBytes,  \* size of stableTombstone's JSON
    Quota,           \* MEMESH_AGENT_MESSAGE_STORAGE_QUOTA_BYTES
    Senders,         \* processes that send
    Recorders,       \* processes that record receipts and facts
    Tables,          \* the tables they record in
    Keys,            \* their idempotency keys
    States,          \* the dispositions and workflow states they record
    BatchSize,       \* --batch-size of a prune
    MaxTime,         \* bound: CURRENT_TIMESTAMP has a resolution of a second
    MaxFacts,        \* bound: recorded receipts and facts
    Nothing          \* no call under way

ASSUME BytesAssumption == Bytes \in [Messages -> Nat] /\ TombstoneBytes \in Nat
ASSUME LimitsAssumption ==
    /\ Tables \subseteq {"ack", "ackFact", "disposition", "workflow"}
    /\ Quota \in Nat /\ BatchSize \in Nat \ {0}
    /\ MaxTime \in Nat /\ MaxFacts \in Nat

Terminal == {"completed", "cancelled", "rejected"}
AckTables == {"ack", "ackFact"}
StateTables == {"disposition", "workflow"}
Requests ==
    [table : Tables \cap AckTables, message : Messages, key : Keys,
     value : {"acked"}]
    \cup [table : Tables \cap StateTables, message : Messages, key : Keys,
          value : States]
Rows ==
    [table : AckTables \cup StateTables, message : Messages, key : Keys,
     value : States \cup {"acked"}, at : 0..MaxTime]
SendCalls ==
    [step : {"idle", "inserting", "sent", "quota"},
     message : Messages \cup {Nothing}, stored : BOOLEAN]
RecordCalls ==
    [step : {"idle", "inserting", "recorded", "conflict"},
     request : Requests \cup {Nothing}]

VARIABLES
    now,       \* seconds
    payload,   \* agent_messages: "absent", "whole" or "tombstone"
    created,   \* when each message was stored
    accepted,  \* the messages with a row in agent_host_accepts
    facts,     \* agent_message_receipts, agent_ack_facts, agent_workflow_facts
    retained,  \* agent_retention_facts: how many each message has
    sending,   \* the call each sender is making
    recording, \* the call each recorder is making
    prune      \* the pruning transaction

vars == <<now, payload, created, accepted, facts, retained, sending,
          recording, prune>>

Stored == {m \in Messages : payload[m] # "absent"}
NoPrune == [open |-> FALSE, cutoff |-> 0, todo |-> {}, done |-> {}]

Init ==
    /\ now = 0
    /\ payload = [m \in Messages |-> "absent"]
    /\ created = [m \in Messages |-> 0]
    /\ accepted = {}
    /\ facts = <<>>
    /\ retained = [m \in Messages |-> 0]
    /\ sending = [s \in Senders |-> [step |-> "idle", message |-> Nothing,
                                     stored |-> FALSE]]
    /\ recording = [r \in Recorders |-> [step |-> "idle", request |-> Nothing]]
    /\ prune = NoPrune

-----------------------------------------------------------------------------
(* What the two storage queries see                                          *)

RowsFor(m, tables) ==
    {i \in DOMAIN facts : facts[i].message = m /\ facts[i].table \in tables}

(* acknowledged_deliveries                                                   *)
Acknowledged(m) == RowsFor(m, AckTables) # {}

(* Mutant: a ROW_NUMBER, which lets one of several simultaneous facts win   *)
LatestOne(m) ==
    LET all == RowsFor(m, StateTables)
    IN  {i \in all : \A j \in all :
            facts[j].at < facts[i].at \/ (facts[j].at = facts[i].at /\ i <= j)}

(* workflow_candidates whose time_rank, a DENSE_RANK, is 1                   *)
Latest(m) ==
    LET all == RowsFor(m, StateTables)
    IN  {i \in all : \A j \in all : facts[j].at <= facts[i].at}

(* latest_workflow.is_terminal = 1, and strictly before the cutoff           *)
IsTerminal(m) ==
    Latest(m) # {} /\ \A i \in Latest(m) : facts[i].value \in Terminal
OldTerminal(m, cutoff) ==
    IsTerminal(m) /\ \A i \in Latest(m) : facts[i].at < cutoff

(* readMessageStates: storage_state                                          *)
StorageState(m, cutoff) ==
    CASE payload[m] = "tombstone" -> "tombstoned"
      [] payload[m] = "whole" /\ Acknowledged(m) /\ IsTerminal(m)
           /\ OldTerminal(m, cutoff) -> "prunable"
      [] payload[m] = "whole" /\ Acknowledged(m) /\ IsTerminal(m)
           /\ ~OldTerminal(m, cutoff) -> "terminal_retained"
      [] OTHER -> "protected"

(* selectPrunableMessages before its LIMIT                                   *)
Prunable(cutoff) ==
    {m \in Messages : /\ payload[m] = "whole"
                      /\ Acknowledged(m)
                      /\ OldTerminal(m, cutoff)}

(* ORDER BY created_at, message_id LIMIT: the ids are random, so any order   *)
(* of the messages of one second                                             *)
Batches(cutoff) ==
    {b \in SUBSET Prunable(cutoff) :
        /\ Cardinality(b) <= BatchSize
        /\ Cardinality(b) = BatchSize \/ b = Prunable(cutoff)
        /\ \A m \in b : \A n \in Prunable(cutoff) \ b : created[m] <= created[n]}

(* SUM(length(payload_json))                                                 *)
SizeOf(m) == IF payload[m] = "tombstone" THEN TombstoneBytes ELSE Bytes[m]
UsedBytes == MapThenSumSet(SizeOf, Stored)

-----------------------------------------------------------------------------
Tick ==
    /\ now < MaxTime
    /\ now' = now + 1
    /\ UNCHANGED <<payload, created, accepted, facts, retained, sending,
                   recording, prune>>

(* SQLite has one writer at a time                                           *)
MayWrite == ~prune.open

(* The router records that a host took the message                           *)
HostAccepts(m) ==
    /\ MayWrite
    /\ m \in Stored \ accepted
    /\ accepted' = accepted \cup {m}
    /\ UNCHANGED <<now, payload, created, facts, retained, sending, recording,
                   prune>>

-----------------------------------------------------------------------------
(* sendAgentMessage: a lookup, then a transaction that checks the quota      *)

Fits(m) == UsedBytes + Bytes[m] <= Quota

(* Mutant: the quota is checked before the lookup                            *)
BeginSendCharged(s, m) ==
    /\ sending[s].step # "inserting"
    /\ sending' = [sending EXCEPT ![s] =
           [step |-> IF ~Fits(m) THEN "quota"
                     ELSE IF m \in Stored THEN "sent" ELSE "inserting",
            message |-> m, stored |-> m \in Stored]]
    /\ UNCHANGED <<now, payload, created, accepted, facts, retained, recording,
                   prune>>

(* `stored` is history: whether the message was stored before the call       *)
BeginSend(s, m) ==
    /\ sending[s].step # "inserting"
    /\ sending' = [sending EXCEPT ![s] =
           [step |-> IF m \in Stored THEN "sent" ELSE "inserting",
            message |-> m, stored |-> m \in Stored]]
    /\ UNCHANGED <<now, payload, created, accepted, facts, retained, recording,
                   prune>>

EndSend(s, answer) == sending' = [sending EXCEPT ![s].step = answer]

(* The transaction: enforceAgentMessageStorageQuota, then the four rows      *)
Insert(s) ==
    /\ sending[s].step = "inserting"
    /\ MayWrite
    /\ LET m == sending[s].message
       IN  /\ Fits(m) /\ m \notin Stored
           /\ payload' = [payload EXCEPT ![m] = "whole"]
           /\ created' = [created EXCEPT ![m] = now]
    /\ EndSend(s, "sent")
    /\ UNCHANGED <<now, accepted, facts, retained, recording, prune>>

(* It throws storage_quota_exceeded before any row is inserted               *)
OverQuota(s) ==
    /\ sending[s].step = "inserting"
    /\ MayWrite
    /\ ~Fits(sending[s].message)
    /\ EndSend(s, "quota")
    /\ UNCHANGED <<now, payload, created, accepted, facts, retained, recording,
                   prune>>

(* The idempotency row's UNIQUE constraint fails: another process stored the *)
(* message after this one looked it up                                       *)
Raced(s) ==
    /\ sending[s].step = "inserting"
    /\ MayWrite
    /\ Fits(sending[s].message) /\ sending[s].message \in Stored
    /\ EndSend(s, "sent")
    /\ UNCHANGED <<now, payload, created, accepted, facts, retained, recording,
                   prune>>

-----------------------------------------------------------------------------
(* recordAgentReceipt, recordAgentAckFact, recordAgentWorkflowFact           *)

SameKey(q) ==
    {i \in DOMAIN facts : /\ facts[i].table = q.table
                          /\ facts[i].message = q.message
                          /\ facts[i].key = q.key}

(* Mutant: the hashes are not compared                                       *)
AnswerAny(q) == "recorded"

(* checkedFact: the row's request hash against the caller's                  *)
AnswerTo(q) ==
    IF \E i \in SameKey(q) : facts[i].value = q.value THEN "recorded"
                                                      ELSE "conflict"

(* assertMessageAccess, assertDeliveryExists, the host_accept_id check       *)
Accessible(q) ==
    /\ q.message \in Stored
    /\ q.table = "ackFact" => q.message \in accepted

BeginRecord(r, q) ==
    /\ recording[r].step # "inserting"
    /\ Accessible(q)
    /\ recording' = [recording EXCEPT ![r] =
           [step |-> IF SameKey(q) = {} THEN "inserting" ELSE AnswerTo(q),
            request |-> q]]
    /\ UNCHANGED <<now, payload, created, accepted, facts, retained, sending,
                   prune>>

(* The INSERT; when the UNIQUE constraint fails, the raced row answers       *)
Record(r) ==
    /\ recording[r].step = "inserting"
    /\ MayWrite
    /\ LET q == recording[r].request
       IN  \/ /\ SameKey(q) = {}
              /\ Len(facts) < MaxFacts
              /\ facts' = Append(facts,
                     [table |-> q.table, message |-> q.message, key |-> q.key,
                      value |-> q.value, at |-> now])
              /\ recording' = [recording EXCEPT ![r].step = "recorded"]
           \/ /\ SameKey(q) # {}
              /\ facts' = facts
              /\ recording' = [recording EXCEPT ![r].step = AnswerTo(q)]
    /\ UNCHANGED <<now, payload, created, accepted, retained, sending, prune>>

-----------------------------------------------------------------------------
(* pruneTerminalAgentMessagePayloads with --apply. A dry run only evaluates  *)
(* Batches(cutoff).                                                          *)

(* BEGIN IMMEDIATE and the selection, with any cutoff the owner asks for     *)
PruneBegin(cutoff) ==
    /\ MayWrite
    /\ \E b \in Batches(cutoff) :
          /\ b # {}
          /\ prune' = [open |-> TRUE, cutoff |-> cutoff, todo |-> b, done |-> {}]
    /\ UNCHANGED <<now, payload, created, accepted, facts, retained, sending,
                   recording>>

(* Mutant: the payload is replaced outside the transaction                   *)
TombstoneAtOnce(m) ==
    /\ prune.open /\ m \in prune.todo
    /\ payload[m] = "whole" /\ retained[m] = 0
    /\ prune' = [prune EXCEPT !.todo = @ \ {m}, !.done = @ \cup {m}]
    /\ payload' = [payload EXCEPT ![m] = "tombstone"]
    /\ UNCHANGED <<now, created, accepted, facts, retained, sending, recording>>

(* The UPDATE of one row and its retention fact, seen by this transaction    *)
Tombstone(m) ==
    /\ prune.open /\ m \in prune.todo
    /\ payload[m] = "whole" /\ retained[m] = 0
    /\ prune' = [prune EXCEPT !.todo = @ \ {m}, !.done = @ \cup {m}]
    /\ UNCHANGED <<now, payload, created, accepted, facts, retained, sending,
                   recording>>

PruneCommit ==
    /\ prune.open /\ prune.todo = {}
    /\ payload' = [m \in Messages |->
           IF m \in prune.done THEN "tombstone" ELSE payload[m]]
    /\ retained' = [m \in Messages |->
           IF m \in prune.done THEN retained[m] + 1 ELSE retained[m]]
    /\ prune' = NoPrune
    /\ UNCHANGED <<now, created, accepted, facts, sending, recording>>

(* An error, retention_concurrent_change or the end of the process rolls     *)
(* the whole batch back                                                      *)
PruneRollback ==
    /\ prune.open
    /\ prune' = NoPrune
    /\ UNCHANGED <<now, payload, created, accepted, facts, retained, sending,
                   recording>>

(* A sending or a recording process ends in the middle of its call           *)
Crash ==
    /\ \/ \E s \in Senders : sending[s].step = "inserting"
              /\ EndSend(s, "idle") /\ UNCHANGED recording
       \/ \E r \in Recorders : recording[r].step = "inserting"
              /\ recording' = [recording EXCEPT ![r].step = "idle"]
              /\ UNCHANGED sending
    /\ UNCHANGED <<now, payload, created, accepted, facts, retained, prune>>

Next ==
    \/ Tick
    \/ \E m \in Messages : HostAccepts(m) \/ Tombstone(m)
    \/ \E s \in Senders :
          (\E m \in Messages : BeginSend(s, m))
          \/ Insert(s) \/ OverQuota(s) \/ Raced(s)
    \/ \E r \in Recorders : (\E q \in Requests : BeginRecord(r, q)) \/ Record(r)
    \/ \E cutoff \in 0..(MaxTime + 1) : PruneBegin(cutoff)
    \/ PruneCommit \/ PruneRollback
    \/ Crash

Spec == Init /\ [][Next]_vars

-----------------------------------------------------------------------------
(* The rows are of their tables' shapes.                                     *)
TypeOK ==
    /\ now \in 0..MaxTime
    /\ payload \in [Messages -> {"absent", "whole", "tombstone"}]
    /\ created \in [Messages -> 0..MaxTime]
    /\ accepted \subseteq Stored
    /\ facts \in Seq(Rows)
    /\ retained \in [Messages -> Nat]
    /\ sending \in [Senders -> SendCalls]
    /\ recording \in [Recorders -> RecordCalls]
    /\ prune \in [open : BOOLEAN, cutoff : Nat,
                  todo : SUBSET Messages, done : SUBSET Messages]

Whole == {m \in Messages : payload[m] = "whole"}
Tombstoned == {m \in Messages : payload[m] = "tombstone"}

(* A payload is erased only when its delivery was acknowledged, the last     *)
(* state anyone recorded for it is terminal, and every state recorded for it *)
(* is from before the cutoff the owner gave: whatever a recipient records    *)
(* while the batch runs, and although facts of one second do not order.      *)
OnlySettledIsErased ==
    [][\A m \in Tombstoned' \ Tombstoned :
          LET states == RowsFor(m, StateTables)
          IN  /\ Acknowledged(m)
              /\ facts' = facts
              /\ states # {}
              /\ \A i \in states :
                    (\A j \in states : j <= i) => facts[i].value \in Terminal
              /\ \A i \in states : facts[i].at < prune.cutoff]_vars

(* Every erased payload has its one retention audit fact and no other has    *)
(* one, however a batch fails or is cut short.                               *)
ErasuresAreAudited ==
    \A m \in Messages : retained[m] = IF m \in Tombstoned THEN 1 ELSE 0

(* The report's classification and the prune selection are two queries; the  *)
(* report calls prunable just the messages a prune may take.                 *)
ReportAgreesWithPrune ==
    \A cutoff \in 0..(MaxTime + 1) :
        Prunable(cutoff) =
            {m \in Stored : StorageState(m, cutoff) = "prunable"}

(* A retry that begins after its message was stored is never refused for     *)
(* want of space, not even when the payload has been erased since.           *)
RetryIsNeverCharged ==
    \A s \in Senders : sending[s].stored => sending[s].step = "sent"

(* A recorder that was told "recorded" finds its row, and one that was told  *)
(* of a conflict finds another; no key ever has two rows.                    *)
RecordersAreToldTheTruth ==
    \A r \in Recorders :
        LET q == recording[r].request
        IN  /\ recording[r].step = "recorded" =>
                  \E i \in SameKey(q) : facts[i].value = q.value
            /\ recording[r].step = "conflict" =>
                  \E i \in SameKey(q) : facts[i].value # q.value
            /\ q # Nothing => \A i, j \in SameKey(q) : i = j
=============================================================================
