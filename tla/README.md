# MeMesh in TLA+

MeMesh (`claude-code-buddy`) is a local-first memory for coding agents: one
SQLite file, `~/.memesh/knowledge-graph.db`, that any number of short-lived and
long-lived processes open at once, and a messaging system between agents on
the same machine that is built on that file. This directory holds TLA+ models
of the parts in which processes race, fail and restart, the configurations that
model-check them with TLC, and theorems about them that TLAPS checks.

Paths below are those of the repository; `PROJECT.json` repeats them under
`src/` and maps every definition that models code to its lines.

Contents: [the system](#the-system) · [the models](#the-models) ·
[the runs](#the-runs) · [fairness](#fairness) · [the proofs](#the-proofs) ·
[where the code and its documents differ](#where-the-code-and-its-documents-differ) ·
[abstractions](#abstractions) ·
[not modelled](#not-modelled) · [the plan](#the-plan) ·
[running it](#running-it)

## The system

### Components

| component | state | operations | modelled |
|---|---|---|---|
| Message store (`core/agent-messaging.ts`) | messages, deliveries, events, idempotency rows, cursors | send, poll, wait | `AgentMessaging` |
| Retention and quota (`core/agent-message-storage.ts`; receipts and facts in `agent-messaging.ts`) | payloads, receipts, ack and workflow facts, retention facts | quota check, record a receipt or fact, report, prune | `AgentMessageStorage` |
| Agent router (`core/agent-router.ts`) | session, connection, dispatch and acceptance tables; bound sockets, operations in flight, drains | register, supersede, heartbeat, disconnect, notify, dispatch, drain, accept, stop | `AgentRouter` |
| Router client (`host-runtime/router-client.ts`) | socket, queue of deliveries, remembered acceptances | connect, register, heartbeat, deliver, reconnect, close | `RouterHost` |
| Codex CLI queue (`host-adapters/codex-cli-queue.ts`) | none of its own | dispatch inside the router | in `AgentRouter` |
| Agent message transport (`transports/agent-messaging.ts`) | the waits of senders to an exact session | store, ask the router, answer, time out | `ExactSender` |
| Router start-up (`agent-router.ts`, `host-runtime/router.ts`) | lock file, socket file | start, take over a stale lock, remove an orphan, stop | `RouterStartup` |
| Host runtimes (`host-runtime/claude.ts`, `codex.ts`, `acp.ts`) and adapters (`host-adapters/`) | phases of a host and its program, requests in flight, the registration the ACP adapter knows | start, register, deliver, fail, exit, shut down | `ManagedHost` |
| Vector index (`db.ts`, `core/operations.ts`, `core/embedder.ts`) | live index, staged generation with its text hashes, marker, reindex notice | remember, rewrite, forget, delete, embed; reindex, resume, discard, switch | `VectorGenerations` |
| Knowledge graph (`knowledge-graph.ts`, `core/operations.ts`), keyword index (`storage/fts-index.ts`), memory tool, import, weekly compression, the hooks' `captureEntity` | memories with their metadata; FTS5 rows | create, tell, pin, supersede, remove an observation, archive, delete, rename, rewrite, import, compress, rebuild | `KnowledgeGraph` |
| Dreamer (`core/dreamer.ts`, `product-improvements.ts`, `transcript-extractor.ts`), conflict judge | proposals, `summarizes` edges, judged pairs | run, stage, supersede, heal, apply, reject, judge | `Dreamer` |
| Opening the database (`db.ts`, `storage/schema.ts`, `storage/graph-repairs.ts`) | markers and last attempts of the one-time passes | back-fill, repair, back off, race, rebuild | `SchemaUpgrade` |
| Lifecycle, relation back-fill, scores | derived columns | decay, score | weekly compression only |
| Model clients, configuration, installation, reports, front ends, dashboard | none that several actors share | input, output, rendering | no |

### How they interact

Three mechanisms connect the processes.

* **The database file.** Every process opens it itself. A transaction is atomic;
  what is between two transactions is not, and most operations look something up
  first and write afterwards. A message is a row that outlives every process:
  *nothing that happens in the router can lose it*, which is what the delivery
  design rests on.
* **Local sockets.** One router listens; each host process keeps a connection,
  registers a *session* on it and renews a lease with heartbeats. A session that
  registers again gets the next *generation* and the older connection is told
  that it was superseded and closed.
* **Hints.** After a commit the sender tells the router, best effort. A
  registration also schedules (`setImmediate`) a *drain* of what its principal
  has not had accepted. A delivery is retried by the next hint or registration
  and by nothing else. A message to an *exact* session is different: its sender
  asks the router to deliver it now and waits for the acceptance, and no
  registration replays it.

Two parts share the memories with everybody else. The dreamer reads them, awaits
a model, and writes what it proposes; a reviewer applies proposals from another
process. And every process that opens the file runs the one-time passes of this
release over whatever earlier releases left, while processes of those releases
may still be running.

### What is hard, and what makes each part correct

* **Message store.** The lookup of a key is outside the transaction that inserts,
  so two senders find it free; a sender can die after the commit and before the
  answer; a page of events is read before the cursor that stands for it is made;
  two readers make one cursor. *Correct:* a key commits one message, every
  answer is true of the store, a reader that follows its cursors is handed every
  event once and in order, a wait ends.
* **Delivery.** Any router or host may die between taking a message and saying
  so; a delivery may be pushed while another connection of the session takes
  over, an answer may arrive when its attempt has timed out, when the lease has
  run out, or in the same chunk as the end of its socket; a drain joins
  operations it did not start. *Correct:* one open connection row per session;
  at least one attempt for what is eligible while a router and a host are up; at
  most one acceptance, recorded only for the newest connection with its lease and
  socket; no process is handed a delivery twice within its window; operations and
  drains end; hosts come back.
* **Retention.** A payload is erased for good by a query over four tables that
  others are writing, with times of one-second resolution, in batches that may
  fail in the middle. *Correct:* only settled payloads are erased, each with its
  audit fact and none without; recorders are told the truth; retries cost
  nothing.
* **Exact senders.** The sender's deadline, the router's and the host's answer
  may come in any order; a repeated call joins the attempt of the first. *Correct:*
  a sender is told `native_accepted` only of a message its session was handed and
  accepted; a failed delivery is not replayed by a registration.
* **Router start-up.** Looking at a path and removing it are two system calls. A
  lock is stale by its pid or by its age, a socket is an orphan if nobody answers;
  a router can die between any two calls. *Correct:* two starters are not both
  between taking and releasing the lock, the socket of a router that listens is
  not removed, and in the end someone serves.
* **Hosts.** The program, the connection and the registration of a host end, are
  lost and renewed in any order. *Correct:* a host that is ending accepts nothing
  any more; a host whose program has ended leaves the router; deliveries end.
* **Knowledge graph and keyword index.** A contentless FTS row is deleted by the
  text it was made from, which the deleter must know; some writers read outside
  their transaction, one works without any. *Correct:* the index holds what the
  memories say, and every active memory is found.
* **Dreamer.** Minutes pass between reading a cluster and staging a digest of it,
  and days until it is applied. *Correct:* no memory is in two digests, a proposal
  has one effect, a decision is final.
* **Vector generations.** A reindex takes minutes and awaits a provider at each
  entity, while every other process writes the live index. It builds a staging
  table, survives crashes, resumes, may meet another rebuild or a change of
  provider, and then replaces the live index in one transaction. *Correct:* the
  switch loses no vector of the width in use, brings nothing forgotten back,
  promotes what the run verified, and the notice that a rebuild is owed stays
  until one is done.
* **Opening the database.** Eleven one-time passes, each with a marker that says
  done for good, run in every process that opens the file, may be refused, broken,
  put off or cut short, and are raced by writers who produce the very rows they
  are for. *Correct:* a pass is marked done only over finished work, the indexes
  are true whatever earlier releases left, and every pass is done in the end.

`PROJECT.json`, under `hazards`, lists what can go wrong at its line, with the
properties that would catch it and, where none does, the reason.

## The models

### `AgentMessaging`, with `MessageLedger` and `AgentMessagingProofs`

Row *i* of `log` is a message together with its delivery and its event (one
transaction inserts the three); `idem` maps a scoped key to its row, and
`cursors[t]` is the row of token *t*. A writer goes `idle → lookup → insert →
raced | readback → idle`, a reader `idle → read → cursor → mint → delay`:

| action | code |
|---|---|
| `Lookup`, `Insert`, `InsertFails`, `Raced`, `Readback` | `sendAgentMessage`: the look at the key, the transaction with its UNIQUE constraints, the second look after a lost race, the answer read back |
| `BeginPoll`, `Denied`, `ReadRows`, `FindCursor`, `MintCursor`, `EndPass` | `pollAgentEvents`: cursor check, the page, the cursor of its last event |
| `PollAgain`, `AbortWait`, `DeadlinePasses` | `waitForAgentEvents` |
| `CrashWriter`, `RestartReader` | a process dies; a reader starts again from any cursor it ever had, or from another's |

`MessageLedger` is what a sender may rely on: requests are taken once per key
and answers are true. `ImplementsLedger` refines the one by the other.

### `RouterWire`, `AgentRouter`, `RouterHost`, `AgentDelivery`, with `DeliveryLedger` and `AgentDeliveryProofs`

`RouterWire` holds the sockets (two ends and a queue of frames each way) and the
budget of mishaps. `AgentRouter` is the router process and its tables,
`RouterHost` the client in every host process, and `AgentDelivery` composes them.

The router is one Node process, and the model keeps its scheduling. A handler of
a frame, of a closed socket or of a timer is a *macrotask*: it starts only when
no continuation is due (`Settled`). What it resolves runs on afterwards as a
step of its own, before the next macrotask: `Finish` of an operation whose answer
was `answered` or `resolved`, and `DrainStep`. All complete frames of one chunk
are handled before any continuation (`SettledBut`), which is how an answer and
the end of its socket can both be seen before the operation runs on. Sockets are
read in the order in which they became readable (`InTurn`).

| action | code |
|---|---|
| `Register` | `registerConnection`: authenticate, next generation, close and tell the older ones, bind, schedule the drain |
| `Heartbeat`, `LeaseTick` | `heartbeat`, and time |
| `Disconnect`, `SocketClosed`, `SocketBreaks` | `adapter_disconnect`, the `close` of a socket |
| `Commit`, `Notify`, `Dispatch` | a message is stored; the hint; `dispatchDelivery` |
| `StartDrain`, `DrainStep` | `drainConnection` |
| `HostOutcome`, `Timeout`, `QueueReturns`, `Finish` | the answer of an adapter and `dispatchDeliveryOnce` after it |
| `FinishFails`, `DrainFails` | SQLite errors there |
| `Crash`, `Stop`, `Restart` | the process |
| `Connect`, `Registered`, `ReceiveDelivery`, `Superseded`, `RegistrationTimesOut` | the client's socket |
| `ConnectionLost`, `ReconnectEnds` | `handleDisconnect` and `beginReconnect`; the end of a `reconnectLoop` and the `finally` that clears `reconnectTask` (`task`) and begins another loop for a connection lost meanwhile |
| `BeginDeliver`, `EndDeliver`, `AcceptDuplicate`, `DeliverToClosed` | its `deliveryTail`, one delivery after another |

A *scenario*, drawn by `Init`, says which session each process belongs to
(`sessionOf`) and how often each kind of event may happen: processes that
connect, messages committed, hints, calls of exact senders, broken sockets, lost
routers, busy databases, lease ticks. `left` is what remains.

`DeliveryLedger` is the promise: a backlog, sessions it may reach, what was
handed over, what is settled. `KeepsLedger` reads it off the tables together with
what the hosts really took.

### `ExactSender`, with `AgentDeliveryProofs`

`ExactSender` extends `AgentDelivery` with the senders of
`transports/agent-messaging.ts`. `Deliver` is any step of the router and its
hosts together with what it replies to requests that wait for it (`ReplyTo`).
`Store` and `Hear` share `Stored` and `HandleNotify` with the `Commit` and `Notify` of
`AgentRouter`, which spend a budget besides.

| action | code |
|---|---|
| `Store` | the message of the key, stored now or by an earlier call |
| `Ask` | the acceptance looked up, and the connection to the router |
| `Hear`, `Unheard` | the router reads the request, joins what is in flight, starts an attempt or refuses; or the sender's socket closes first |
| `Receive`, `TimesOut` | the reply, with another look at the acceptance; the deadline of 12 s |

### `RouterStartup`, with `RouterStartupProofs`

Every system call of `start()` and `stop()` that touches the lock file or the
socket path is an action, and a file is known by its inode, which is used again
once nothing refers to it, because the code compares inodes.

| action | code |
|---|---|
| `Spawn` | a host or a user starts a router |
| `OpenLock`, `WritePid`, `WriteFails`, `StatLock`, `JudgeLock`, `CheckLock`, `UnlinkLock` | `acquireStartupLock`: `wx`, its pid, and the judgement and removal of a stale one |
| `CloseLock`, `CheckMine`, `UnlinkMine` | its release |
| `Bind`, `Listen`, `Chmod`, `Identify` | the socket |
| `Lstat`, `Probe`, `LstatAgain`, `RemoveOrphan` | the path is taken: two looks and two probes before it is removed |
| `Stop`, `CheckOwn`, `UnlinkOwn`; `Crash`, `Fail` | `stop()`; the process dies, a call fails |

### `ManagedHost`, with `ManagedHostProofs`

One host of any of the three kinds, the program behind it, and the connection as
`router-client.ts` presents it.

| action | code |
|---|---|
| `Ready`, `StartFails`, `Activate`, `RegisterFails`, `Continue` | the start: the program is ready, the registration is answered (with frames read in the same chunk) or not, the awaiting code goes on |
| `LinkLost`, `Reconnect`, `Superseded` | what the client does by itself and tells nobody |
| `Push`, `HandOver`, `Answer` | a delivery read, its turn, the program's answer on its way (there is none to a Claude notification) |
| `Finish`, `Reject` | the answer is read, or the notification is written; the call fails or its deadline passes |
| `ChildDies`, `ChildEnds` | the program is gone, and the host learns of it |
| `AdapterFails`, `Shutdown` | `fail()` of an adapter, signals and ends of input |

### `KnowledgeGraph` and `Dreamer`, with `DreamerProofs`

A row of `memory` is a memory together with its rows in the keyword index. What a
caller read and has not yet used is its `job`, so that it can be stale. In
`KnowledgeGraph` every writer is a chain of actions with one transaction or
statement each, `remember` (`Remember`, `ReadMetadata`, `WriteMetadata`),
`setPinned`, `captureEntity` (`Capture`), `removeObservation`
(`DeleteObservation`, `UnindexRemoved`, `ReadRemaining`, `IndexRemaining`),
`forget` (`ForgetByName`, `ArchiveEntity`, `DeleteEntity`), the memory tool
(`BeginRename`, `RenamePath`, `BeginRewrite`, `RewriteObservations`), import
(`BeginImport`, `ClearEntityData`, `Refill`), the weekly compression
(`BeginCompress`, `Summarise`, `ArchiveBatch`) and `RebuildIndex`, and a caller
can die between any two. A deletion from the contentless index takes the words it
is told from the row, in whatever column they stand: `Terms` says which words a
name or an observation has, and they may share some, so a writer that tells the
index an old name can take a word from a text it never saw. `drifted`, `torn` and
`clobbered` are history: an index row that a writer is known to leave wrong, one
that may lack a word (a removal cut short, a rename that mistook its status, or
`Robbed`: a deletion worked out from a stale read took a word the memory has in
another place by now), and metadata put back to a stale copy. These are told by
what the writer read and what it found, never by the index that came out; each
case of `torn` is needed, or TLC finds `ActiveIsFound` violated.

`Dreamer` adds the proposals: a run (`RunDreamer`, `ConsiderCluster`,
`HealOverlap`, `WriteProposal` after the model answered, `ModelDeclines`), guards
and patterns, transcript and product proposals, judged pairs, and the reviewer
(`ApplyDigest`, `ApplyPattern`, `ApplyProductImprovement`, `ApplyTranscript`,
`ApplyGuard`, `ApplyRelation`, `RejectProposal`).

### `AgentMessageStorage`, with `AgentMessageStorageProofs`

A message stands for its idempotency key and its one delivery; `payload` says
whether its content is absent, whole or a tombstone. Senders and recorders look a
key up in one step and write in another. The prune is an immediate transaction
(`PruneBegin`, `Tombstone` per row, `PruneCommit`, `PruneRollback`); while it is
open no other transaction starts (`MayWrite`), but lookups go on. The
classification of the report (`StorageState`) and the selection of the prune
(`Prunable`) are translated separately, because the code writes them separately.

### `VectorGenerations`, with `VectorGenerationsProofs`

A vector is the set of observations it was made from, so that "stale" is
something the model can see; a width stands for a provider. `run[r]` is where
process *r* stands in `reindex`: `discard, open, resume, list, next, embed,
write, record, swap, measure`. Every await and every transaction is a border
between steps. All other writers of the index (`Remember`, `Rewrite`,
`RemoveObservation`, `ArchiveEntity`, `DeleteEntity` and the scheduled
embeddings) are actions too. `run[r].alone` is history: no other rebuild and no
discard disturbed this run. Some properties can only be promised to such runs.

### `SchemaUpgrade`, with `SchemaUpgradeProofs`

A memory is told apart by its *flaws*, one for each back-fill and repair that has
something to do for it, and by what the two indexes hold of it. `opening[p]` is
where a process stands in `openDatabase`: `checking` a marker without a lock,
`due`, `read` (a back-fill with its work list), `broken`, `open`.

| action | code |
|---|---|
| `Open`, `Check`, `Close`, `Crash` | `openDatabase`, one pass after the other; the pre-check of the marker and the back-off |
| `Snapshot`, `Fill`, `Refused` | a back-fill in a *deferred* transaction: its first statement reads a snapshot, and its first write is refused if somebody has committed since (`stale`) |
| `RunOnce`, `Raced` | `runOnceMigration` under the write lock: the marker read again, the repair, the marker |
| `Locked`, `Breaks`, `NoteAttempt`, `Ages` | the lock held for too long; another error, its recorded attempt, and a day |
| `Remember`, `Archive`, `ReindexFts`, `Reindex`, `ReindexSome` | the writers of this release |
| `Capture` | `captureEntity` of a hook: a new memory gets no signal score; an archived one stays archived and is indexed all the same |
| `OlderRemember`, `OlderArchive` | those of an earlier one, which knows of no marker |

`IndexesAreTrue` names what the code cannot keep: `drifted` (an earlier release
wrote the entry), `relisted` (a hook indexed an archived memory; the property still
asks that it be found under words of its own), and `kept`, why an archived memory
may have a vector. A bucket of fused lessons is excused only when `deferred` says
that the split had been put off and the pass over archived vectors was done: with
the two passes in another order the run fails (`DropsFirst`).

## The runs

TLC explores every behaviour of the instance named. A budget bounds how often
each kind of mishap happens; where a configuration gives a *set* of scenarios or
budgets, `Init` draws one, so that the run covers several mixes without their
product.

| run | instance | shows | states |
|---|---|---|---|
| `send` | 2 senders; a key with two payloads and another key; 2 readers, one of which may restart with any cursor, pages of 1; a crash | one message per key, true answers, the ledger is implemented; no event is lost or repeated, a foreign cursor skips nothing | 712 k |
| `wait` | 2 readers of one recipient, 1 message, 1 crash; fair | a message reaches every reader that polls on | 23 k |
| `delivery` | 2 processes of one session, or of two sessions of which the router serves one, or 1 process with a window of 1; a lost router, leases, a second hint, breaks with a SQLite error | the tables agree with each other and with the hosts, no stale answer, no forgotten or self-superseded host, no repeat within the window, drains skip nothing, the ledger is kept | 957 k |
| `delivery_live` | 1 host, 2 calls of an exact sender, a lost router, an error, late answers; or a connection lost twice (3 sockets, which is enough for that); fair | operations end, drains end, hosts reconnect; senders are told the truth; nothing is replayed | 68 k |
| `lease_claim` | 1 host, time; fair | **violated**: see below | |
| `retention` | 2 messages, one smaller than a tombstone, batches of 1 that may fail, a tight quota; or 1 message, 2 senders, 2 recorders, 3 tables, every cutoff, facts of one second | only settled payloads go, each with its audit fact; retries are free; recorders are told the truth | 560 k |
| `generations` | 2 rebuilders, 2 memories, 2 widths; five mixes of edits, rebuilds, crashes, discards and changes of provider | the four promises of the vector index | 677 k |
| `dream` | 2 callers, 5 memories, 3 proposals; five scenarios (below) | the index is exact, active memories are found, one digest per source, one effect per proposal, decisions are final, rivals are unseen | 348 k |
| `startup` | 2 processes, 3 inodes, a mishap, any lock or socket file left behind; fair | the lock is kept, the winner keeps its socket, someone serves | 512 k |
| `hosts` | any of the three hosts, 3 deliveries, 3 registrations; fair | hosts that end accept nothing, only renewed connections are stale, ended hosts leave, deliveries end | 177 k |
| `ghost_claim` | a Codex host, 1 delivery; fair | **violated**: see below | |
| `upgrade` | a process with `sqlite-vec`, one without and a hook, 2 memories; three scenarios (below); fair | stamps are earned, indexes are true, passes finish | 598 k |

**Why these bounds.** A race between two lookups needs two processes, a cursor
that skips needs a second event and a page of one, an overtaken connection needs
two processes of one session, an eviction needs a second delivery in a window of
one, a batch that fails in the middle needs two rows. One crash is enough to cut
an operation anywhere and see a fresh start recover. A third rebuild can only do
what the second does: every step of a rebuild depends on others through the
staging table and its marker alone, and these do not say how many wrote them.
`FailureLimit` is 2 where the code has 5: with two memories a run can reach it and
stop, or stay below it. `DedupLimit` is 1024 in the code. `MaxSockets` bounds how
often hosts connect, `MaxBacklog` the messages, `MaxTime` the seconds, `MaxFacts`
the recorded facts, `MaxTail` the frames a host has read, `MaxGen` its
registrations, `MaxProposals` the proposals. Three inodes for two processes leave
one to be used again while both hold one.

Constraints, where a cfg has one: in `send` the second reader, which is there to
leave a cursor the first may be restarted with, does its polling first
(`OtherReaderFirst`), and readers poll without waiting and not while both senders
are at work (`PollsOnly`), for senders and readers meet in the log alone. In
`retention`, `Either` keeps a behaviour to one of its two halves. Senders and
callers of equal rights are symmetric, but in runs of liveness.

The scenarios of `dream`: every writer of the index over an active and an
archived memory; clusters of three with two reviewers; the same with stale
metadata written back; proposals that only add, with names that are taken; and
guards, transcripts and verdicts. Those of `upgrade`: a database from before pair
segmentation and titles, whole, with a mishap; one back-fill beside writers of
both releases; lesson buckets with the vectors of the archive, two writes and a
mishap. Two memories suffice there: one that a pass is for, and one that a writer
brings while the pass is under way.

Deadlock is checked in `send`, `wait` and `startup`. Elsewhere
(`CHECK_DEADLOCK FALSE`) budgets and sockets run out, hosts are closed, and then the model may stop, as may the system
when nobody calls it. What must not get stuck is stated as liveness. Type
invariants are proved (below) and not part of the runs.

Every property has a mutant in `PROJECT.json`: a change of a mapped definition, of
the kind a bug would make (operators with a `Mutant:` comment in the modules),
under which TLC finds the property violated.

## Fairness

* `AgentMessaging`: weak fairness of each step of a call that has begun (the
  store's code is synchronous between its awaits), of `DeadlinePasses` (a timer),
  and of a reader polling again. Senders need not send, nobody need crash.
* `AgentDelivery`: weak fairness of the router's steps (its event loop gets to
  every event and every continuation), of each socket's heartbeat being handled,
  of each host's steps and heartbeat timer, and of `Restart` while some host
  waits to reconnect: a host that finds no router starts one
  (`host-runtime/router.ts`). Heartbeats are on their own, as are hosts, because
  a host that heartbeats for ever must not be what keeps the router from other
  work in the model, nor may the model pretend it would be starved. Messages,
  breaks, expiries and errors are never fair.

* `ExactSender`: that of `AgentDelivery`. Nobody need call; a call that has begun
  may be given up at its deadline.
* `RouterStartup`: weak fairness of the steps of a process that runs, of hosts
  starting a router while the socket is absent or refused
  (`host-runtime/router-client.ts` connects again and again), and of a lock
  getting old. Crashes and stops are never fair.
* `ManagedHost`: callbacks that are due run; a registration is answered or times
  out; a program that was signalled ends and its host learns of it; requests to
  Codex and ACP programs end by their deadlines. Standard output is assumed to
  take what `claude.ts` writes to it: it sets no deadline for a notification, and
  a pipe that stays full holds up the deliveries behind it.
* `SchemaUpgrade`: a process that opens the file goes on, a server ends some time
  and the file is opened again, and a day passes. Mishaps are bounded and not fair.

## The proofs

`tlapm` checks some fifteen thousand obligations in eight modules, for all
values of the constants that satisfy the assumptions: any processes, requests,
page and batch sizes, quota, entities, widths, inodes, budgets, passes already
done, hosts, sessions, leases, memories, names, texts, proposals. The assumptions are named where the constants are declared and say only
that sets are of the right kind, bounds are numbers, entity ids are finitely many
(`CountSuffices` compares cardinalities), and the model's own values (`None`,
the pids of processes that are gone) are no others. `ScenariosAssumption` says
with what a `Dreamer` may start: stored memories have names of their own, an exact
index and no trace of a proposal yet. TLC evaluates all of them in every run.

Most invariants of a large module are proved in two steps: a summary of what a
step may do to the state the invariant is about, which each action is shown to
fall under, and the invariant from the summary. The summaries are where one reads
why an invariant holds.

**`AgentMessagingProofs`.** `SendInv` is inductive with `TypeOK`: *Agree* (a key
of `idem` points at a message with that key and every message's key points
back), *InFlight* (a writer about to read back has a message of its own key, one
that lost a race has somebody's) and `AnswersAreTrue`. Without *InFlight*, the
step that answers is not justified. `PollInv` is *CursorsWithinLog* and
*ReaderSafe*: between reading a page and having its cursor, what the reader holds
is exactly the events between its position and the sequence the next cursor will
carry. `AtMostOneMessagePerKey`, `SendersAreToldTheTruth`, `PagingIsExact` and
`TokensAreUnique` follow; `StoreImplementsLedger` maps every step to a step of
`MessageLedger` or a stutter.

**`AgentMessageStorageProofs`.** `IInv` adds to the properties: *CallsUnderWay*
(what a call between lookup and write knows), *InTimeOrder* (facts are appended
with times that do not fall, which is why "latest" by row and "latest" by time
can be reconciled for facts of one second), *UniqueKeys*, *Answered*, and
*BatchStands*: while the transaction is open, what it selected is still prunable,
because nobody else may write. `OnlySettledErased` is an action property and
rests on *BatchStands* at the commit.

**`VectorGenerationsProofs`.** `TypeInv` is `TypeOK` with *FullSteps* (which
steps a scoped rebuild never reaches). `TheForgottenStayOut` needs no more. The
other three are about a run that was never disturbed and need the rest of `IInv`:
*Route* (in a run that did not resume, the staged rows are of memories it listed,
came to and did not excuse), on which `VectorsSurviveTheSwitch` rests, *Exclusive* (it is the only rebuild), *Fresh* (idle
runs remember nothing), and *Progress*, the invariant of the loop: what a resumed
run knows of a staged row is still recorded of it, and every listed entity is
still to come, excused, in hand, or *vouched for*: its staged row is the text the
run read, or is not the text that is recorded of it (the one exception of the
property).

**`RouterStartupProofs`.** `IInv` adds to `TypeOK`: *Phases* (what a process
has open at each step), *OwnInodes* (nobody else is bound to or has open what it
has), *HeldAtPath* (while the lock has not failed, the file at the path is the one
the holder made), *Judged* and *Verdicts* (what a starter that is about to remove
a lock knows of it), *BoundAtPath* and *Orphaned* (the same for the socket). The
heart is that a lock can be lost only in two ways, by age or because the file
that was looked at was not the file that is removed: `LockOutlivesLooks` states
that as an action property, and `OneStarter` (`LockExcludes`) and `SocketStays`
(`WinnerKeepsSocket`) hold until then; `LockKept` is the first two together, the
property `LockIsKept` of the run.

**`ManagedHostProofs`.** `IInv` adds *Phases* (start, connection and ending agree),
*Receipts* (nothing is accepted before the start is over), *ChannelDuties* and
*AdapterDuties* (whoever learned of an end has closed, or will at the step it is
awaiting), and *Silence* (a host that is ending is off the router or has nothing
to tell it, now or later). `NothingAfterTheEnd` and `OnlyRenewalsAreStale` are
about the run's properties;
`EndedHostsClose` is the safety half of `EndedHostsLeave`: once the callbacks that
are due have run, an ended program has no open connection, but for the hosts that
are excused.

**`SchemaUpgradeProofs`.** `IInv` adds *Positions* (a process that is opening is at
one of its passes) and *WorkLists*: while nobody has committed since a back-fill
read its work list, that list is exactly the memories the pass is for. It is what
makes the deferred transaction enough, and it holds because every commit of
anybody makes every other reader `stale`. *InOrder* says that nobody is past the
split of lesson buckets, and no archived vector dropped, before that split is done
or put off; without it the buckets of the split could not be told from any other
archived memory. `StampsEarned` is the action property `StampsAreEarned`;
`IndexesTrue` follows every writer and repair through the two indexes
(`Rebuilding`, `Unindexing`, `Filling` are the lemmas about one row; `Stays` is
what each keeps of an entry).

**`AgentDeliveryProofs`.** `Typed` is `TypeOK` with *Shape* (a host has a socket
exactly while it registers or is up, an operation in flight has a connection).
The invariants build on each other:

* `RowsInv`: *Generations* (the open row of a session is its newest), *Origins* (a
  row belongs to the process that opened its socket, a generation is never
  beyond the last one) and *Registrations* (a socket registers once, and those of
  one process in turn). The last is about frames under way, and without it a late
  registration could supersede the process's own newer one. A router step
  *Continues* rows.
* `LinkInv`: *Bindings* (what is bound is open, of this process of the router, on a
  socket it has), *Ends*, *Hangups*, *Announced* (whoever was told, or is about to
  read, that it is registered is bound, or has `session_superseded` in its queue)
  and *Supersessions*. `HostsAreNotForgotten` and `HostsDoNotSupersedeThemselves`
  follow; the steps are summarised by *Serves* and *Attends*.
* `WindowInv`: *Minds*, that what a host is delivering is not among what it
  remembers, beside `NoRepeatInWindow` itself (`NothingTakenTwice`).
* `OpsInv`: what is in flight is the last attempt of its delivery, open, of this
  process of the router (*InFlight*), and every attempt was meant for its
  session and has returned exactly if it is the accepted one (*Tried*). With
  `RowsInv` and *Bindings* it gives `TheTablesAgree`, and `StaleAnswersDoNotCount`
  is read off the one step that records an acceptance. A router step *Works*.
* *Uppers* and *Caught*, the invariant of the drain loop: a drain has seen to
  everything up to the delivery it is at, as long as its connection is current.
  `DrainsSkipNothing` follows at its last step (*Drives*, *Ages*).
* `HandInv`: every place on the way of a delivery (frames, `deliveryTail`, the
  hosts' programs) holds only what is *meant* for that session, and an acceptance
  on its way back is of something that was handed over (*Acknowledged*,
  *Answered*).

`DeliveryImplementsLedger` is the refinement `Spec => KeepsLedger`: each step maps
to `Add`, `Activate`, `Reach`, `Settle` or a stutter of `DeliveryLedger`. An
acceptance maps to `Settle`, whose guard is *Answered*; a hand-over to `Reach`, whose
guard is *Waiting*.

The invariants are proved of `Steps`, which is wider than `Next`: a message may be
stored and a delivery notified at any moment, without a budget. A step of
`ExactNext` is one of those (`ExactSteps`), so all of the above holds with the
senders of `ExactSender` too, and what is left is about the senders. `SenderInv`
adds to their types *Addressed* (the message of a key is for the session of the
key) and *Underway* (a call is about the message of its key, has a request out
while it asks, and was told `accepted` only of what is accepted). *Drawn* says that
what is settled was reached; it is an invariant of the ledger, and is carried over
by the refinement. `SendersAreToldTheTruth` (`AnswersHold`) is read off these where a
sender is answered. `ExactSessionsAreNotReplayed` (`NeverReplayed`) needs in addition
that an attempt begins only where an operation does, and an operation only with a
request or in the drain of a principal's backlog (`OnlyDispatches`).
`SendersKeepTheLedger` is the refinement again, of `ExactSpec`.

**`DreamerProofs`.** One theorem each for the six properties of `dream`, and the
types. A step of a call is summarised as a *turn* (`GraphTurn`, `RunTurn`,
`ReviewTurn`): whose job changes, which rows, and into what.

* `Typed` adds to `TypeOK` that stored memories have unique names, what kinds of
  proposals look like, and that whatever a call or a proposal speaks of was stored
  once (*HandledOld*, *SourcesOld*): a row that is still new is in nobody's hands.
* `IndexInv` is for rows that are not *drifted*. With no removal under way the
  entry is exact; with one, there is only that one and what it has left to do
  makes the entry exact (*Halfway*). That a second removal of the same memory, or a
  writer between two statements of the first, must count as drift is what this
  invariant says of the code (`memory.ts`, `removeObservation`).
* `FoundInv`: a word of an active memory that it is not found by, told apart by
  whether its name or its text has it (*Lost*), some removal under way *owes*: one
  that has yet to read the text owes all of that, and every one the words of the
  name it knows. A removal that dies owes nothing any more, which is *torn*, and so
  is a memory that is robbed. Of `Terms` the proof assumes its type alone: nothing
  keeps names and texts from sharing words.
* `DigestInv` (a source that is an edge's end names the digest in its metadata,
  unless a stale copy was put back) gives `DigestsShareNoSource`.
* `EffectInv`: *EffectsTraced* (a trace of a proposal in a memory is of one that is
  applied, or was overruled, of the kind that leaves such traces), *MadeOnce*,
  *OverruledDecided* and *RelationsJudged* give `ProposalsActOnce`.
* `SeenWithin` (what a run saw before it asked a model lies within its cluster)
  gives `RivalsAreRetired`. `DecisionsStand` needs the types only.

**Only model-checked.** Liveness, because TLAPS does not handle `ENABLED`:
`EventReachesReader`, `WorkEnds`, `HostsReconnect`, `SomeoneServes`,
`EndedHostsLeave`, `DeliveriesEnd`, `PassesFinish`, and the two properties that
are violated, `ActiveHostsRecover` and `ExitCloses`. Every other property of a run,
invariants, action properties and both refinements, is a theorem. Runs that are
proved about are kept: they show that the invariants' cases happen, and under
what mutants the properties fail.

## Where the code and its documents differ

Shown by a run:

* **`lease_claim`** (`agent-router.ts:689`). A host late by one lease with its
  socket open (a suspended laptop) heartbeats for ever: the router refuses each
  heartbeat, the client ignores the refusal and reconnects only when a socket
  closes. `router-client.ts:340` says that active hosts remain eligible for
  recovery.
* **`ghost_claim`** (`codex.ts:115`). When the app-server of a Codex host exits
  while the host is registering, the one `close()` there will be finds no
  connection to close. The registration then succeeds and stays, with heartbeats
  and reconnections, for a program that is gone. `tests/host-runtime/codex.test.ts:161`
  says that the registration is closed when the owned process exits; it tries an
  exit after the registration. The ACP host has the same order at
  `acp-client.ts:349`.

Met while modelling, and seen in the models as an exception a property makes, a
history variable, or a state that no property forbids:

*Delivery and hosts.*

* `dispatchDelivery` joins an operation in flight whichever connection that is
  aimed at (`agent-router.ts:774`). A host that closes gracefully has its row
  closed, but what was pushed to it is not resolved; a second process of the
  session that registers meanwhile has a drain that joins the old operation, sees
  it time out and moves on. `docs/platforms/agent-messaging.md:456` says that
  registration drains eligible deliveries. `DrainSkipsNothing` counts an
  attempt of this router, on whichever connection.
* The ACP adapter copies the generation of its registration once
  (`acp-client.ts:344`). After any reconnection of the client it refuses every
  delivery as stale, and it refuses one that is read in the same chunk as the
  first registration's answer. `StaleIsRenewed` names both.
* A Claude session accepts a delivery once its notification is written
  (`claude.ts:159-173`): the client may be gone, or never read it, and the sender
  is told `queued` all the same. No property says that an accepted message reached
  a program; `EndingHostsAcceptNothing` begins where the host knows of the end.
* `recipient_unavailable` is said to mean that the session did not accept
  (`skills/memesh/SKILL.md:61`, the error's text at
  `transports/agent-messaging.ts:43`). It is also the answer when the host takes
  the message after the router's deadline, and when the request to the router
  fails, or 12 s pass, although the acceptance is stored: the `catch` at
  `transports/agent-messaging.ts:165` does not look again.

*Router start-up.* A lock can be taken away from its owner, by age or because it
was replaced between the last look and the removal
(`agent-router.ts:1342-1343` says that this narrows the race; it does). While the lock
excludes, the winner keeps its socket, as `tests/core/agent-router.test.ts:321`
has it; once two starters overlap, one may remove the socket of the other, and
the next starter may overlap with them again (`SomeoneServes` excuses an overlap
that never ends). A router that dies between bind and chmod leaves a socket that
is not private, and every later start refuses it. A look at a lock that has just
been released fails the start with `ENOENT`.

*Memories and the dreamer.*

* A product-improvement proposal is rejected as superseded by any wider
  compaction cluster (`dreamer.ts:796-803` selects all kinds but `relation`),
  although its sources are evidence that compaction does not retire
  (`dreamer.ts:1321`).
* `ApplyTranscript`: a transcript proposal can be applied twice, because its
  UPDATE does not ask for a pending row (`dreamer.ts:1537`).
* A pin keeps a memory out of compaction (`operations.ts:516`,
  `docs/api/API_REFERENCE.md:253`) when clusters are formed. One set after a
  digest was staged is not looked at when the digest is applied.
* An archived memory comes back into the keyword index when one of its
  observations is removed or the hooks' `captureEntity` adds one.
  `scripts/audit/memory-invariants.mjs:281-283` calls it an invariant that none is
  there.
* A rename, an overwriting import and a removal delete from the keyword index
  what they had read (`memory-tool.ts:670`, `knowledge-graph.ts:1100`, `:1177`).
  A word of it that another process has put into the name or the text meanwhile
  goes with it, and the memory is not found by that word.
* Imported metadata (`serializer.ts:19-57` drops `guard` and keeps the rest)
  brings along ids of another database, such as the digest a memory was
  consolidated into.
* Weekly decay looks at its throttle, updates and records the time in three
  statements (`lifecycle.ts:18-56`): two processes may both decay.

*Storage and vectors.*

* `docs/platforms/agent-messaging.md:403` calls the quota a hard logical payload
  budget. It is checked when a message is inserted. The tombstone of a payload
  smaller than itself raises the total (`agent-message-storage.ts:199`); the
  `retention` run reaches states above the quota this way.
* `db.ts:733-741` and `CHANGELOG.md:1439-1444` describe a memory *edited* during
  a rebuild whose fresh vector was replaced by the staged one, as something that
  carrying rows across the switch repaired. What is carried are rows *absent*
  from staging (`db.ts:778`); a memory that was staged before the edit still loses its
  fresh vector to the staged one. `SwapKeepsVectors` promises a memory that the
  rebuild read no more than *a* vector, and keeps the vectors of the others.
* `remember` on an existing entity embeds only the observations of the call
  (`operations.ts:179-181`), where the embedder's documentation says that all
  writers embed the same text (`embedder.ts:176-191`); and removing an
  observation leaves the vector as it was.
* Two rebuilds of different widths that open a generation at once leave a table of
  one width with a marker of the other (`db.ts:670`, `IF NOT EXISTS`): each run
  then fails until the generation is discarded.
* A rebuild of one namespace clears the notice when no vector is missing, although
  the width it is owed for has not changed.
* The hash of a staged row is recorded after the row (`operations.ts:815-817`); a
  crash between them leaves an older hash beside a newer vector. If the text is
  then edited back, the row vouches for the wrong vector.
  `PromotesWhatItVerified` names this exception.

*Opening the database.*

* `db.ts:287-289` says that the pass over archived rows cleans up after the one
  that splits lesson buckets, in the same open. If the split was put off by a
  lock or backs off after an error, the later pass is marked done without it, and
  the vectors of the buckets that the split archives one day stay until the
  rebuild that is owed. A rebuild of one namespace may withdraw that notice
  (`operations.ts:929`). `IndexesAreTrue` names both.
* Once `dropArchivedIndexRows` is done for good, a hook that captures more of an
  archived memory still puts it into the keyword index (`relisted`), and it stays
  there until the memory is revived or the index is rebuilt.
* The back-fills check their marker again in their transaction, which the comment
  at `db.ts:1118-1120` takes to be under the write lock. The transaction is
  deferred: of two first openings after an upgrade one may instead be refused
  at its first write, and that error leaves `openDatabase`.
* `normalizeAgentScopePaths` (`graph-repairs.ts:797`) gives messages of an old
  spelling of a scope to the canonical one with the sequence numbers they have,
  which a reader's cursor may already be past. (The pass is not modelled.)

## Abstractions

* Message contents, names and scopes are model values or small records; equality
  is what the code compares (a hash of the normalised request).
* A message has one delivery, as in `sendAgentMessage`.
* Time: `AgentMessageStorage` has a monotone clock of seconds;
  `AgentDelivery` counts heartbeat intervals, and delivery and registration
  timeouts may pass at any moment, since nothing in the code orders them against
  the network.
* A host process is an element of `Hosts` and lives once; a restarted host is
  another process of the same session. Heartbeats are sent only when the lease is
  not full: sending more changes nothing and multiplies states.
* `setImmediate` may be overtaken by some macrotasks, as Node allows. Sends never
  block: a write to an end that is gone is dropped.
* `recordAgentRetentionFact` has no caller and is not an action.
* Vectors: an unreadable marker, a missing `sqlite-vec`, and an index that never
  had a width are left out; a provider answers with a vector of its width or
  fails.
* Hosts: deliveries reach an adapter one at a time (`deliveryTail` in the client),
  so the ACP queue never holds two and `AcpBusyError`, abort signals and
  `cancel()` are out of reach. The companion of a Codex session holds a
  connection and nothing else.
* Memories: relations matter only as `summarizes` edges and as the verdicts of
  judged pairs; evidence and learned-from edges, tags, confidence and scores are
  left out. A title is folded into the indexed text. A deletion that is told more
  than the whole index counts of words fails in SQLite and is swallowed
  (`fts-index.ts:389`); here it takes what it can. A transaction that finds its
  snapshot too old is a step that fails. The cap of model calls, dry runs and the
  weekly throttle of compression only leave steps out. A product proposal's name
  comes from a hash, which may collide. Everything is in one project.
* `SchemaUpgrade`: the vector table exists and a rebuild's provider answers.
  A memory archived without `sqlite-vec` keeps its vector, as
  `storage/entity-index.ts` documents. The ALTER and `ensure*` statements, the
  pass over agent scopes, read-only files, a build without JSON1, and decay and
  telemetry pruning at the end of an opening are left out.

## Not modelled

The dashboard, the command line, reports, `doctor`, installation and updates make up
most of the repository's lines. They read a state, render it, or take one process
through steps that nobody else is part of; what a model of them could get
right is wording, layout and the parsing of output, which is for tests. The text
processing of memory (segmentation, titles, redaction, scoring, clustering by
similarity) appears in the models as what the writers rely on: two texts are the
same or not, a cluster is any large enough set of memories that may be compacted. Model clients are
external: they answer or fail. What has state and actors and is still missing is in
the plan.

## The plan

1. **What liveness rests on, as theorems**: for `AgentDelivery`, that an operation
   in flight or a drain always has a step that ends it, and for `RouterStartup`
   that a starter never waits on a file nobody will remove; as `EndedHostsClose`
   is for the hosts.
2. **What is left of the openings**: the ALTER chain of older schemas with two
   processes in it, and the pass over agent scopes beside `AgentMessaging`'s
   cursors.
3. **The rebuild job of the HTTP server** (`transports/http/server.ts`), which
   wraps `reindex` in one job per process, and relation back-fill and decay.

## Running it

    tlc -workers 2 -config AgentMessaging_send.cfg MCAgentMessaging
    tlapm VectorGenerationsProofs.tla
    tlapm --toolbox 2524 2535 AgentDeliveryProofs.tla

Each run takes at most two to three minutes on two cores, and so does each proof
module, but for `DreamerProofs` (five) and `AgentDeliveryProofs` (seven to twelve). `PROJECT.json` lists module and
configuration of each run, the mutants, the map from definitions to lines, the
hazards and the theorems.
