--------------------------- MODULE KnowledgeGraph ----------------------------
(* The memories of src/src/knowledge-graph.ts and the keyword index beside   *)
(* them (src/src/storage/fts-index.ts), as every process that opens the      *)
(* database writes them: remember, forget, the memory tool, import, the      *)
(* weekly compression and the capture hooks.                                 *)
(*                                                                           *)
(* SQLite serialises transactions, so a transaction is a step. What a writer *)
(* reads before its transaction, or between two statements outside one, is   *)
(* kept in its job and may be stale when it is used; the process may die     *)
(* between any two steps. entities_fts is contentless: a deletion is told    *)
(* what to unindex, and takes those words from the row in whatever column    *)
(* they stand and whatever else holds them, so each row has the words that   *)
(* find it. A title is indexed with the text and is not told apart.          *)
EXTENDS Naturals, FiniteSets

CONSTANTS
    Memory,          \* entity ids: AUTOINCREMENT, so none is used twice
    Name,            \* entities.name, unique among the stored
    Text,            \* observations
    Term,            \* the words of the tokenizer
    Terms,           \* those of a name or an observation, which may share some
    Proposal,        \* ids of dream_proposals
    Caller,          \* processes, or requests of one that awaits a model
    Summary,         \* the name of the summary of a week
    NoiseThreshold,  \* NOISE_THRESHOLD
    Kind,            \* the operations a budget may allow
    None

Words(texts) == {t \in Term : \E x \in texts : t \in Terms[x]}
Entry(n, texts) == Terms[n] \cup Words(texts)
Type == {"commit", "note", "lesson_learned", "digest"}

(* What the model tells apart in entities.metadata: the pin, the digest a    *)
(* memory was compacted into, the proposal it was made from and the one its  *)
(* guard was accepted from.                                                  *)
Metadata == [pin : BOOLEAN, compacted_into : Memory \cup {None},
             proposal_id : Proposal \cup {None}, guard : Proposal \cup {None}]
Plain == [pin |-> FALSE, compacted_into |-> None, proposal_id |-> None, guard |-> None]
Links(meta) == [meta EXCEPT !.pin = FALSE]

(* A row of entities with its observations, and of entities_fts              *)
Row == [status : {"new", "active", "archived", "deleted"}, name : Name \cup {None},
        type : Type, texts : SUBSET Text, metadata : Metadata,
        listed : BOOLEAN, terms : SUBSET Term]
NoRow == [status |-> "new", name |-> None, type |-> "note", texts |-> {},
          metadata |-> Plain, listed |-> FALSE, terms |-> {}]

Idle == [op |-> "idle"]
GraphJob ==
    {Idle}
    \cup [op : {"remove"}, at : {"delete", "unindex", "read", "insert"},
          id : Memory, name : Name, text : Text, prev : SUBSET Text, now : SUBSET Text]
    \cup [op : {"archive", "delete"}, id : Memory, name : Name]
    \cup [op : {"rename"}, id : Memory, name : Name, to : Name,
          texts : SUBSET Text, status : {"active", "archived"}]
    \cup [op : {"clear"}, id : Memory, name : Name, prev : SUBSET Text, texts : SUBSET Text,
          type : Type, meta : Metadata]
    \cup [op : {"refill"}, name : Name, texts : SUBSET Text, type : Type, meta : Metadata,
          known : BOOLEAN, archived : BOOLEAN]
    \cup [op : {"rewrite"}, name : Name, type : Type, texts : SUBSET Text]
    \cup [op : {"remembered"}, name : Name, meta : Metadata, old : Name \cup {None}]
    \cup [op : {"stamp"}, name : Name, read : Metadata, write : Metadata,
          old : Name \cup {None}]
    \cup [op : {"compress", "retire"}, batch : SUBSET Memory, names : [Memory -> Name \cup {None}]]

VARIABLES
    memory,     \* [Memory -> Row]
    job,        \* what each caller is in the middle of, with what it read
    drifted,    \* history: memories whose index entry a race or a crash spoilt
    torn,       \* history: memories that may be missing words in the index
    clobbered,  \* history: memories whose metadata was put back to a stale copy,
                \* or has the ids of another database from an imported bundle
    left        \* bound: how many calls and crashes are left, of which kinds,
                \* and what their callers say

graph == <<memory, job, drifted, torn, clobbered, left>>

Stored(m) == memory[m].status \in {"active", "archived"}
Active == {m \in Memory : memory[m].status = "active"}
Named(rows, n) ==
    {m \in Memory : rows[m].status \in {"active", "archived"} /\ rows[m].name = n}
Unused(rows) == {m \in Memory : rows[m].status = "new"}
Fresh(rows) == CHOOSE m \in Unused(rows) : \A k \in Unused(rows) : m <= k
(* Bound: there is room for a memory of this name                            *)
Room(rows, n) == Named(rows, n) # {} \/ Unused(rows) # {}

(* removeFromFts and insertFtsRow, for the row of one memory                 *)
Unindex(r, n, texts) ==
    IF r.listed THEN [r EXCEPT !.listed = FALSE, !.terms = @ \ Entry(n, texts)] ELSE r
Index(r, n, texts) == [r EXCEPT !.listed = TRUE, !.terms = @ \cup Entry(n, texts)]
Reindex(r, n, before, after) == Index(Unindex(r, n, before), n, after)
(* A memory that is active loses words it has by now, unknown to a writer    *)
(* that takes those of out away and puts those of in back                    *)
Robbed(m, said, out, in) ==
    IF memory[m].status = "active" /\ ~(said \cap out \subseteq in) THEN {m} ELSE {}

(* createEntity: a new row, or the stored one of that name, back from the    *)
(* archive if need be, with what it is told added                            *)
Made(r, n, type, texts, meta) ==
    Index([r EXCEPT !.status = "active", !.name = n, !.type = type, !.texts = texts,
                    !.metadata = meta], n, texts)
(* Mutant: what is told is indexed, what was known is not                    *)
ToldAlone(r, n, texts) ==
    Reindex([r EXCEPT !.status = "active", !.texts = @ \cup texts], n, r.texts, texts)
Told(r, n, texts) ==
    Reindex([r EXCEPT !.status = "active", !.texts = @ \cup texts], n, r.texts, r.texts \cup texts)
Owner(rows, n) ==
    IF Named(rows, n) = {} THEN Fresh(rows) ELSE CHOOSE m \in Named(rows, n) : TRUE
Create(rows, n, type, texts, meta) ==
    [rows EXCEPT ![Owner(rows, n)] =
        IF Named(rows, n) = {} THEN Made(@, n, type, texts, meta) ELSE Told(@, n, texts)]

(* Mutant: the status alone                                                  *)
Shelve(r, n) == [r EXCEPT !.status = IF @ = "deleted" THEN @ ELSE "archived"]
(* dropEntityFromIndexes and the status                                      *)
Archive(r, n) ==
    [Unindex(r, n, r.texts) EXCEPT !.status = IF @ = "deleted" THEN @ ELSE "archived"]
Delete(r, n) == [Unindex(r, n, r.texts) EXCEPT !.status = "deleted", !.texts = {}]
Clear(r, n, before) == [Reindex(r, n, before, {}) EXCEPT !.texts = {}]

(* The removal of an observation that is under way, its row gone             *)
Removing(m) ==
    \E c \in Caller : job[c].op = "remove" /\ job[c].id = m /\ job[c].at # "delete"
Disturbed(rows) == {m \in Memory : Removing(m) /\ rows[m] # memory[m]}

(* What a caller may hand over                                               *)
Input == [name : Name, type : Type, texts : SUBSET Text, meta : Metadata]
Names == {e.name : e \in left.inputs}
Left == [calls : Nat, crashes : Nat, kinds : SUBSET Kind, inputs : SUBSET Input]

(* One transaction, after which the memories in stale are not to be trusted  *)
Commit(rows, stale) ==
    /\ memory' = rows
    /\ drifted' = drifted \cup stale \cup Disturbed(rows)
Becomes(c, j) == job' = [job EXCEPT ![c] = j]
Begin(c, kind, j) ==
    /\ job[c] = Idle
    /\ left.calls > 0 /\ kind \in left.kinds
    /\ left' = [left EXCEPT !.calls = @ - 1]
    /\ Becomes(c, j)
Reads == UNCHANGED <<memory, drifted, torn, clobbered>>

-----------------------------------------------------------------------------
(* remember: the memory, its metadata and the archiving of what it replaces  *)
(* are three transactions, with a read before the second                     *)
Remembered(n, meta, old) == [op |-> "remembered", name |-> n, meta |-> meta, old |-> old]
Remember(c) ==
    \E e \in left.inputs, old \in Names \cup {None} :
        /\ Room(memory, e.name)
        /\ old # None => "supersede" \in left.kinds
        /\ Begin(c, "remember", Remembered(e.name, Plain, old))
        /\ Commit(Create(memory, e.name, e.type, e.texts, Plain), {})
        /\ UNCHANGED <<torn, clobbered>>

(* updateEntityMetadata: what the caller keeps of the metadata, and changes, *)
(* is what it read                                                           *)
Merge(meta, over) ==
    [field \in DOMAIN Plain |->
        IF over[field] = Plain[field] THEN meta[field] ELSE over[field]]
Stamp(n, meta, change, old) ==
    [op |-> "stamp", name |-> n, read |-> meta, write |-> change, old |-> old]
ReadMetadata(c) ==
    /\ job[c].op = "remembered"
    /\ Becomes(c, IF Named(memory, job[c].name) = {} THEN Idle
                  ELSE LET meta == memory[Owner(memory, job[c].name)].metadata
                       IN Stamp(job[c].name, meta, Merge(meta, job[c].meta), job[c].old))
    /\ Reads /\ UNCHANGED left
SetPinned(c) ==
    \E m \in Memory, pinned \in BOOLEAN :
        /\ Stored(m)
        /\ Begin(c, "pin", Stamp(memory[m].name, memory[m].metadata,
                                 [memory[m].metadata EXCEPT !.pin = pinned], None))
        /\ Reads
(* A memory that the new one supersedes is archived next                     *)
Replaces(old) ==
    IF old = None \/ Named(memory, old) = {} THEN Idle
    ELSE [op |-> "archive", id |-> Owner(memory, old), name |-> old]
WriteMetadata(c) ==
    /\ job[c].op = "stamp"
    /\ LET found == Named(memory, job[c].name)
       IN /\ memory' = [m \in Memory |->
                          IF m \in found THEN [memory[m] EXCEPT !.metadata = job[c].write]
                          ELSE memory[m]]
          /\ clobbered' = clobbered \cup
                {m \in found : \/ memory[m].metadata # job[c].read
                               \/ Links(job[c].write) # Links(job[c].read)}
    /\ Becomes(c, Replaces(job[c].old))
    /\ UNCHANGED <<drifted, torn, left>>

(* captureEntity of the hooks: the one writer that leaves an archived memory *)
(* archived, and indexes it all the same                                     *)
Capture(c) ==
    \E e \in left.inputs :
        /\ Room(memory, e.name)
        /\ Begin(c, "capture", Idle)
        /\ LET m == Owner(memory, e.name)
               kept == [Told(memory[m], e.name, e.texts) EXCEPT !.status = memory[m].status]
           IN Commit([memory EXCEPT ![m] =
                         IF Stored(m) THEN kept
                         ELSE Made(@, e.name, e.type, e.texts, Plain)],
                     {m} \ (Active \cup Unused(memory)))
        /\ UNCHANGED <<torn, clobbered>>

(* removeObservation: no transaction. The row and what is indexed are read,  *)
(* the observation deleted, the entry taken out, the text read again and the *)
(* entry put back.                                                           *)
RemoveObservation(c) ==
    \E m \in Memory, text \in Text :
        /\ Stored(m)
        /\ Begin(c, "remove", [op |-> "remove", at |-> "delete", id |-> m, name |-> memory[m].name,
                               text |-> text, prev |-> memory[m].texts, now |-> {}])
        /\ Reads
DeleteObservation(c) ==
    /\ job[c].op = "remove" /\ job[c].at = "delete"
    /\ LET j == job[c]  r == memory[j.id]
           stale == r.status # "active" \/ r.name # j.name \/ r.texts # j.prev
       IN IF j.text \in r.texts
            THEN /\ Commit([memory EXCEPT ![j.id].texts = @ \ {j.text}],
                           IF stale THEN {j.id} ELSE {})
                 /\ Becomes(c, [j EXCEPT !.at = "unindex"])
            ELSE Becomes(c, Idle) /\ UNCHANGED <<memory, drifted>>
    /\ UNCHANGED <<torn, clobbered, left>>
RemovalStep(c, from, rows, to) ==
    /\ job[c].op = "remove" /\ job[c].at = from
    /\ memory' = rows
    /\ Becomes(c, to)
    /\ UNCHANGED <<drifted, clobbered, left>>
UnindexRemoved(c) ==
    /\ RemovalStep(c, "unindex",
                   [memory EXCEPT ![job[c].id] = Unindex(@, job[c].name, job[c].prev)],
                   [job[c] EXCEPT !.at = "read"])
    /\ LET j == job[c]
       IN torn' = torn \cup Robbed(j.id, Terms[memory[j.id].name], Words(j.prev), Terms[j.name])
ReadRemaining(c) ==
    /\ RemovalStep(c, "read", memory,
                   [job[c] EXCEPT !.at = "insert", !.now = memory[job[c].id].texts])
    /\ UNCHANGED torn
IndexRemaining(c) ==
    /\ RemovalStep(c, "insert",
                   [memory EXCEPT ![job[c].id] = Index(@, job[c].name, job[c].now)], Idle)
    /\ UNCHANGED torn

(* archiveEntity and deleteEntity: the row of a name, then a transaction     *)
ForgetByName(c) ==
    \E m \in Memory, op \in {"archive", "delete"} :
        /\ Stored(m)
        /\ Begin(c, op, [op |-> op, id |-> m, name |-> memory[m].name])
        /\ Reads
Misnamed(j) == IF memory[j.id].name # j.name THEN {j.id} ELSE {}
ArchiveEntity(c) ==
    /\ job[c].op = "archive"
    /\ Commit([memory EXCEPT ![job[c].id] = Archive(@, job[c].name)], Misnamed(job[c]))
    /\ Becomes(c, Idle)
    /\ UNCHANGED <<torn, clobbered, left>>
DeleteEntity(c) ==
    /\ job[c].op = "delete"
    /\ Commit([memory EXCEPT ![job[c].id] = Delete(@, job[c].name)], Misnamed(job[c]))
    /\ Becomes(c, Idle)
    /\ UNCHANGED <<torn, clobbered, left>>

(* renamePath of the memory tool: name, text and status are read before the  *)
(* transaction, which fails when the new name was taken meanwhile            *)
BeginRename(c) ==
    \E m \in Memory, to \in Names :
        /\ Stored(m) /\ Named(memory, to) = {}
        /\ Begin(c, "rename", [op |-> "rename", id |-> m, name |-> memory[m].name, to |-> to,
                               texts |-> memory[m].texts, status |-> memory[m].status])
        /\ Reads
Renamed(r, j) ==
    LET out == [Unindex(r, j.name, j.texts) EXCEPT !.name = IF r.status = "deleted" THEN @ ELSE j.to]
    IN IF j.status = "archived" THEN out ELSE Index(out, j.to, j.texts)
RenamePath(c) ==
    /\ job[c].op = "rename"
    /\ LET j == job[c]  r == memory[j.id]
       IN IF Named(memory, j.to) \ {j.id} = {}
            THEN /\ Commit([memory EXCEPT ![j.id] = Renamed(@, j)],
                           IF <<r.name, r.texts, r.status>> # <<j.name, j.texts, j.status>>
                             THEN {j.id} ELSE {})
                 /\ torn' = IF j.status = "archived" /\ r.status = "active"
                              THEN torn \cup {j.id}
                            ELSE torn \cup Robbed(j.id, Words(r.texts \ j.texts), Terms[j.name],
                                                  Entry(j.to, j.texts))
            ELSE UNCHANGED <<memory, drifted, torn>>
    /\ Becomes(c, Idle)
    /\ UNCHANGED <<clobbered, left>>

(* importMemories, merge "overwrite" or "append": the metadata of the bundle, *)
(* over what it read, is for the end; clearEntityData with the text it read  *)
(* before its transaction, createEntity in another, and the metadata. A new  *)
(* memory that is archived in the bundle is archived next.                   *)
BeginImport(c) ==
    \E e \in left.inputs, overwrite \in BOOLEAN, archived \in BOOLEAN :
        LET found == Named(memory, e.name)
            m == Owner(memory, e.name)
            refill == [op |-> "refill", name |-> e.name, texts |-> e.texts, type |-> e.type,
                       meta |-> IF found = {} THEN e.meta ELSE Merge(memory[m].metadata, e.meta),
                       known |-> found # {}, archived |-> archived]
        IN /\ found # {} => ~archived
           /\ Begin(c, "import",
                    IF overwrite /\ found # {}
                      THEN [op |-> "clear", id |-> m, name |-> e.name, prev |-> memory[m].texts,
                            texts |-> e.texts, type |-> e.type, meta |-> refill.meta]
                    ELSE refill)
           /\ Reads
ClearEntityData(c) ==
    /\ job[c].op = "clear"
    /\ LET j == job[c]  r == memory[j.id]
       IN /\ Commit([memory EXCEPT ![j.id] = Clear(@, j.name, j.prev)],
                    IF r.status = "active" /\ r.name = j.name /\ r.texts = j.prev
                      THEN {} ELSE {j.id})
          /\ torn' = torn \cup Robbed(j.id, Terms[r.name], Words(j.prev), Terms[j.name])
          /\ Becomes(c, [op |-> "refill", name |-> j.name, texts |-> j.texts, type |-> j.type,
                         meta |-> j.meta, known |-> TRUE, archived |-> FALSE])
    /\ UNCHANGED <<clobbered, left>>
Refill(c) ==
    /\ job[c].op = "refill"
    /\ LET j == job[c]
       IN /\ Room(memory, j.name)
          /\ Commit(Create(memory, j.name, j.type, j.texts, j.meta), {})
          /\ clobbered' = IF Named(memory, j.name) = {} /\ Links(j.meta) # Plain
                            THEN clobbered \cup {Owner(memory, j.name)} ELSE clobbered
          /\ Becomes(c, IF j.known THEN Remembered(j.name, j.meta, None)
                        ELSE IF j.archived
                          THEN [op |-> "archive", id |-> Owner(memory, j.name), name |-> j.name]
                        ELSE Idle)
    /\ UNCHANGED <<torn, left>>

(* rewriteObservations of the memory tool: the new text is made of the old   *)
(* one, read before; the transaction itself reads afresh                     *)
BeginRewrite(c) ==
    \E m \in Memory, out \in SUBSET Text, in \in SUBSET Text :
        /\ Stored(m) /\ Cardinality(out) + Cardinality(in) = 1
        /\ Begin(c, "rewrite", [op |-> "rewrite", name |-> memory[m].name, type |-> memory[m].type,
                                texts |-> (memory[m].texts \ out) \cup in])
        /\ Reads
RewriteObservations(c) ==
    /\ job[c].op = "rewrite"
    /\ Room(memory, job[c].name)
    /\ LET j == job[c]
           cleared == [m \in Memory |->
                         IF m \in Named(memory, j.name) THEN Clear(memory[m], j.name, memory[m].texts)
                         ELSE memory[m]]
       IN Commit(Create(cleared, j.name, j.type, j.texts, Plain),
                 {})
    /\ Becomes(c, Idle)
    /\ UNCHANGED <<torn, clobbered, left>>

(* compressWeeklyNoise: a week's memories are listed, whatever their pin,    *)
(* summarised, and archived under the names they had                         *)
BeginCompress(c) ==
    \E batch \in SUBSET {m \in Active : memory[m].type = "commit"} :
        /\ Cardinality(batch) >= NoiseThreshold
        /\ Begin(c, "compress", [op |-> "compress", batch |-> batch,
                                 names |-> [m \in Memory |-> IF m \in batch THEN memory[m].name
                                                             ELSE None]])
        /\ Reads
Summarise(c) ==
    /\ job[c].op = "compress"
    /\ Room(memory, Summary)
    /\ Commit(Create(memory, Summary, "note", {}, Plain), {})
    /\ Becomes(c, [job[c] EXCEPT !.op = "retire"])
    /\ UNCHANGED <<torn, clobbered, left>>
ArchiveBatch(c) ==
    /\ job[c].op = "retire"
    /\ LET j == job[c]
       IN Commit([m \in Memory |-> IF m \in j.batch THEN Archive(memory[m], j.names[m])
                                   ELSE memory[m]],
                 {m \in j.batch : memory[m].name # j.names[m]})
    /\ Becomes(c, Idle)
    /\ UNCHANGED <<torn, clobbered, left>>

(* rebuildFtsIndex, in a transaction: the repair                             *)
Rebuilt(r) ==
    LET bare == [r EXCEPT !.listed = FALSE, !.terms = {}]
    IN IF r.status = "active" THEN Index(bare, r.name, r.texts) ELSE bare
RebuildIndex(c) ==
    /\ Begin(c, "rebuild", Idle)
    /\ memory' = [m \in Memory |-> Rebuilt(memory[m])]
    /\ drifted' = {m \in Memory : Removing(m)}
    /\ torn' = {}
    /\ UNCHANGED clobbered

(* A process dies, or a statement fails. In the middle of a removal the      *)
(* entry of the memory is what the statements before it left.                *)
Crash(c) ==
    /\ job[c] # Idle
    /\ left.crashes > 0
    /\ left' = [left EXCEPT !.crashes = @ - 1]
    /\ LET half == {m \in Memory : job[c].op = "remove" /\ job[c].id = m /\ job[c].at # "delete"}
       IN drifted' = drifted \cup half /\ torn' = torn \cup half
    /\ Becomes(c, Idle)
    /\ UNCHANGED <<memory, clobbered>>

GraphStep ==
    \E c \in Caller :
        \/ Remember(c) \/ ReadMetadata(c) \/ WriteMetadata(c) \/ SetPinned(c) \/ Capture(c)
        \/ RemoveObservation(c) \/ DeleteObservation(c) \/ UnindexRemoved(c)
        \/ ReadRemaining(c) \/ IndexRemaining(c)
        \/ ForgetByName(c) \/ ArchiveEntity(c) \/ DeleteEntity(c)
        \/ BeginRename(c) \/ RenamePath(c)
        \/ BeginImport(c) \/ ClearEntityData(c) \/ Refill(c)
        \/ BeginRewrite(c) \/ RewriteObservations(c)
        \/ BeginCompress(c) \/ Summarise(c) \/ ArchiveBatch(c)
        \/ RebuildIndex(c) \/ Crash(c)
-----------------------------------------------------------------------------
(* The index holds exactly the words of the name and the text of each active *)
(* memory and nothing of the others, unless two writers of that memory       *)
(* overlapped, one that works outside a transaction died halfway, or a       *)
(* removal or a capture hit an archived memory (knowledge-graph.ts:1149,     *)
(* _shared.js:706).                                                          *)
Says(r) == IF r.status = "active" THEN Entry(r.name, r.texts) ELSE {}
IndexIsExact ==
    \A m \in Memory : m \notin drifted /\ ~Removing(m) =>
        /\ memory[m].terms = Says(memory[m])
        /\ memory[m].listed <=> memory[m].status = "active"

(* However its writers overlap, an active memory is found by every word of   *)
(* its name and its text, but for four ways to lose one: a removal that died *)
(* halfway; a rename that took a memory for one still archived               *)
(* (memory-tool.ts:673), or took the words of the old name from a text that  *)
(* was added meanwhile and holds one too (:670); a removal or an overwriting *)
(* import that took those of the old text from a new name                    *)
(* (knowledge-graph.ts:1177, 1100).                                          *)
ActiveIsFound ==
    \A m \in Active : m \notin torn /\ ~Removing(m) => Says(memory[m]) \subseteq memory[m].terms
=============================================================================
