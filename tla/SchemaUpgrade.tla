---------------------------- MODULE SchemaUpgrade ----------------------------
(* Opening a database that an earlier release wrote: the one-time passes of  *)
(* migrateToCurrentSchema (src/src/db.ts), runOnceMigration                  *)
(* (src/src/storage/schema.ts) and the repairs of                            *)
(* src/src/storage/graph-repairs.ts, run by every process that opens the     *)
(* file while others read, write and archive, and while a process of the     *)
(* earlier release may still be running.                                     *)
(*                                                                           *)
(* A repair runs in an immediate transaction, which is a step. A back-fill   *)
(* runs in a deferred one: its first statement reads a snapshot, and SQLite  *)
(* refuses the first write (SQLITE_BUSY_SNAPSHOT) when somebody committed    *)
(* since. A memory is told apart by the repairs it needs and can be given,   *)
(* and by what the two indexes hold of it. The vector table and its width    *)
(* exist, the file can be written, every active memory has text, and an      *)
(* embedding provider answers. The pass over message scopes and the          *)
(* statements that add columns and tables are left out; the races inside one *)
(* call of a writer are KnowledgeGraph's, failing rebuilds                   *)
(* VectorGenerations'.                                                       *)
EXTENDS Integers, Sequences, FiniteSets

CONSTANTS
    Entity,    \* entity ids
    Process,   \* processes of this release
    Hooks,     \* those that open through migrateHookDbToCurrent
    VecHosts,  \* those in which sqlite-vec loads
    Careless,  \* the flaws of what a running earlier release still writes
    Legacy     \* bound: databases that earlier releases leave, and how many
               \* writes, writes of an earlier release, and mishaps follow

Backfill == {"unscored", "untitled", "untrusted"}
Repair == {"repeats", "claims", "fused", "hits"}
IndexPass == {"segmented", "archived_fts", "archived_vec"}
Flaw == Backfill \cup Repair
Pass == Flaw \cup IndexPass

(* migrateToCurrentSchema, up to the pass that asks hasVectorIndex           *)
KeywordPasses ==
    <<"unscored", "untitled", "untrusted", "repeats", "claims", "fused", "hits",
      "segmented", "archived_fts">>

(* Mutant: the vectors of the archive are dropped first                      *)
DropsFirst(p) ==
    IF p \in Hooks THEN <<"segmented">>
    ELSE IF p \in VecHosts THEN <<"archived_vec">> \o KeywordPasses
    ELSE KeywordPasses

(* migrateToCurrentSchema and migrateHookDbToCurrent, in their order         *)
PassesOf(p) ==
    IF p \in Hooks THEN <<"segmented">>
    ELSE IF p \in VecHosts THEN Append(KeywordPasses, "archived_vec")
    ELSE KeywordPasses

(* Terms of entities_fts: an unspaced run is one term in an index an earlier *)
(* release wrote and overlapping pairs in this one's                         *)
Term == {"run", "pairs", "title"}
Row == [status : {"new", "active", "archived"}, flaws : SUBSET Flaw,
        titled : BOOLEAN, listed : BOOLEAN, terms : SUBSET Term, vector : BOOLEAN]
Event == {"write", "older", "mishap"}
Database == [row : [Entity -> Row], stamped : SUBSET Pass, left : [Event -> Nat]]

ASSUME ProcessAssumption == Hooks \subseteq Process /\ VecHosts \subseteq Process
ASSUME LegacyAssumption ==
    Careless \subseteq Flaw \ {"hits"} /\ Legacy \subseteq Database

VARIABLES
    row,      \* entities, with their rows of entities_fts and entities_vec
    stamped,  \* memesh_metadata: the passes whose marker is set
    attempt,  \* <key>_last_attempt: "none", "recent" or "past" the back-off
    owed,     \* pending_reindex
    opening,  \* how far each process is with opening the file
    drifted,  \* history: memories whose keyword entry this release never wrote,
              \* or an earlier one has written since
    relisted, \* history: archived memories that a hook has indexed
    deferred, \* history: the split of lesson buckets has been put off
    kept,     \* history: why an archived memory may still have its vector
    waived,   \* history: a scoped rebuild has withdrawn the notice
    left      \* what is left of the bounds

data == <<row, stamped, owed, drifted, relisted, kept, waived>>
tries == <<attempt, deferred>>
vars == <<row, stamped, attempt, owed, opening, drifted, relisted, deferred, kept,
          waived, left>>

Closed == [pc |-> "closed", at |-> 0, seen |-> {}, stale |-> FALSE]
Opened == [Closed EXCEPT !.pc = "open"]

-----------------------------------------------------------------------------
(* The indexes *)

(* What insertFtsRow writes for a memory, its title folded in                *)
Entry(r) == {"pairs"} \cup (IF r.titled THEN {"title"} ELSE {})
Exact(r) ==
    IF r.status = "active" THEN r.listed /\ r.terms = Entry(r)
                           ELSE ~r.listed /\ r.terms = {}

(* removeFromFts: nothing for a row that is not listed; terms the row never  *)
(* had may make SQLite refuse, which is only logged                          *)
Unindexed(r) ==
    IF ~r.listed THEN {r}
    ELSE {[r EXCEPT !.listed = FALSE, !.terms = @ \ Entry(r)]}
         \cup (IF Entry(r) \subseteq r.terms THEN {} ELSE {r})
Indexed(r) == [r EXCEPT !.listed = TRUE, !.terms = @ \cup Entry(r)]

(* rebuildFtsIndex                                                           *)
Rebuilt(r) ==
    [r EXCEPT !.listed = (r.status = "active"),
              !.terms = IF r.status = "active" THEN Entry(r) ELSE {}]
RebuildAll(rows) == [e \in Entity |-> Rebuilt(rows[e])]

Inexact(rows) == {e \in Entity : ~Exact(rows[e])}
Having(rows, f) == {e \in Entity : f \in rows[e].flaws}
Archived(rows) == {e \in Entity : rows[e].status = "archived"}
Active == {e \in Entity : row[e].status = "active"}

Init ==
    \E db \in Legacy :
        /\ row = db.row
        /\ stamped = db.stamped
        /\ attempt = [k \in Pass |-> "none"]
        /\ owed = FALSE
        /\ opening = [p \in Process |-> Closed]
        /\ drifted = Inexact(db.row)
        /\ relisted = {}
        /\ deferred = ("archived_vec" \in db.stamped /\ "fused" \notin db.stamped)
        /\ kept = [e \in Entity |->
               IF "archived_vec" \in db.stamped /\ e \in Archived(db.row)
               THEN "elsewhere" ELSE "no"]
        /\ waived = FALSE
        /\ left = db.left

Spend(event) ==
    /\ left[event] > 0
    /\ left' = [left EXCEPT ![event] = @ - 1]

-----------------------------------------------------------------------------
(* openDatabase, one pass after the other *)

CurrentPass(p) == PassesOf(p)[opening[p].at]
Advanced(p) ==
    IF opening[p].at = Len(PassesOf(p)) THEN Opened
    ELSE [Closed EXCEPT !.pc = "checking", !.at = opening[p].at + 1]
Step(p, next) == opening' = [opening EXCEPT ![p] = next]

(* A commit makes stale what everybody else has read                         *)
Staled(o) == [o EXCEPT !.stale = (o.pc = "read")]
Commit(p, next) ==
    opening' = [q \in Process |-> IF q = p THEN next ELSE Staled(opening[q])]

Open(p) ==
    /\ opening[p].pc = "closed"
    /\ Step(p, [Closed EXCEPT !.pc = "checking", !.at = 1])
    /\ UNCHANGED <<data, tries, left>>

(* A short-lived process ends, a server is stopped                           *)
Close(p) ==
    /\ opening[p].pc = "open"
    /\ Step(p, Closed)
    /\ UNCHANGED <<data, tries, left>>

(* Mutant: a failed attempt is never repeated                                *)
GivesUp(k) == k \notin Backfill /\ attempt[k] # "none"

(* The marker, and for a repair the last attempt, read without a lock        *)
BacksOff(k) == k \notin Backfill /\ attempt[k] = "recent"
Check(p) ==
    /\ opening[p].pc = "checking"
    /\ LET k == CurrentPass(p)
       IN Step(p, IF k \in stamped \/ BacksOff(k) THEN Advanced(p)
                  ELSE [opening[p] EXCEPT !.pc = "due"])
    /\ UNCHANGED <<data, tries, left>>

(* BEGIN of a back-fill: the marker again, then the work list                *)
Snapshot(p) ==
    /\ opening[p].pc = "due"
    /\ LET k == CurrentPass(p)
       IN /\ k \in Backfill
          /\ Step(p, IF k \in stamped THEN Advanced(p)
                     ELSE [opening[p] EXCEPT !.pc = "read", !.seen = Having(row, k)])
    /\ UNCHANGED <<data, tries, left>>

(* Mutant: the entry is left without the title                               *)
TitledOnly(r) == {[r EXCEPT !.titled = TRUE, !.flaws = @ \ {"untitled"}]}

(* A title given, and the entry of an active memory written again            *)
Titled(r) ==
    LET given(u) == [u EXCEPT !.titled = TRUE, !.flaws = @ \ {"untitled"}]
    IN IF r.status = "active" THEN {Indexed(given(u)) : u \in Unindexed(r)}
                              ELSE {given(r)}
Filled(r, k) ==
    IF k = "untitled" THEN Titled(r) ELSE {[r EXCEPT !.flaws = @ \ {k}]}

(* Mutant: the work list is read before the transaction begins               *)
FillLate(p) ==
    /\ opening[p].pc = "read"
    /\ LET k == CurrentPass(p)
       IN /\ row' \in [Entity -> UNION {Filled(row[e], k) \cup {row[e]} : e \in Entity}]
          /\ \A e \in Entity :
                 IF e \in opening[p].seen THEN row'[e] \in Filled(row[e], k)
                                          ELSE row'[e] = row[e]
          /\ stamped' = stamped \cup {k}
    /\ Commit(p, Advanced(p))
    /\ UNCHANGED <<tries, owed, drifted, relisted, kept, waived, left>>

(* The updates and the marker, on a snapshot that is still the newest        *)
Fill(p) ==
    /\ opening[p].pc = "read" /\ ~opening[p].stale
    /\ LET k == CurrentPass(p)
       IN /\ row' \in [Entity -> UNION {Filled(row[e], k) \cup {row[e]} : e \in Entity}]
          /\ \A e \in Entity :
                 IF e \in opening[p].seen THEN row'[e] \in Filled(row[e], k)
                                          ELSE row'[e] = row[e]
          /\ stamped' = stamped \cup {k}
    /\ Commit(p, Advanced(p))
    /\ UNCHANGED <<tries, owed, drifted, relisted, kept, waived, left>>

(* SQLITE_BUSY_SNAPSHOT: the error leaves openDatabase                       *)
Refused(p) ==
    /\ opening[p].pc = "read" /\ opening[p].stale
    /\ Step(p, Closed)
    /\ UNCHANGED <<data, tries, left>>

-----------------------------------------------------------------------------
(* What each repair does, in its immediate transaction *)

(* dedupeObservations, retractZeroEditClaims: the index is rebuilt when      *)
(* anything changed                                                          *)
Mend(k) ==
    /\ LET mended == [e \in Entity |-> [row[e] EXCEPT !.flaws = @ \ {k}]]
       IN IF Having(row, k) = {} THEN UNCHANGED <<row, drifted, relisted>>
          ELSE row' = RebuildAll(mended) /\ drifted' = {} /\ relisted' = {}
    /\ UNCHANGED <<owed, kept, waived>>

(* splitFusedLessons: the lessons of a bucket move to memories of their own, *)
(* made, revived or added to; the emptied buckets are archived, their recall *)
(* history retired, and their vectors left to the pass over the archive,     *)
(* which is done already only if the split was put off                       *)
Shell(r) == [r EXCEPT !.status = "archived", !.flaws = @ \ {"fused", "hits"}]
Lesson(r, titled) ==
    [r EXCEPT !.status = "active", !.flaws = @ \ {"hits"},
              !.titled = IF r.status = "new" THEN titled ELSE @]
Late == deferred /\ "archived_vec" \in stamped
Emptied(emptied, to, titled) ==
    LET fused == Having(row, "fused")
    IN /\ to # {}
       /\ row' = RebuildAll([e \in Entity |->
              IF e \in emptied THEN Shell(row[e])
              ELSE IF e \in fused THEN [row[e] EXCEPT !.flaws = @ \ {"fused"}]
              ELSE IF e \in to THEN Lesson(row[e], titled)
              ELSE row[e]])
       /\ owed' = TRUE
       /\ drifted' = {} /\ relisted' = {}
       /\ kept' = [e \in Entity |->
              IF e \in emptied /\ kept[e] = "no" /\ Late THEN "split"
              ELSE IF e \in to THEN "no" ELSE kept[e]]
       /\ waived' = FALSE
SplitLessons ==
    \/ Having(row, "fused") = {}
       /\ UNCHANGED <<row, owed, drifted, relisted, kept, waived>>
    \/ \E emptied \in SUBSET Having(row, "fused"),
          to \in SUBSET (Entity \ Having(row, "fused")), titled \in BOOLEAN :
          Having(row, "fused") # {} /\ Emptied(emptied, to, titled)

(* repairFusedLessonShellHistory: shells that an earlier split left          *)
RetireHistory ==
    /\ row' = [e \in Entity |-> [row[e] EXCEPT !.flaws = @ \ {"hits"}]]
    /\ UNCHANGED <<owed, drifted, relisted, kept, waived>>

(* ensureFtsSegmentation, and the keyword half of dropArchivedIndexRows      *)
Rebuild ==
    /\ row' = RebuildAll(row)
    /\ drifted' = {} /\ relisted' = {}
    /\ UNCHANGED <<owed, kept, waived>>

(* The vector half                                                           *)
DropVectors ==
    /\ row' = [e \in Entity |->
           IF row[e].status = "archived" THEN [row[e] EXCEPT !.vector = FALSE] ELSE row[e]]
    /\ UNCHANGED <<owed, drifted, relisted, kept, waived>>

Migrate(k) ==
    \/ k \in {"repeats", "claims"} /\ Mend(k)
    \/ k = "fused" /\ SplitLessons
    \/ k = "hits" /\ RetireHistory
    \/ k \in {"segmented", "archived_fts"} /\ Rebuild
    \/ k = "archived_vec" /\ DropVectors

(* runOnceMigration: under the write lock the marker is read again           *)
RunOnce(p) ==
    /\ opening[p].pc = "due"
    /\ CurrentPass(p) \notin Backfill
    /\ CurrentPass(p) \notin stamped
    /\ Migrate(CurrentPass(p))
    /\ stamped' = stamped \cup {CurrentPass(p)}
    /\ attempt' = [attempt EXCEPT ![CurrentPass(p)] = "none"]
    /\ Commit(p, Advanced(p))
    /\ UNCHANGED <<deferred, left>>

Raced(p) ==
    /\ opening[p].pc = "due"
    /\ CurrentPass(p) \in stamped \ Backfill
    /\ Step(p, Advanced(p))
    /\ UNCHANGED <<data, tries, left>>

-----------------------------------------------------------------------------
(* What goes wrong *)

(* The write lock is wanted at the start of a repair and at the first update *)
(* of a back-fill                                                            *)
Writes(p) ==
    \/ opening[p].pc = "read"
    \/ opening[p].pc = "due" /\ CurrentPass(p) \notin Backfill

PutOff(p) == deferred' = (deferred \/ CurrentPass(p) = "fused")

(* isTransientDbError: another process has held the lock for too long. A     *)
(* repair is left to the next open; a back-fill's error leaves openDatabase. *)
Locked(p) ==
    /\ Writes(p)
    /\ Spend("mishap")
    /\ Step(p, IF CurrentPass(p) \in Backfill THEN Closed ELSE Advanced(p))
    /\ PutOff(p)
    /\ UNCHANGED <<data, attempt>>

(* Any other error rolls the transaction back                                *)
Breaks(p) ==
    /\ Writes(p)
    /\ Spend("mishap")
    /\ Step(p, IF CurrentPass(p) \in Backfill THEN Closed
               ELSE [opening[p] EXCEPT !.pc = "broken"])
    /\ UNCHANGED <<data, tries>>

(* The attempt, recorded in a statement of its own                           *)
NoteAttempt(p) ==
    /\ opening[p].pc = "broken"
    /\ attempt' = [attempt EXCEPT ![CurrentPass(p)] = "recent"]
    /\ PutOff(p)
    /\ Commit(p, Advanced(p))
    /\ UNCHANGED <<data, left>>

Crash(p) ==
    /\ opening[p].pc # "closed"
    /\ Spend("mishap")
    /\ Step(p, Closed)
    /\ UNCHANGED <<data, tries>>

(* MIGRATION_RETRY_BACKOFF_MS pass                                           *)
Ages(k) ==
    /\ attempt[k] = "recent"
    /\ attempt' = [attempt EXCEPT ![k] = "past"]
    /\ UNCHANGED <<data, deferred, opening, left>>

-----------------------------------------------------------------------------
(* The writers beside the passes *)

(* createEntity: a new memory, more of one, or one back from the archive     *)
Remember(p, e) ==
    /\ opening[p].pc = "open" /\ p \notin Hooks
    /\ Spend("write")
    /\ \E titled \in BOOLEAN, embedded \in BOOLEAN, u \in Unindexed(row[e]) :
          LET told == [u EXCEPT
                  !.status = "active",
                  !.titled = @ \/ titled,
                  !.flaws =
                      (@ \ (IF titled THEN {"untitled", "hits"} ELSE {"hits"}))
                      \cup (IF row[e].status = "new" /\ ~titled THEN {"untitled"} ELSE {}),
                  !.vector = @ \/ (embedded /\ p \in VecHosts)]
          IN row' = [row EXCEPT ![e] = Indexed(told)]
    /\ kept' = [kept EXCEPT ![e] = "no"]
    /\ relisted' = relisted \ {e}
    /\ Commit(p, opening[p])
    /\ UNCHANGED <<stamped, tries, owed, drifted, waived>>

(* captureEntity of a hook: a new memory, which gets no score and no vector, *)
(* or more of one, whose status stays as it is and which is indexed all the  *)
(* same                                                                      *)
Missing(titled) == IF titled THEN {"unscored"} ELSE {"unscored", "untitled"}
Capture(p, e) ==
    /\ opening[p].pc = "open" /\ p \in Hooks
    /\ Spend("write")
    /\ \E titled \in BOOLEAN, u \in Unindexed(row[e]) :
          LET told == [u EXCEPT
                  !.status = IF row[e].status = "new" THEN "active" ELSE @,
                  !.titled = @ \/ titled,
                  !.flaws = (@ \ (IF titled THEN {"untitled"} ELSE {}))
                      \cup (IF row[e].status = "new" THEN Missing(titled) ELSE {})]
          IN row' = [row EXCEPT ![e] = Indexed(told)]
    /\ relisted' = relisted \cup ({e} \cap Archived(row))
    /\ Commit(p, opening[p])
    /\ UNCHANGED <<stamped, tries, owed, drifted, kept, waived>>

(* archiveEntity: dropEntityFromIndexes, the vector only where it can        *)
Archive(p, e) ==
    /\ opening[p].pc = "open" /\ p \notin Hooks
    /\ row[e].status = "active"
    /\ Spend("write")
    /\ \E u \in Unindexed(row[e]) :
          row' = [row EXCEPT ![e] = [u EXCEPT
              !.status = "archived",
              !.vector = IF p \in VecHosts THEN FALSE ELSE @]]
    /\ kept' = [kept EXCEPT ![e] = IF p \in VecHosts THEN "no" ELSE "elsewhere"]
    /\ Commit(p, opening[p])
    /\ UNCHANGED <<stamped, tries, owed, drifted, relisted, waived>>

(* reindexFts                                                                *)
ReindexFts(p) ==
    /\ opening[p].pc = "open" /\ p \notin Hooks
    /\ Spend("write")
    /\ Rebuild
    /\ stamped' = stamped \cup {"segmented"}
    /\ attempt' = [attempt EXCEPT !["segmented"] = "none"]
    /\ Commit(p, opening[p])
    /\ UNCHANGED deferred

(* reindex of every namespace: the new generation holds active memories only *)
Reindex(p) ==
    /\ opening[p].pc = "open" /\ p \in VecHosts \ Hooks
    /\ Spend("write")
    /\ row' = [e \in Entity |-> [row[e] EXCEPT !.vector = (row[e].status = "active")]]
    /\ owed' = FALSE
    /\ Commit(p, opening[p])
    /\ UNCHANGED <<stamped, tries, drifted, relisted, kept, waived>>

(* reindex of one namespace: it decides on the notice for the whole database *)
ReindexSome(p) ==
    /\ opening[p].pc = "open" /\ p \in VecHosts \ Hooks
    /\ Spend("write")
    /\ \E some \in SUBSET Active :
          LET built == [e \in Entity |->
                  IF e \in some THEN [row[e] EXCEPT !.vector = TRUE] ELSE row[e]]
          IN /\ row' = built
             /\ owed' = (\E e \in Active : ~built[e].vector)
    /\ waived' = (waived \/ ~owed')
    /\ Commit(p, opening[p])
    /\ UNCHANGED <<stamped, tries, drifted, relisted, kept>>

(* A process of an earlier release remembers by its own rules, or archives   *)
(* with a bare UPDATE; it knows of no marker                                 *)
OlderRemember(e) ==
    /\ Spend("older")
    /\ \E flaws \in SUBSET Careless :
          /\ row[e].titled => "untitled" \notin flaws
          /\ row' = [row EXCEPT ![e].status = "active", ![e].listed = TRUE,
                         ![e].flaws = (@ \ {"hits"}) \cup flaws,
                         ![e].terms = @ \cup {"run"}]
    /\ drifted' = drifted \cup {e}
    /\ kept' = [kept EXCEPT ![e] = "no"]
    /\ opening' = [p \in Process |-> Staled(opening[p])]
    /\ UNCHANGED <<stamped, tries, owed, relisted, waived>>

OlderArchive(e) ==
    /\ Spend("older")
    /\ row[e].status = "active"
    /\ row' = [row EXCEPT ![e].status = "archived"]
    /\ drifted' = drifted \cup {e}
    /\ kept' = [kept EXCEPT ![e] = "elsewhere"]
    /\ opening' = [p \in Process |-> Staled(opening[p])]
    /\ UNCHANGED <<stamped, tries, owed, relisted, waived>>

-----------------------------------------------------------------------------
Serve(p) ==
    \/ \E e \in Entity : Remember(p, e) \/ Capture(p, e) \/ Archive(p, e)
    \/ ReindexFts(p) \/ Reindex(p) \/ ReindexSome(p)
Opens(p) ==
    \/ Open(p) \/ Check(p) \/ Snapshot(p) \/ Fill(p) \/ Refused(p)
    \/ RunOnce(p) \/ Raced(p) \/ NoteAttempt(p) \/ Close(p)
Next ==
    \/ \E p \in Process : Opens(p) \/ Serve(p) \/ Locked(p) \/ Breaks(p) \/ Crash(p)
    \/ \E e \in Entity : OlderRemember(e) \/ OlderArchive(e)
    \/ \E k \in Pass : Ages(k)

(* Every process is run, every server stops some time, the file is opened    *)
(* again, and a day passes                                                   *)
Fairness ==
    /\ \A p \in Process : WF_vars(Opens(p))
    /\ \A k \in Pass : WF_vars(Ages(k))
Spec == Init /\ [][Next]_vars /\ Fairness

-----------------------------------------------------------------------------
(* The tables are of their shapes, and a process that reads is at a          *)
(* back-fill.                                                                *)
TypeOK ==
    /\ row \in [Entity -> Row]
    /\ stamped \subseteq Pass
    /\ attempt \in [Pass -> {"none", "recent", "past"}]
    /\ owed \in BOOLEAN /\ waived \in BOOLEAN
    /\ opening \in [Process ->
           [pc : {"closed", "checking", "due", "read", "broken", "open"},
            at : Nat, seen : SUBSET Entity, stale : BOOLEAN]]
    /\ drifted \subseteq Entity /\ relisted \subseteq Entity /\ deferred \in BOOLEAN
    /\ kept \in [Entity -> {"no", "split", "elsewhere"}]
    /\ left \in [Event -> Nat]

(* A pass is marked done only over a database that has nothing left for it:  *)
(* no memory of that flaw, whoever wrote meanwhile; a marker is never taken  *)
(* back.                                                                     *)
Clean(k, rows) ==
    CASE k \in Flaw -> Having(rows, k) = {}
      [] k \in {"segmented", "archived_fts"} -> Inexact(rows) = {}
      [] k = "archived_vec" -> \A e \in Archived(rows) : ~rows[e].vector
StampsAreEarned ==
    [][/\ stamped \subseteq stamped'
       /\ \A k \in stamped' \ stamped : Clean(k, row')]_vars

(* A memory is in the keyword index just when it is active, under its text   *)
(* and its title, unless an earlier release wrote it last or wrote the index *)
(* and it was not rebuilt since; an archived memory that a hook has indexed  *)
(* is there under its own words. Once the pass over archived vectors is      *)
(* done, an archived memory keeps a vector only if it was archived where     *)
(* that could not be helped, or is a bucket of a split that had been put     *)
(* off beyond that pass, whose rebuild is owed or was waived by a rebuild of *)
(* one namespace.                                                            *)
Relisted(e) ==
    e \in relisted /\ row[e].status = "archived" /\ row[e].terms \subseteq Entry(row[e])
IndexesAreTrue ==
    /\ \A e \in Entity \ drifted : Exact(row[e]) \/ Relisted(e)
    /\ "archived_vec" \in stamped =>
          \A e \in Archived(row) :
              row[e].vector => \/ kept[e] = "elsewhere"
                               \/ kept[e] = "split" /\ (owed \/ waived)

(* However often a pass was put off, refused, broken or interrupted, it is   *)
(* done in the end: all that some process can do.                            *)
PassesFinish ==
    <>[](\A p \in Process : \A i \in 1..Len(PassesOf(p)) : PassesOf(p)[i] \in stamped)
=============================================================================
