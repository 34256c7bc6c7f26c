-------------------------- MODULE VectorGenerations --------------------------
(* The vector index of src/src/db.ts and the rebuilds of                     *)
(* src/src/core/operations.ts: memories are written, edited and forgotten by *)
(* any process while `memesh reindex` builds the next generation of their    *)
(* vectors in a staging table, resumes it after a crash and switches to it.  *)
(*                                                                           *)
(* A vector is the set of observations it was built from: entityEmbedText    *)
(* adds the name, which never changes. A provider stands for the width it    *)
(* emits, which is one to one. SQLite serialises transactions; what a        *)
(* rebuild does between two awaits or two transactions is a step, and any    *)
(* other process may act in between.                                         *)
EXTENDS Naturals, FiniteSets

CONSTANTS
    Entities,      \* entity ids: AUTOINCREMENT, so none is used twice
    Knowns,        \* those remembered and indexed at first: one of these
    First,         \* the observation they have
    Observations,
    Namespace,     \* the entities of the namespace a scoped rebuild names
    Rebuilders,    \* processes that run `memesh reindex`
    Widths,        \* what the configurable providers emit
    Built,         \* the one the index was built with
    FailureLimit,  \* CONSECUTIVE_FAILURE_LIMIT
    Budgets,       \* bound: how often each event may happen; one of these
    None

Texts == SUBSET Observations
Events == {"edit", "rebuild", "crash", "discard", "provider"}

ASSUME EntitiesAssumption ==
    /\ Entities \subseteq Nat /\ IsFiniteSet(Entities)
    /\ Knowns \subseteq SUBSET Entities
    /\ Namespace \subseteq Entities
    /\ First \in Observations
    /\ \A text \in Texts : text # None
ASSUME WidthsAssumption == Widths \subseteq Nat \ {0} /\ Built \in Widths
ASSUME BoundsAssumption ==
    FailureLimit \in Nat \ {0} /\ Budgets \subseteq [Events -> Nat]

VARIABLES
    status,   \* entities.status; "new" before the row, "gone" after it
    obs,      \* the observations of each entity
    live,     \* entities_vec: the vector of each entity
    width,    \* embedding_dimension
    stage,    \* entities_vec_next and entities_vec_next_source
    marker,   \* vector_generation: the width of the open generation, 0 if none
    owed,     \* pending_reindex
    config,   \* the width of the provider the configuration names
    embeds,   \* scheduled embedAndStore calls of other processes
    run,      \* the rebuild of each process
    left      \* what is left of the budget

memory == <<status, obs>>
index == <<live, width>>
vars == <<status, obs, live, width, stage, marker, owed, config, embeds, run,
          left>>

NoVectors == [e \in Entities |-> None]
NoStage == [open |-> FALSE, width |-> 0, rows |-> NoVectors, hash |-> NoVectors]

NotRunning ==
    [pc |-> "idle", full |-> FALSE, width |-> 0, resumed |-> FALSE,
     known |-> NoVectors, todo |-> {}, listed |-> {}, excused |-> {}, at |-> 0,
     with |-> 0, verified |-> NoVectors, failed |-> FALSE, misses |-> 0,
     swapped |-> FALSE, alone |-> FALSE]

Active == {e \in Entities : status[e] = "active"}
Having(rows) == {e \in Entities : rows[e] # None}

(* countMissingVectors: active, with something to embed, and no vector       *)
Missing == {e \in Active : obs[e] # {} /\ live[e] = None}

Spend(event) ==
    /\ left[event] > 0
    /\ left' = [left EXCEPT ![event] = @ - 1]

Init ==
    /\ \E known \in Knowns :
          /\ status = [e \in Entities |->
                         IF e \in known THEN "active" ELSE "new"]
          /\ obs = [e \in Entities |-> IF e \in known THEN {First} ELSE {}]
          /\ live = [e \in Entities |-> IF e \in known THEN {First} ELSE None]
    /\ width = Built
    /\ config = Built
    /\ stage = NoStage
    /\ marker = 0
    /\ owed = FALSE
    /\ embeds = {}
    /\ run = [r \in Rebuilders |-> NotRunning]
    /\ left \in Budgets

-----------------------------------------------------------------------------
(* Everybody but the rebuild *)

(* remember: a new memory, more of an old one, or an archived one again. The *)
(* scheduled embedding is of what the call brought.                          *)
Remember(e, o) ==
    /\ status[e] # "gone"
    /\ Spend("edit")
    /\ status' = [status EXCEPT ![e] = "active"]
    /\ obs' = [obs EXCEPT ![e] = @ \cup {o}]
    /\ embeds' = embeds \cup {[e |-> e, of |-> {o}, width |-> config,
                               checked |-> FALSE]}
    /\ UNCHANGED <<index, stage, marker, owed, config, run>>

(* clearEntityData, with the text that rewriteObservations puts in its place *)
Rewrite(e, text) ==
    /\ status[e] \in {"active", "archived"}
    /\ Spend("edit")
    /\ obs' = [obs EXCEPT ![e] = text]
    /\ status' = [status EXCEPT ![e] = IF text = {} THEN @ ELSE "active"]
    /\ live' = [live EXCEPT ![e] = None]
    /\ UNCHANGED <<width, stage, marker, owed, config, embeds, run>>

RemoveObservation(e, o) ==
    /\ o \in obs[e]
    /\ Spend("edit")
    /\ obs' = [obs EXCEPT ![e] = @ \ {o}]
    /\ UNCHANGED <<status, index, stage, marker, owed, config, embeds, run>>

ArchiveEntity(e) ==
    /\ status[e] = "active"
    /\ Spend("edit")
    /\ status' = [status EXCEPT ![e] = "archived"]
    /\ live' = [live EXCEPT ![e] = None]
    /\ UNCHANGED <<obs, width, stage, marker, owed, config, embeds, run>>

DeleteEntity(e) ==
    /\ status[e] \in {"active", "archived"}
    /\ Spend("edit")
    /\ status' = [status EXCEPT ![e] = "gone"]
    /\ obs' = [obs EXCEPT ![e] = {}]
    /\ live' = [live EXCEPT ![e] = None]
    /\ UNCHANGED <<width, stage, marker, owed, config, embeds, run>>

(* embedAndStore of a scheduled embedding: the provider fails or the process *)
(* ends; the answer is of another width; the entity has gone meanwhile; or   *)
(* the vector is written, in a transaction of its own                        *)
EmbedLost(m) ==
    /\ embeds' = embeds \ {m}
    /\ UNCHANGED <<memory, index, stage, marker, owed, config, run, left>>

EmbedAnswered(m) ==
    /\ ~m.checked
    /\ \/ /\ m.width # width
          /\ embeds' = embeds \ {m}
          /\ UNCHANGED live
       \/ /\ m.width = width
          /\ m.e \notin Active
          /\ embeds' = embeds \ {m}
          /\ live' = [live EXCEPT ![m.e] = None]
       \/ /\ m.width = width
          /\ m.e \in Active
          /\ embeds' = (embeds \ {m}) \cup {[m EXCEPT !.checked = TRUE]}
          /\ UNCHANGED live
    /\ UNCHANGED <<memory, width, stage, marker, owed, config, run, left>>

(* vec0 takes no vector of another width                                     *)
EmbedWritten(m) ==
    /\ m.checked
    /\ embeds' = embeds \ {m}
    /\ live' = IF m.width = width THEN [live EXCEPT ![m.e] = m.of] ELSE live
    /\ UNCHANGED <<memory, width, stage, marker, owed, config, run, left>>

SwitchProvider(w) ==
    /\ Spend("provider")
    /\ config' = w
    /\ UNCHANGED <<memory, index, stage, marker, owed, embeds, run>>

(* ensureVecTable, whenever a process opens the database                     *)
NoticeMismatch ==
    /\ config # width
    /\ owed' = TRUE
    /\ UNCHANGED <<memory, index, stage, marker, config, embeds, run, left>>

(* What another process does to the generation is noted in those under way   *)
Disturbed(others) ==
    [r \in Rebuilders |-> IF r \in others THEN [run[r] EXCEPT !.alone = FALSE]
                          ELSE run[r]]
Running == {r \in Rebuilders : run[r].full}

(* memesh reindex --discard-generation                                       *)
DiscardGeneration ==
    /\ stage.open \/ marker # 0
    /\ Spend("discard")
    /\ stage' = NoStage
    /\ marker' = 0
    /\ run' = Disturbed(Running)
    /\ UNCHANGED <<memory, index, owed, config, embeds>>

-----------------------------------------------------------------------------
(* A rebuild *)

Goto(r, step) == run' = [run EXCEPT ![r] = [@ EXCEPT !.pc = step]]

(* A run over one namespace writes the live index in place                   *)
BeginScoped(r) ==
    /\ run[r].pc = "idle"
    /\ Spend("rebuild")
    /\ Goto(r, "list")
    /\ UNCHANGED <<memory, index, stage, marker, owed, config, embeds>>

(* A full run: beginVectorGeneration reads the marker, discards what it      *)
(* cannot resume and opens the generation                                    *)
BeginFull(r) ==
    /\ run[r].pc = "idle"
    /\ Spend("rebuild")
    /\ LET compatible == stage.open /\ marker = config
       IN  run' = [Disturbed(Running) EXCEPT
                     ![r] = [@ EXCEPT
                               !.pc = IF stage.open /\ ~compatible
                                      THEN "discard" ELSE "open",
                               !.full = TRUE,
                               !.width = config,
                               !.resumed = compatible,
                               !.alone = Running = {}]]
    /\ UNCHANGED <<memory, index, stage, marker, owed, config, embeds>>

DiscardIncompatible(r) ==
    /\ run[r].pc = "discard"
    /\ stage' = NoStage
    /\ marker' = 0
    /\ Goto(r, "open")
    /\ UNCHANGED <<memory, index, owed, config, embeds, left>>

(* CREATE ... IF NOT EXISTS leaves a table that another process created      *)
OpenGeneration(r) ==
    /\ run[r].pc = "open"
    /\ stage' = IF stage.open THEN stage
                ELSE [NoStage EXCEPT !.open = TRUE, !.width = run[r].width]
    /\ marker' = run[r].width
    /\ Goto(r, IF run[r].resumed THEN "resume" ELSE "list")
    /\ UNCHANGED <<memory, index, owed, config, embeds, left>>

(* generationRowIds and generationRowHashes: what need not be embedded again *)
ReadStaged(r) ==
    /\ run[r].pc = "resume"
    /\ run' = [run EXCEPT ![r] =
                 [@ EXCEPT !.pc = "list",
                           !.known = [e \in Entities |->
                                        IF stage.rows[e] = None THEN None
                                        ELSE stage.hash[e]]]]
    /\ UNCHANGED <<memory, index, stage, marker, owed, config, embeds, left>>

ListEntities(r) ==
    /\ run[r].pc = "list"
    /\ LET listed == IF run[r].full THEN Active ELSE Active \cap Namespace
       IN  run' = [run EXCEPT ![r] = [@ EXCEPT !.pc = "next", !.todo = listed,
                                               !.listed = listed]]
    /\ UNCHANGED <<memory, index, stage, marker, owed, config, embeds, left>>

(* What a step of a run leaves alone unless it says otherwise                *)
Elsewhere == UNCHANGED <<memory, config, embeds>>

(* The next entity in the order of ids. One that is gone or has nothing to   *)
(* embed is excused, one that is staged and unchanged is not embedded again. *)
Visit(r) ==
    /\ run[r].pc = "next"
    /\ \E e \in run[r].todo :
          /\ \A d \in run[r].todo : e <= d
          /\ LET visited == [run[r] EXCEPT !.todo = @ \ {e}]
             IN  run' = [run EXCEPT ![r] =
                   IF obs[e] = {}
                   THEN [visited EXCEPT !.excused = @ \cup {e}]
                   ELSE IF visited.known[e] = obs[e]
                   THEN [visited EXCEPT !.verified = [@ EXCEPT ![e] = obs[e]]]
                   ELSE [visited EXCEPT !.pc = "embed", !.at = e,
                                        !.with = config,
                                        !.verified = [@ EXCEPT ![e] = obs[e]]]]
    /\ Elsewhere
    /\ UNCHANGED <<index, stage, marker, owed, left>>

(* An outcome that means the entity was owed a vector and did not get one    *)
Failed(r) ==
    run' = [run EXCEPT ![r] =
              [run[r] EXCEPT !.pc = "next", !.failed = TRUE, !.misses = @ + 1,
                        !.todo = IF run[r].misses + 1 = FailureLimit THEN {}
                                 ELSE @]]

(* The table a run writes, and whether it takes vectors of this width        *)
TargetWidth(r) == IF run[r].full THEN run[r].width ELSE width
TargetExists(r) == run[r].full => stage.open
TargetTakes(r) ==
    run[r].with = IF run[r].full THEN stage.width ELSE width
Store(r, vector) ==
    IF run[r].full
    THEN /\ stage' = [stage EXCEPT !.rows = [@ EXCEPT ![run[r].at] = vector]]
         /\ UNCHANGED live
    ELSE /\ live' = [live EXCEPT ![run[r].at] = vector]
         /\ UNCHANGED stage

(* no_embedding: the provider does not answer                                *)
NoEmbedding(r) ==
    /\ run[r].pc = "embed"
    /\ Failed(r)
    /\ Elsewhere
    /\ UNCHANGED <<index, stage, marker, owed, left>>

(* The answer of the provider: dimension_mismatch, removed, or a vector      *)
Embedded(r) ==
    /\ run[r].pc = "embed"
    /\ \/ /\ run[r].with # TargetWidth(r)
          /\ Failed(r)
          /\ UNCHANGED <<live, stage>>
       \/ /\ run[r].with = TargetWidth(r)
          /\ run[r].at \notin Active
          /\ \/ /\ TargetExists(r)
                /\ Store(r, None)
                /\ run' = [run EXCEPT ![r] =
                             [run[r] EXCEPT !.pc = "next",
                                       !.excused = @ \cup {run[r].at}]]
             \/ /\ ~TargetExists(r)
                /\ Failed(r)
                /\ UNCHANGED <<live, stage>>
       \/ /\ run[r].with = TargetWidth(r)
          /\ run[r].at \in Active
          /\ Goto(r, "write")
          /\ UNCHANGED <<live, stage>>
    /\ Elsewhere
    /\ UNCHANGED <<width, marker, owed, left>>

(* stored, or write_failed                                                   *)
Write(r) ==
    /\ run[r].pc = "write"
    /\ \/ /\ TargetExists(r) /\ TargetTakes(r)
          /\ Store(r, run[r].verified[run[r].at])
          /\ run' = [run EXCEPT ![r] =
                       [run[r] EXCEPT !.pc = IF run[r].full THEN "record"
                                        ELSE "next",
                                 !.misses = IF run[r].full THEN @ ELSE 0]]
       \/ /\ ~(TargetExists(r) /\ TargetTakes(r))
          /\ Failed(r)
          /\ UNCHANGED <<live, stage>>
    /\ Elsewhere
    /\ UNCHANGED <<width, marker, owed, left>>

(* recordGenerationRow, in a statement of its own                            *)
RecordRow(r) ==
    /\ run[r].pc = "record"
    /\ \/ /\ stage.open
          /\ stage' = [stage EXCEPT !.hash =
                         [@ EXCEPT ![run[r].at] = run[r].verified[run[r].at]]]
          /\ run' = [run EXCEPT ![r] = [@ EXCEPT !.pc = "next", !.misses = 0]]
       \/ /\ ~stage.open
          /\ run' = [run EXCEPT ![r] = [@ EXCEPT !.pc = "next", !.failed = TRUE]]
          /\ UNCHANGED stage
    /\ Elsewhere
    /\ UNCHANGED <<index, marker, owed, left>>

(* Mutant: a run that gave up may promote                                    *)
CompleteByCount(r) ==
    Cardinality(Having(stage.rows))
      >= Cardinality(run[r].listed) - Cardinality(run[r].excused)

(* Whether the generation may be promoted                                    *)
Complete(r) ==
    /\ ~run[r].failed
    /\ Cardinality(Having(stage.rows))
          >= Cardinality(run[r].listed) - Cardinality(run[r].excused)

Count(r) ==
    /\ run[r].pc = "next"
    /\ run[r].todo = {}
    /\ Goto(r, IF run[r].full /\ Complete(r) THEN "swap" ELSE "measure")
    /\ Elsewhere
    /\ UNCHANGED <<index, stage, marker, owed, left>>

(* Mutants: what was forgotten meanwhile is promoted, what was written       *)
(* meanwhile is dropped                                                      *)
PrunedNothing == Having(stage.rows)
CarriedNothing(w) == {e \in Having(live) : width = w /\ e \notin Entities}

(* What the transaction promotes: staged rows of memories still active, and  *)
(* the live vectors of those that were not staged                            *)
Pruned == {e \in Having(stage.rows) : e \in Active}
Carried(w) == {e \in Having(live) : width = w /\ e \in Active} \ Pruned

(* What the transaction throws on: no staging table, or one of another width *)
SwapThrows(w) ==
    \/ ~stage.open
    \/ stage.width # w /\ Pruned \cup Carried(w) # {}

(* swapVectorGeneration                                                      *)
Swap(r) ==
    /\ run[r].pc = "swap"
    /\ ~SwapThrows(run[r].width)
    /\ live' = [e \in Entities |->
                  IF e \in Pruned THEN stage.rows[e]
                  ELSE IF e \in Carried(run[r].width) THEN live[e] ELSE None]
    /\ width' = run[r].width
    /\ stage' = NoStage
    /\ marker' = 0
    /\ run' = [run EXCEPT ![r] = [@ EXCEPT !.pc = "measure", !.swapped = TRUE]]
    /\ Elsewhere
    /\ UNCHANGED <<owed, left>>

(* Rolled back; reindex rejects                                              *)
SwapFails(r) ==
    /\ run[r].pc = "swap"
    /\ SwapThrows(run[r].width)
    /\ run' = [run EXCEPT ![r] = NotRunning]
    /\ Elsewhere
    /\ UNCHANGED <<index, stage, marker, owed, left>>

(* Mutant: failures do not count                                             *)
VerdictOnMissing(r) == Missing # {}

(* The verdict on pending_reindex, from the index that is live now           *)
Verdict(r) ==
    IF Missing # {} THEN TRUE ELSE IF run[r].failed THEN owed ELSE FALSE

Measure(r) ==
    /\ run[r].pc = "measure"
    /\ owed' = Verdict(r)
    /\ run' = [run EXCEPT ![r] = NotRunning]
    /\ Elsewhere
    /\ UNCHANGED <<index, stage, marker, left>>

CrashRebuild(r) ==
    /\ run[r].pc # "idle"
    /\ Spend("crash")
    /\ run' = [run EXCEPT ![r] = NotRunning]
    /\ Elsewhere
    /\ UNCHANGED <<index, stage, marker, owed>>

-----------------------------------------------------------------------------
Others ==
    \/ \E e \in Entities :
          \/ \E o \in Observations : Remember(e, o) \/ RemoveObservation(e, o)
          \/ \E text \in Texts : Rewrite(e, text)
          \/ ArchiveEntity(e)
          \/ DeleteEntity(e)
    \/ \E m \in embeds : EmbedLost(m) \/ EmbedAnswered(m) \/ EmbedWritten(m)
    \/ \E w \in Widths \ {config} : SwitchProvider(w)
    \/ NoticeMismatch
    \/ DiscardGeneration

Rebuild(r) ==
    \/ BeginScoped(r) \/ BeginFull(r) \/ DiscardIncompatible(r)
    \/ OpenGeneration(r) \/ ReadStaged(r) \/ ListEntities(r)
    \/ Visit(r) \/ NoEmbedding(r) \/ Embedded(r) \/ Write(r) \/ RecordRow(r)
    \/ Count(r) \/ Swap(r) \/ SwapFails(r) \/ Measure(r) \/ CrashRebuild(r)

Next == Others \/ \E r \in Rebuilders : Rebuild(r)

Spec == Init /\ [][Next]_vars

-----------------------------------------------------------------------------
Vectors == [Entities -> {None} \cup Texts]
Heights == Widths \cup {0}
Stages ==
    [open : BOOLEAN, width : Heights, rows : Vectors, hash : Vectors]
Calls == [e : Entities, of : Texts, width : Widths, checked : BOOLEAN]
Runs ==
    [pc : {"idle", "discard", "open", "resume", "list", "next", "embed",
           "write", "record", "swap", "measure"},
     full : BOOLEAN, width : Heights, resumed : BOOLEAN, known : Vectors,
     todo : SUBSET Entities, listed : SUBSET Entities,
     excused : SUBSET Entities, at : Entities \cup {0}, with : Heights,
     verified : Vectors, failed : BOOLEAN, misses : Nat,
     swapped : BOOLEAN, alone : BOOLEAN]

(* The index, the generation beside it and the runs keep their types, and    *)
(* there are no rows without a staging table                                 *)
TypeOK ==
    /\ status \in [Entities -> {"new", "active", "archived", "gone"}]
    /\ obs \in [Entities -> Texts]
    /\ live \in Vectors
    /\ width \in Widths
    /\ stage \in Stages
    /\ marker \in Heights
    /\ owed \in BOOLEAN
    /\ config \in Widths
    /\ embeds \subseteq Calls
    /\ run \in [Rebuilders -> Runs]
    /\ left \in [Events -> Nat]
    /\ ~stage.open => stage = NoStage
    /\ stage.open => stage.width \in Widths

SwappedBy(r) == ~run[r].swapped /\ run'[r].swapped

(* A switch to a generation of the width in use leaves no active memory      *)
(* without the vector it had, also when a resumed run or another rebuild     *)
(* staged the rows; and an undisturbed run replaces the vectors of those     *)
(* memories alone that it listed and read itself, or that a run it resumed   *)
(* had staged: the vector of a memory that came while the generation was     *)
(* built is carried over as it is. A memory that was edited after the run    *)
(* read it gets the staged, older vector, which nothing makes good.          *)
SwapKeepsVectors ==
    [][\A r \in Rebuilders : SwappedBy(r) /\ width' = width =>
          \A e \in Active : live[e] # None =>
             /\ live'[e] # None
             /\ run[r].alone /\ live'[e] # live[e] =>
                   run[r].resumed \/ e \in run[r].listed \ run[r].excused]_vars

(* A memory that was forgotten while its vector sat in the staging table     *)
(* does not come back into the index with the switch. Only a write whose     *)
(* look at the status came before the forgetting can do that: the transaction*)
(* of embedAndStore does not look again.                                     *)
ForgottenStaysOut ==
    [][\A e \in Entities :
          e \notin Active' /\ live[e] = None /\ live'[e] # None =>
             \/ \E m \in embeds \ embeds' : m.e = e /\ m.checked
             \/ \E r \in Rebuilders :
                   run[r].pc = "write" /\ ~run[r].full /\ run[r].at = e]_vars

(* A rebuild that nobody disturbed promotes what it verified: each memory it *)
(* listed and that is still active was found to have nothing to embed or to  *)
(* be inactive, or is now indexed by the text the run itself read, however   *)
(* many runs crashed before it and whatever was edited between them. A crash *)
(* between the vector and the record of its text is the exception the code   *)
(* leaves: text that is edited back then vouches for another's vector.       *)
PromotesWhatItVerified ==
    [][\A r \in Rebuilders : SwappedBy(r) /\ run[r].alone =>
          \A e \in run[r].listed \cap Active :
             \/ e \in run[r].excused
             \/ run[r].verified[e] # None
                /\ live'[e] \in {run[r].verified[e]}
                               \cup {v \in Texts : v = stage.rows[e]
                                                  /\ v # stage.hash[e]}]_vars

(* An undisturbed full rebuild withdraws the reindex notice only if it       *)
(* switched its generation in: vectors of the width that is being left do    *)
(* not pass for a rebuilt index, though none is missing.                     *)
OwedUntilBuilt ==
    [][\A r \in Rebuilders :
          /\ run[r].pc = "measure" /\ run'[r].pc = "idle"
          /\ run[r].full /\ run[r].alone
          /\ owed /\ ~owed'
          => run[r].swapped]_vars
=============================================================================
