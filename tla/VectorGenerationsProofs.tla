----------------------- MODULE VectorGenerationsProofs -----------------------
(* What VectorGenerations promises for every set of memories, rebuilding     *)
(* processes, widths and observations.                                       *)
EXTENDS VectorGenerations, TLAPS, FiniteSetTheorems

(* The steps that touch the generation are those of full runs, and a step    *)
(* about an entity has one                                                   *)
FullSteps ==
    \A r \in Rebuilders :
        /\ run[r].pc \in {"discard", "open", "resume", "record", "swap"}
              => run[r].full
        /\ run[r].full => run[r].width \in Widths
        /\ run[r].pc \in {"embed", "write", "record"}
              => run[r].at \in Entities

TypeInv == TypeOK /\ FullSteps

USE EntitiesAssumption, WidthsAssumption

-----------------------------------------------------------------------------
LEMMA NoVectorsType == NoVectors \in Vectors
BY DEF NoVectors, Vectors

LEMMA NotRunningType == NotRunning \in Runs
BY NoVectorsType DEF NotRunning, Runs, Heights

LEMMA NoStageType ==
    NoStage \in Stages
BY NoVectorsType DEF NoStage, Stages, Heights

LEMMA TypeInit == Init => TypeInv
<1> SUFFICES ASSUME Init PROVE TypeInv
    OBVIOUS
<1>1. run \in [Rebuilders -> Runs]
      BY NotRunningType DEF Init
<1>2. stage = NoStage /\ marker \in Heights
      BY DEF Init, Heights
<1>3. /\ status \in [Entities -> {"new", "active", "archived", "gone"}]
      /\ obs \in [Entities -> Texts]
      /\ live \in Vectors
      BY DEF Init, Texts, Vectors
<1>4. /\ width \in Widths /\ config \in Widths /\ owed \in BOOLEAN
      /\ embeds \subseteq Calls
      /\ left \in [Events -> Nat]
      BY BoundsAssumption DEF Init
<1>5. FullSteps
      BY DEF Init, FullSteps, NotRunning
<1>6. ~stage.open
      BY <1>2 DEF NoStage
<1> QED
    BY <1>1, <1>2, <1>3, <1>4, <1>5, <1>6, NoStageType DEF TypeInv, TypeOK

(* Noting a disturbance changes nothing else of a run                        *)
LEMMA DisturbedRuns ==
    ASSUME run \in [Rebuilders -> Runs], NEW S
    PROVE  /\ Disturbed(S) \in [Rebuilders -> Runs]
           /\ \A r \in Rebuilders :
                 /\ Disturbed(S)[r].pc = run[r].pc
                 /\ Disturbed(S)[r].full = run[r].full
                 /\ Disturbed(S)[r].width = run[r].width
                 /\ Disturbed(S)[r].at = run[r].at
                 /\ Disturbed(S)[r].known = run[r].known
                 /\ Disturbed(S)[r].swapped = run[r].swapped
                 /\ Disturbed(S)[r].failed = run[r].failed
                 /\ Disturbed(S)[r].todo = run[r].todo
                 /\ Disturbed(S)[r].listed = run[r].listed
                 /\ Disturbed(S)[r].excused = run[r].excused
                 /\ Disturbed(S)[r].verified = run[r].verified
                 /\ Disturbed(S)[r].alone => run[r].alone /\ r \notin S
                 /\ r \notin S => Disturbed(S)[r] = run[r]
<1>0. ASSUME NEW x \in Runs PROVE [x EXCEPT !.alone = FALSE] \in Runs
      BY DEF Runs
<1>1. \A r \in Rebuilders : [run[r] EXCEPT !.alone = FALSE] \in Runs
      BY <1>0
<1>2. \A r \in Rebuilders :
        Disturbed(S)[r] = IF r \in S THEN [run[r] EXCEPT !.alone = FALSE]
                          ELSE run[r]
      BY DEF Disturbed
<1>3. ASSUME NEW x \in Runs
      PROVE  /\ [x EXCEPT !.alone = FALSE].pc = x.pc
             /\ [x EXCEPT !.alone = FALSE].full = x.full
             /\ [x EXCEPT !.alone = FALSE].width = x.width
             /\ [x EXCEPT !.alone = FALSE].at = x.at
             /\ [x EXCEPT !.alone = FALSE].known = x.known
             /\ [x EXCEPT !.alone = FALSE].swapped = x.swapped
             /\ [x EXCEPT !.alone = FALSE].failed = x.failed
             /\ [x EXCEPT !.alone = FALSE].todo = x.todo
             /\ [x EXCEPT !.alone = FALSE].listed = x.listed
             /\ [x EXCEPT !.alone = FALSE].excused = x.excused
             /\ [x EXCEPT !.alone = FALSE].verified = x.verified
             /\ [x EXCEPT !.alone = FALSE].alone = FALSE
      BY DEF Runs
<1> QED
    BY <1>1, <1>2, <1>3 DEF Disturbed

(* Everybody else keeps the types, and touches no run but to disturb it      *)
LEMMA OthersType == TypeInv /\ Others => TypeInv'
<1> SUFFICES ASSUME TypeInv, Others PROVE TypeInv'
    OBVIOUS
<1> DEFINE Kept == UNCHANGED <<width, stage, marker, owed, config, run>>
<1>1. ASSUME Kept,
             status' \in [Entities -> {"new", "active", "archived", "gone"}],
             obs' \in [Entities -> Texts], live' \in Vectors,
             embeds' \subseteq Calls,
             left' \in [Events -> Nat]
      PROVE  TypeInv'
      BY <1>1 DEF TypeInv, TypeOK, FullSteps
<1>2. /\ status \in [Entities -> {"new", "active", "archived", "gone"}]
      /\ obs \in [Entities -> Texts] /\ live \in Vectors
      /\ embeds \subseteq Calls
      /\ left \in [Events -> Nat] /\ config \in Widths
      BY DEF TypeInv, TypeOK
<1>3. \A event \in Events : Spend(event) => left' \in [Events -> Nat]
      BY <1>2 DEF Spend
<1>4. ASSUME NEW e \in Entities
      PROVE  [live EXCEPT ![e] = None] \in Vectors
      BY <1>2 DEF Vectors
<1>5. ASSUME NEW e \in Entities, NEW o \in Observations, Remember(e, o)
      PROVE  TypeInv'
  <2>1. [e |-> e, of |-> {o}, width |-> config, checked |-> FALSE]
           \in Calls
        BY <1>2 DEF Texts, Calls
  <2>2. left' \in [Events -> Nat]
        BY <1>3, <1>5 DEF Remember, Events
  <2> QED
      BY <1>1, <1>2, <1>5, <2>1, <2>2 DEF Remember, index, Texts
<1>6. ASSUME NEW e \in Entities, NEW o \in Observations,
             RemoveObservation(e, o)
      PROVE  TypeInv'
  <2>1. left' \in [Events -> Nat]
        BY <1>3, <1>6 DEF RemoveObservation, Events
  <2> QED
      BY <1>1, <1>2, <1>6, <2>1 DEF RemoveObservation, index, Texts
<1>7. ASSUME NEW e \in Entities, NEW text \in Texts, Rewrite(e, text)
      PROVE  TypeInv'
  <2>1. left' \in [Events -> Nat]
        BY <1>3, <1>7 DEF Rewrite, Events
  <2> QED
      BY <1>1, <1>2, <1>4, <1>7, <2>1 DEF Rewrite
<1>8. ASSUME NEW e \in Entities, ArchiveEntity(e) PROVE TypeInv'
  <2>1. left' \in [Events -> Nat]
        BY <1>3, <1>8 DEF ArchiveEntity, Events
  <2> QED
      BY <1>1, <1>2, <1>4, <1>8, <2>1 DEF ArchiveEntity
<1>9. ASSUME NEW e \in Entities, DeleteEntity(e) PROVE TypeInv'
  <2>1. left' \in [Events -> Nat]
        BY <1>3, <1>9 DEF DeleteEntity, Events
  <2> QED
      BY <1>1, <1>2, <1>4, <1>9, <2>1 DEF DeleteEntity, Texts
<1>10. ASSUME NEW m \in embeds, EmbedLost(m) PROVE TypeInv'
       BY <1>1, <1>2, <1>10 DEF EmbedLost, memory, index
<1>11. ASSUME NEW m \in embeds, EmbedAnswered(m) PROVE TypeInv'
  <2>1. m \in Calls
        BY <1>2
  <2>2. m.e \in Entities /\ [m EXCEPT !.checked = TRUE] \in Calls
        BY <2>1 DEF Calls
  <2> QED
      BY <1>1, <1>2, <1>4, <1>11, <2>2 DEF EmbedAnswered, memory
<1>12. ASSUME NEW m \in embeds, EmbedWritten(m) PROVE TypeInv'
  <2>1. [live EXCEPT ![m.e] = m.of] \in Vectors
        BY <1>2 DEF Vectors, Calls
  <2> QED
      BY <1>1, <1>2, <1>12, <2>1 DEF EmbedWritten, memory
<1>13. ASSUME NEW w \in Widths, SwitchProvider(w) PROVE TypeInv'
  <2>1. left' \in [Events -> Nat]
        BY <1>3, <1>13 DEF SwitchProvider, Events
  <2> QED
      BY <1>2, <1>13, <2>1
         DEF SwitchProvider, TypeInv, TypeOK, FullSteps, memory, index
<1>14. ASSUME NoticeMismatch PROVE TypeInv'
       BY <1>14 DEF NoticeMismatch, TypeInv, TypeOK, FullSteps, memory, index
<1>15. ASSUME DiscardGeneration PROVE TypeInv'
  <2>1. left' \in [Events -> Nat]
        BY <1>3, <1>15 DEF DiscardGeneration, Events
  <2>2. run \in [Rebuilders -> Runs]
        BY DEF TypeInv, TypeOK
  <2>3. run' \in [Rebuilders -> Runs] /\ FullSteps'
        BY <1>15, <2>2, DisturbedRuns
           DEF DiscardGeneration, TypeInv, FullSteps
  <2>4. ~NoStage.open /\ 0 \in Heights
        BY DEF NoStage, Heights
  <2> QED
      BY <1>15, <2>1, <2>3, <2>4, NoStageType
         DEF DiscardGeneration, TypeInv, TypeOK, memory, index
<1> QED
    BY <1>5, <1>6, <1>7, <1>8, <1>9, <1>10, <1>11, <1>12, <1>13, <1>14, <1>15
       DEF Others

-----------------------------------------------------------------------------
(* A run in a step it may be in                                              *)
Fit(x) ==
    /\ x \in Runs
    /\ x.pc \in {"discard", "open", "resume", "record", "swap"} => x.full
    /\ x.full => x.width \in Widths
    /\ x.pc \in {"embed", "write", "record"} => x.at \in Entities

StageOK ==
    /\ stage \in Stages
    /\ ~stage.open => stage = NoStage
    /\ stage.open => stage.width \in Widths

LEMMA NoStageOK == stage' = NoStage => StageOK'
<1> SUFFICES ASSUME stage' = NoStage PROVE StageOK'
    OBVIOUS
<1>1. ~NoStage.open
      BY DEF NoStage
<1> QED
    BY <1>1, NoStageType DEF StageOK

LEMMA TypeParts ==
    TypeInv => /\ StageOK
               /\ \A r \in Rebuilders : run[r] \in Runs /\ Fit(run[r])
BY DEF TypeInv, TypeOK, FullSteps, StageOK, Fit

(* A step of a run keeps the types when each thing it writes has its own     *)
LEMMA RunStep ==
    ASSUME TypeInv, Elsewhere, NEW r \in Rebuilders,
           \E x \in Runs : Fit(x) /\ run' = [run EXCEPT ![r] = x],
           live' \in Vectors, width' \in Widths, StageOK',
           marker' \in Heights, owed' \in BOOLEAN,
           left' \in [Events -> Nat]
    PROVE  TypeInv'
<1> PICK x \in Runs : Fit(x) /\ run' = [run EXCEPT ![r] = x]
    OBVIOUS
<1>1. run \in [Rebuilders -> Runs] /\ FullSteps
      BY DEF TypeInv, TypeOK
<1>2. run' \in [Rebuilders -> Runs] /\ FullSteps'
      BY <1>1 DEF Fit, FullSteps
<1> QED
    BY <1>2 DEF TypeInv, TypeOK, StageOK, Elsewhere, memory

(* The same for a step that leaves the index and the generation alone        *)
LEMMA QuietStep ==
    ASSUME TypeInv, Elsewhere, NEW r \in Rebuilders,
           UNCHANGED <<index, stage, marker>>, owed' \in BOOLEAN,
           \E x \in Runs : Fit(x) /\ run' = [run EXCEPT ![r] = x],
           left' \in [Events -> Nat]
    PROVE  TypeInv'
<1>1. /\ live' \in Vectors /\ width' \in Widths /\ StageOK'
      /\ marker' \in Heights
      BY DEF TypeInv, TypeOK, StageOK, index
<1> QED
    BY <1>1, RunStep

LEMMA GotoFit ==
    ASSUME NEW x, Fit(x),
           NEW p \in {"open", "resume", "list", "next", "embed", "write",
                      "record", "swap", "measure"},
           p \in {"open", "resume", "record", "swap"} => x.full,
           p \in {"embed", "write", "record"} => x.at \in Entities
    PROVE  Fit([x EXCEPT !.pc = p])
BY DEF Fit, Runs

LEMMA NotRunningFit == Fit(NotRunning)
<1>1. NotRunning.pc = "idle" /\ ~NotRunning.full
      BY DEF NotRunning
<1> QED
    BY <1>1, NotRunningType DEF Fit

(* The record that a failed outcome leaves                                   *)
LEMMA FailedFit ==
    ASSUME TypeInv, NEW r \in Rebuilders, Failed(r)
    PROVE  \E x \in Runs : Fit(x) /\ run' = [run EXCEPT ![r] = x]
<1>1. ASSUME NEW x, Fit(x), NEW t \in SUBSET Entities
      PROVE  Fit([x EXCEPT !.pc = "next", !.failed = TRUE, !.misses = @ + 1,
                           !.todo = t])
  <2> DEFINE z == [x EXCEPT !.pc = "next", !.failed = TRUE,
                            !.misses = @ + 1, !.todo = t]
  <2>1. x \in Runs /\ x.misses + 1 \in Nat
        BY <1>1 DEF Fit, Runs
  <2>2. z \in Runs
        BY <2>1 DEF Runs
  <2>3. z.pc = "next" /\ z.full = x.full /\ z.width = x.width
        BY <2>1 DEF Runs
  <2> QED
      BY <1>1, <2>2, <2>3 DEF Fit
<1>2. Fit(run[r]) /\ run[r].todo \in SUBSET Entities
      BY TypeParts DEF Runs
<1> DEFINE t == IF run[r].misses + 1 = FailureLimit THEN {} ELSE run[r].todo
           y == [run[r] EXCEPT !.pc = "next", !.failed = TRUE,
                               !.misses = @ + 1, !.todo = t]
<1>3. t \in SUBSET Entities
      BY <1>2
<1>4. Fit(y)
      BY <1>1, <1>2, <1>3
<1>5. run' = [run EXCEPT ![r] = y]
      BY DEF Failed
<1> QED
    BY <1>4, <1>5 DEF Fit

(* A vector put where a run writes                                           *)
LEMMA StoreType ==
    ASSUME TypeInv, NEW r \in Rebuilders, run[r].at \in Entities,
           TargetExists(r), NEW v \in {None} \cup Texts, Store(r, v)
    PROVE  live' \in Vectors /\ StageOK'
<1>1. live \in Vectors /\ StageOK
      BY TypeParts DEF TypeInv, TypeOK
<1>2. CASE run[r].full
  <2>1. stage.open /\ stage \in Stages /\ stage.width \in Widths
        BY <1>1, <1>2 DEF TargetExists, StageOK
  <2>2. [stage.rows EXCEPT ![run[r].at] = v] \in Vectors
        BY <2>1 DEF Stages, Vectors
  <2>3. /\ live' = live
        /\ stage' = [stage EXCEPT !.rows = [stage.rows EXCEPT
                                              ![run[r].at] = v]]
        BY <1>2 DEF Store
  <2>4. stage' \in Stages /\ stage'.open /\ stage'.width = stage.width
        BY <2>1, <2>2, <2>3 DEF Stages
  <2> QED
      BY <1>1, <2>1, <2>3, <2>4 DEF StageOK
<1>3. CASE ~run[r].full
      BY <1>1, <1>3 DEF Store, StageOK, Vectors
<1> QED
    BY <1>2, <1>3

LEMMA RebuildType ==
    ASSUME TypeInv, NEW r \in Rebuilders, Rebuild(r) PROVE TypeInv'
<1>1. /\ run \in [Rebuilders -> Runs]
      /\ live \in Vectors /\ width \in Widths /\ StageOK
      /\ marker \in Heights /\ owed \in BOOLEAN /\ config \in Widths
      /\ left \in [Events -> Nat]
      /\ obs \in [Entities -> Texts]
      BY TypeParts DEF TypeInv, TypeOK
<1>2. run[r] \in Runs /\ Fit(run[r])
      BY TypeParts
<1>3. \A event \in Events : Spend(event) => left' \in [Events -> Nat]
      BY <1>1 DEF Spend
<1> DEFINE To(p) == [run[r] EXCEPT !.pc = p]
<1>4. ASSUME NEW p \in {"open", "resume", "list", "next", "embed", "write",
                        "record", "swap", "measure"},
             p \in {"open", "resume", "record", "swap"} => run[r].full,
             p \in {"embed", "write", "record"} => run[r].at \in Entities,
             Goto(r, p)
      PROVE  \E x \in Runs : Fit(x) /\ run' = [run EXCEPT ![r] = x]
  <2>1. Fit(To(p))
        BY <1>2, <1>4, GotoFit
  <2> QED
      BY <1>4, <2>1 DEF Goto, Fit
<1>5. CASE BeginScoped(r)
  <2>1. \E x \in Runs : Fit(x) /\ run' = [run EXCEPT ![r] = x]
        BY <1>4, <1>5 DEF BeginScoped
  <2>2. left' \in [Events -> Nat]
        BY <1>3, <1>5 DEF BeginScoped, Events
  <2> QED
      BY <1>1, <1>5, <2>1, <2>2, QuietStep DEF BeginScoped, Elsewhere
<1>6. CASE BeginFull(r)
  <2> DEFINE compatible == stage.open /\ marker = config
             step == IF stage.open /\ ~compatible THEN "discard" ELSE "open"
             was == Disturbed(Running)[r]
             x == [was EXCEPT !.pc = step, !.full = TRUE, !.width = config,
                              !.resumed = compatible,
                              !.alone = Running = {}]
  <2>1. Disturbed(Running) \in [Rebuilders -> Runs] /\ was \in Runs
        BY <1>1, DisturbedRuns
  <2>2. ASSUME NEW y \in Runs, NEW p \in {"discard", "open"},
               NEW w \in Heights, NEW b \in BOOLEAN, NEW c \in BOOLEAN
        PROVE  [y EXCEPT !.pc = p, !.full = TRUE, !.width = w,
                         !.resumed = b, !.alone = c] \in Runs
        BY DEF Runs
  <2>3. config \in Heights /\ compatible \in BOOLEAN
        BY <1>1 DEF Heights, StageOK, Stages
  <2>4. x \in Runs
        BY <2>1, <2>2, <2>3
  <2>5. x.full /\ x.width = config
        BY <2>1 DEF Runs
  <2>6. run' = [Disturbed(Running) EXCEPT ![r] = x]
        BY <1>6 DEF BeginFull
  <2>7. run' \in [Rebuilders -> Runs]
        BY <2>1, <2>4, <2>6
  <2>8. ASSUME NEW q \in Rebuilders
        PROVE  /\ run'[q].pc \in {"discard", "open", "resume", "record",
                                  "swap"} => run'[q].full
               /\ run'[q].full => run'[q].width \in Widths
               /\ run'[q].pc \in {"embed", "write", "record"}
                     => run'[q].at \in Entities
    <3>1. CASE q = r
      <4>1. run'[q] = x /\ x.pc \in {"discard", "open"}
            BY <2>1, <2>6, <3>1 DEF Runs
      <4> QED
          BY <1>1, <2>5, <4>1
    <3>2. CASE q # r
      <4>1. run'[q] = Disturbed(Running)[q]
            BY <2>1, <2>6, <3>2
      <4>2. Fit(run[q])
            BY TypeParts
      <4> QED
          BY <1>1, <4>1, <4>2, DisturbedRuns DEF Fit
    <3> QED
        BY <3>1, <3>2
  <2>9. left' \in [Events -> Nat]
        BY <1>3, <1>6 DEF BeginFull, Events
  <2>10. UNCHANGED <<status, obs, live, width, stage, marker, owed, config,
                     embeds>>
        BY <1>6 DEF BeginFull, memory, index
  <2> QED
      BY <2>7, <2>8, <2>9, <2>10 DEF TypeInv, TypeOK, FullSteps
<1>7. CASE DiscardIncompatible(r)
  <2>1. \E x \in Runs : Fit(x) /\ run' = [run EXCEPT ![r] = x]
        BY <1>2, <1>4, <1>7 DEF DiscardIncompatible, Fit
  <2>2. StageOK' /\ marker' \in Heights
        BY <1>7, NoStageOK DEF DiscardIncompatible, Heights
  <2> QED
      BY <1>1, <1>7, <2>1, <2>2, RunStep
         DEF DiscardIncompatible, Elsewhere, index
<1>8. CASE OpenGeneration(r)
  <2>1. run[r].full /\ run[r].width \in Widths
        BY <1>2, <1>8 DEF OpenGeneration, Fit
  <2>2. \E x \in Runs : Fit(x) /\ run' = [run EXCEPT ![r] = x]
    <3>1. CASE run[r].resumed
          BY <1>4, <1>8, <2>1, <3>1 DEF OpenGeneration
    <3>2. CASE ~run[r].resumed
          BY <1>4, <1>8, <2>1, <3>2 DEF OpenGeneration
    <3> QED
        BY <3>1, <3>2
  <2>3. StageOK'
    <3>1. ASSUME NEW w \in Widths
          PROVE  /\ [NoStage EXCEPT !.open = TRUE, !.width = w] \in Stages
                 /\ [NoStage EXCEPT !.open = TRUE, !.width = w].open
                 /\ [NoStage EXCEPT !.open = TRUE, !.width = w].width = w
          BY NoStageType DEF Stages, Heights
    <3> QED
        BY <1>1, <1>8, <2>1, <3>1 DEF OpenGeneration, StageOK
  <2>4. marker' \in Heights
        BY <1>8, <2>1 DEF OpenGeneration, Heights
  <2> QED
      BY <1>1, <1>8, <2>2, <2>3, <2>4, RunStep
         DEF OpenGeneration, Elsewhere, index
<1>9. CASE ReadStaged(r)
  <2> DEFINE k == [e \in Entities |-> IF stage.rows[e] = None THEN None
                                      ELSE stage.hash[e]]
             x == [run[r] EXCEPT !.pc = "list", !.known = k]
  <2>1. k \in Vectors
        BY <1>1 DEF StageOK, Stages, Vectors
  <2>2. x \in Runs
        BY <1>2, <2>1 DEF Runs
  <2>3. x.pc = "list" /\ x.full = run[r].full /\ x.width = run[r].width
        BY <1>2 DEF Runs
  <2>4. Fit(x) /\ run' = [run EXCEPT ![r] = x]
        BY <1>2, <1>9, <2>2, <2>3 DEF Fit, ReadStaged
  <2> QED
      BY <1>1, <1>9, <2>2, <2>4, QuietStep DEF ReadStaged, Elsewhere
<1>10. CASE ListEntities(r)
  <2> DEFINE listed == IF run[r].full THEN Active ELSE Active \cap Namespace
             x == [run[r] EXCEPT !.pc = "next", !.todo = listed,
                                 !.listed = listed]
  <2>1. listed \in SUBSET Entities
        BY DEF Active
  <2>2. x \in Runs
        BY <1>2, <2>1 DEF Runs
  <2>3. x.pc = "next" /\ x.full = run[r].full /\ x.width = run[r].width
        BY <1>2 DEF Runs
  <2>4. Fit(x) /\ run' = [run EXCEPT ![r] = x]
        BY <1>2, <1>10, <2>2, <2>3 DEF Fit, ListEntities
  <2> QED
      BY <1>1, <1>10, <2>2, <2>4, QuietStep DEF ListEntities, Elsewhere
<1>11. CASE Visit(r)
  <2> PICK e \in run[r].todo :
        LET visited == [run[r] EXCEPT !.todo = @ \ {e}]
        IN  run' = [run EXCEPT ![r] =
              IF obs[e] = {}
              THEN [visited EXCEPT !.excused = @ \cup {e}]
              ELSE IF visited.known[e] = obs[e]
              THEN [visited EXCEPT !.verified = [@ EXCEPT ![e] = obs[e]]]
              ELSE [visited EXCEPT !.pc = "embed", !.at = e, !.with = config,
                                   !.verified = [@ EXCEPT ![e] = obs[e]]]]
      BY <1>11 DEF Visit
  <2>1. e \in Entities /\ obs[e] \in Texts /\ config \in Heights
        BY <1>1, <1>2 DEF Runs, Heights
  <2> DEFINE visited == [run[r] EXCEPT !.todo = run[r].todo \ {e}]
  <2>2. /\ visited \in Runs /\ Fit(visited)
        /\ visited.pc = "next"
    <3>1. run[r].pc = "next"
          BY <1>11 DEF Visit
    <3>2. visited \in Runs
          BY <1>2, <2>1 DEF Runs
    <3>3. /\ visited.pc = "next" /\ visited.full = run[r].full
          /\ visited.width = run[r].width
          BY <1>2, <3>1 DEF Runs
    <3> QED
        BY <1>2, <3>2, <3>3 DEF Fit
  <2>3. ASSUME NEW v \in Runs, Fit(v), v.pc = "next", NEW t \in Texts
        PROVE  /\ Fit([v EXCEPT !.excused = v.excused \cup {e}])
               /\ Fit([v EXCEPT !.verified = [v.verified EXCEPT ![e] = t]])
               /\ Fit([v EXCEPT !.pc = "embed", !.at = e, !.with = config,
                                !.verified = [v.verified EXCEPT ![e] = t]])
    <3>1. [v.verified EXCEPT ![e] = t] \in Vectors
          BY <2>1, <2>3 DEF Runs, Vectors
    <3>2. Fit([v EXCEPT !.excused = v.excused \cup {e}])
          BY <2>1, <2>3 DEF Fit, Runs
    <3>3. ASSUME NEW n \in Vectors
          PROVE  /\ Fit([v EXCEPT !.verified = n])
                 /\ Fit([v EXCEPT !.pc = "embed", !.at = e, !.with = config,
                                  !.verified = n])
          BY <2>1, <2>3 DEF Fit, Runs
    <3> QED
        BY <3>1, <3>2, <3>3
  <2>4. \E x \in Runs : Fit(x) /\ run' = [run EXCEPT ![r] = x]
        BY <2>1, <2>2, <2>3 DEF Fit
  <2> QED
      BY <1>1, <1>11, <2>4, QuietStep DEF Visit, Elsewhere, index
<1>12. ASSUME Failed(r), UNCHANGED <<live, stage>>, Elsewhere,
               UNCHANGED <<width, marker, owed, left>>
       PROVE   TypeInv'
  <2>1. \E x \in Runs : Fit(x) /\ run' = [run EXCEPT ![r] = x]
        BY <1>12, FailedFit
  <2> QED
      BY <1>1, <1>12, <2>1, QuietStep DEF index
<1>13. CASE NoEmbedding(r)
       BY <1>12, <1>13 DEF NoEmbedding, index
<1>14. CASE Embedded(r)
  <2>1. Elsewhere /\ UNCHANGED <<width, marker, owed, left>>
        BY <1>14 DEF Embedded
  <2>2. CASE Failed(r) /\ UNCHANGED <<live, stage>>
        BY <1>12, <2>1, <2>2
  <2>3. CASE Goto(r, "write") /\ UNCHANGED <<live, stage>>
    <3>1. run[r].at \in Entities
          BY <1>2, <1>14 DEF Fit, Embedded
    <3>2. \E x \in Runs : Fit(x) /\ run' = [run EXCEPT ![r] = x]
          BY <1>4, <2>3, <3>1
    <3> QED
        BY <1>1, <2>1, <2>3, <3>2, QuietStep DEF index
  <2>4. CASE /\ TargetExists(r) /\ Store(r, None)
             /\ run' = [run EXCEPT ![r] =
                          [run[r] EXCEPT !.pc = "next",
                             !.excused = run[r].excused \cup {run[r].at}]]
    <3> DEFINE x == [run[r] EXCEPT !.pc = "next",
                       !.excused = run[r].excused \cup {run[r].at}]
    <3>1. run[r].at \in Entities
          BY <1>2, <1>14 DEF Fit, Embedded
    <3>2. x \in Runs
      <4>1. run[r].excused \cup {run[r].at} \in SUBSET Entities
            BY <1>2, <3>1 DEF Runs
      <4> QED
          BY <1>2, <4>1 DEF Runs
    <3>3. x.pc = "next" /\ x.full = run[r].full /\ x.width = run[r].width
          BY <1>2 DEF Runs
    <3>4. Fit(x)
          BY <1>2, <3>2, <3>3 DEF Fit
    <3>5. live' \in Vectors /\ StageOK'
          BY <2>4, <3>1, StoreType
    <3> QED
        BY <1>1, <2>1, <2>4, <3>2, <3>4, <3>5, RunStep
  <2> QED
      BY <1>14, <2>2, <2>3, <2>4 DEF Embedded
<1>15. CASE Write(r)
  <2>1. Elsewhere /\ UNCHANGED <<width, marker, owed, left>>
        BY <1>15 DEF Write
  <2>2. CASE Failed(r) /\ UNCHANGED <<live, stage>>
        BY <1>12, <2>1, <2>2
  <2> DEFINE p == IF run[r].full THEN "record" ELSE "next"
             n == IF run[r].full THEN run[r].misses ELSE 0
             x == [run[r] EXCEPT !.pc = p, !.misses = n]
  <2>3. CASE /\ TargetExists(r)
             /\ Store(r, run[r].verified[run[r].at])
             /\ run' = [run EXCEPT ![r] = x]
    <3>1. run[r].at \in Entities
          BY <1>2, <1>15 DEF Fit, Write
    <3>2. run[r].verified[run[r].at] \in {None} \cup Texts
          BY <1>2, <3>1 DEF Runs, Vectors
    <3>3. live' \in Vectors /\ StageOK'
          BY <2>3, <3>1, <3>2, StoreType
    <3>4. n \in Nat /\ p \in {"record", "next"} /\ (p = "record" => run[r].full)
          BY <1>2 DEF Runs
    <3>5. x \in Runs
          BY <1>2, <3>4 DEF Runs
    <3>6. /\ x.pc = p /\ x.full = run[r].full /\ x.width = run[r].width
          /\ x.at = run[r].at
          BY <1>2 DEF Runs
    <3>7. Fit(x)
          BY <1>2, <3>1, <3>4, <3>5, <3>6 DEF Fit
    <3> QED
        BY <1>1, <2>1, <2>3, <3>3, <3>5, <3>7, RunStep
  <2> QED
      BY <1>15, <2>2, <2>3 DEF Write
<1>16. CASE RecordRow(r)
  <2>1. run[r].at \in Entities
        BY <1>2, <1>16 DEF Fit, RecordRow
  <2>2. ASSUME stage.open,
               stage' = [stage EXCEPT !.hash = [stage.hash EXCEPT
                           ![run[r].at] = run[r].verified[run[r].at]]]
        PROVE  StageOK'
    <3> DEFINE h == [stage.hash EXCEPT
                       ![run[r].at] = run[r].verified[run[r].at]]
    <3>1. h \in Vectors
      <4>1. run[r].verified \in Vectors /\ stage.hash \in Vectors
            BY <1>1, <1>2 DEF StageOK, Stages, Runs
      <4> QED
          BY <2>1, <4>1 DEF Vectors
    <3>2. stage' \in Stages /\ stage'.open /\ stage'.width = stage.width
          BY <1>1, <2>2, <3>1 DEF StageOK, Stages
    <3> QED
        BY <1>1, <2>2, <3>2 DEF StageOK
  <2> DEFINE x == [run[r] EXCEPT !.pc = "next", !.misses = 0]
             y == [run[r] EXCEPT !.pc = "next", !.failed = TRUE]
  <2>3. Fit(x) /\ Fit(y) /\ x \in Runs /\ y \in Runs
    <3>1. ASSUME NEW z \in Runs
          PROVE  /\ [z EXCEPT !.pc = "next", !.misses = 0] \in Runs
                 /\ [z EXCEPT !.pc = "next", !.failed = TRUE] \in Runs
          BY DEF Runs
    <3>2. x \in Runs /\ y \in Runs
          BY <1>2, <3>1
    <3>3. /\ x.pc = "next" /\ x.full = run[r].full /\ x.width = run[r].width
          /\ y.pc = "next" /\ y.full = run[r].full /\ y.width = run[r].width
          BY <1>2 DEF Runs
    <3> QED
        BY <1>2, <3>2, <3>3 DEF Fit
  <2>4. StageOK'
        BY <1>1, <1>16, <2>2 DEF RecordRow, StageOK
  <2>5. run' = [run EXCEPT ![r] = x] \/ run' = [run EXCEPT ![r] = y]
        BY <1>16 DEF RecordRow
  <2>6. \E z \in Runs : Fit(z) /\ run' = [run EXCEPT ![r] = z]
        BY <2>3, <2>5
  <2> QED
      BY <1>1, <1>16, <2>4, <2>6, RunStep DEF RecordRow, index
<1>17. CASE Count(r)
  <2>1. \E x \in Runs : Fit(x) /\ run' = [run EXCEPT ![r] = x]
    <3>1. CASE run[r].full /\ Complete(r)
          BY <1>4, <1>17, <3>1 DEF Count
    <3>2. CASE ~(run[r].full /\ Complete(r))
          BY <1>4, <1>17, <3>2 DEF Count
    <3> QED
        BY <3>1, <3>2
  <2> QED
      BY <1>1, <1>17, <2>1, QuietStep DEF Count, index
<1>18. CASE Swap(r)
  <2> DEFINE x == [run[r] EXCEPT !.pc = "measure", !.swapped = TRUE]
  <2>1. run[r].full /\ run[r].width \in Widths
        BY <1>2, <1>18 DEF Fit, Swap
  <2>2. Fit(x) /\ x \in Runs
        BY <1>2 DEF Fit, Runs
  <2>3. run' = [run EXCEPT ![r] = x]
        BY <1>18 DEF Swap
  <2>4. live' \in Vectors
        BY <1>1, <1>18 DEF Swap, Vectors, StageOK, Stages, Pruned, Carried
  <2>5. StageOK' /\ marker' \in Heights
        BY <1>18, NoStageOK DEF Swap, Heights
  <2> QED
      BY <1>1, <1>18, <2>1, <2>2, <2>3, <2>4, <2>5, RunStep DEF Swap
<1>19. CASE SwapFails(r)
  <2>1. \E x \in Runs : Fit(x) /\ run' = [run EXCEPT ![r] = x]
        BY <1>19, NotRunningFit, NotRunningType DEF SwapFails
  <2> QED
      BY <1>1, <1>19, <2>1, QuietStep DEF SwapFails, index
<1>20. CASE Measure(r)
  <2>1. \E x \in Runs : Fit(x) /\ run' = [run EXCEPT ![r] = x]
        BY <1>20, NotRunningFit, NotRunningType DEF Measure
  <2>2. owed' \in BOOLEAN
        BY <1>1, <1>20 DEF Measure, Verdict
  <2> QED
      BY <1>1, <1>20, <2>1, <2>2, QuietStep DEF Measure, index
<1>21. CASE CrashRebuild(r)
  <2>1. \E x \in Runs : Fit(x) /\ run' = [run EXCEPT ![r] = x]
        BY <1>21, NotRunningFit, NotRunningType DEF CrashRebuild
  <2>2. left' \in [Events -> Nat]
        BY <1>3, <1>21 DEF CrashRebuild, Events
  <2> QED
      BY <1>1, <1>21, <2>1, <2>2, QuietStep DEF CrashRebuild, index
<1> QED
    BY <1>5, <1>6, <1>7, <1>8, <1>9, <1>10, <1>11, <1>13, <1>14, <1>15, <1>16,
       <1>17, <1>18, <1>19, <1>20, <1>21
       DEF Rebuild

(* What holds initially and is kept by everyone holds always                 *)
LEMMA TypeAlways == Spec => []TypeInv
<1>1. TypeInv /\ UNCHANGED vars => TypeInv'
      BY DEF TypeInv, TypeOK, FullSteps, vars
<1>2. TypeInv /\ [Next]_vars => TypeInv'
      BY <1>1, OthersType, RebuildType DEF Next
<1> QED
    BY TypeInit, <1>2, PTL DEF Spec

(* The index, the staged generation and every rebuild keep their types, for  *)
(* any number of memories, rebuilding processes, widths and failures; and a  *)
(* closed generation holds no rows (db.ts, operations.ts).                   *)
THEOREM TypeCorrect == Spec => []TypeOK
<1>1. TypeInv => TypeOK
      BY DEF TypeInv
<1> QED
    BY TypeAlways, <1>1, PTL

-----------------------------------------------------------------------------
(* The switch itself: who makes it, and what it leaves                       *)

(* A step of one run is no step of another, but may disturb it               *)
LEMMA OwnRun ==
    ASSUME TypeInv, NEW q \in Rebuilders, Rebuild(q)
    PROVE  \/ \E x : run' = [run EXCEPT ![q] = x]
           \/ BeginFull(q) /\ \E x :
                 run' = [Disturbed(Running) EXCEPT ![q] = x]
BY Zenon DEF Rebuild, BeginScoped, BeginFull, DiscardIncompatible,
   OpenGeneration, ReadStaged, ListEntities, Visit, NoEmbedding, Embedded,
   Write, RecordRow, Count, Swap, SwapFails, Measure, CrashRebuild, Goto, Failed

LEMMA OthersRun ==
    ASSUME Others
    PROVE  run' = run \/ run' = Disturbed(Running)
BY DEF Others, Remember, RemoveObservation, Rewrite, ArchiveEntity,
   DeleteEntity, EmbedLost, EmbedAnswered, EmbedWritten, SwitchProvider,
   NoticeMismatch, DiscardGeneration

(* What each step of a run leaves of its record                              *)
Keeps(x, y) ==
    /\ y.full = x.full /\ y.known = x.known /\ y.listed = x.listed
    /\ y.swapped = x.swapped /\ y.alone = x.alone /\ y.resumed = x.resumed
KeepsWork(x, y) ==
    /\ y.todo = x.todo /\ y.excused = x.excused /\ y.at = x.at
    /\ y.verified = x.verified
KeepsAll(x, y) == Keeps(x, y) /\ KeepsWork(x, y) /\ y.failed = x.failed

LEMMA GotoFields ==
    ASSUME TypeInv, NEW r \in Rebuilders, NEW p, Goto(r, p)
    PROVE  run'[r].pc = p /\ KeepsAll(run[r], run'[r])
<1>1. run \in [Rebuilders -> Runs] /\ run[r] \in Runs
      BY DEF TypeInv, TypeOK
<1>2. run'[r] = [run[r] EXCEPT !.pc = p]
      BY <1>1 DEF Goto
<1> QED
    BY <1>1, <1>2 DEF KeepsAll, Keeps, KeepsWork, Runs

LEMMA FailedFields ==
    ASSUME TypeInv, NEW r \in Rebuilders, Failed(r)
    PROVE  /\ run'[r].pc = "next" /\ run'[r].failed
           /\ Keeps(run[r], run'[r])
           /\ run'[r].todo \subseteq run[r].todo
           /\ run'[r].excused = run[r].excused
           /\ run'[r].verified = run[r].verified
<1>1. run \in [Rebuilders -> Runs] /\ run[r] \in Runs
      BY DEF TypeInv, TypeOK
<1> DEFINE t == IF run[r].misses + 1 = FailureLimit THEN {} ELSE run[r].todo
           n == run[r].misses + 1
<1>2. run'[r] = [run[r] EXCEPT !.pc = "next", !.failed = TRUE,
                               !.misses = n, !.todo = t]
      BY <1>1 DEF Failed
<1>3. t \subseteq run[r].todo
      OBVIOUS
<1> HIDE DEF n, t
<1> QED
    BY <1>1, <1>2, <1>3 DEF Keeps, Runs

LEMMA BeginFields ==
    ASSUME TypeInv, NEW r \in Rebuilders, BeginFull(r)
    PROVE  /\ run'[r].pc \in {"discard", "open"}
           /\ run'[r].full
           /\ run'[r].alone => Running = {}
           /\ run'[r].known = run[r].known
           /\ run'[r].swapped = run[r].swapped
           /\ run'[r].failed = run[r].failed
           /\ run'[r].excused = run[r].excused
           /\ run'[r].pc = "open" => run'[r].resumed \/ ~stage.open
<1>1. /\ Disturbed(Running) \in [Rebuilders -> Runs]
      /\ r \notin Running => Disturbed(Running)[r] = run[r]
      /\ Disturbed(Running)[r].known = run[r].known
      /\ Disturbed(Running)[r].swapped = run[r].swapped
      /\ Disturbed(Running)[r].failed = run[r].failed
      /\ Disturbed(Running)[r].excused = run[r].excused
      BY DisturbedRuns DEF TypeInv, TypeOK
<1> DEFINE y == Disturbed(Running)[r]
           p == IF stage.open /\ ~(stage.open /\ marker = config)
                THEN "discard" ELSE "open"
           c == stage.open /\ marker = config
           a == Running = {}
<1>2. y \in Runs
      BY <1>1
<1>3. run'[r] = [y EXCEPT !.pc = p, !.full = TRUE, !.width = config,
                          !.resumed = c, !.alone = a]
      BY <1>1 DEF BeginFull
<1>4. /\ p \in {"discard", "open"} /\ (a => Running = {})
      /\ p = "open" => c \/ ~stage.open
      /\ c \in BOOLEAN
      OBVIOUS
<1>5. /\ y.known = run[r].known /\ y.swapped = run[r].swapped
      /\ y.failed = run[r].failed /\ y.excused = run[r].excused
      BY <1>1
<1> HIDE DEF y, p, c, a
<1> QED
    BY <1>2, <1>3, <1>4, <1>5 DEF Runs

LEMMA ListFields ==
    ASSUME TypeInv, NEW r \in Rebuilders, ListEntities(r)
    PROVE  /\ run'[r].pc = "next" /\ run'[r].todo = run'[r].listed
           /\ run'[r].full = run[r].full /\ run'[r].known = run[r].known
           /\ run'[r].swapped = run[r].swapped
           /\ run'[r].alone = run[r].alone
           /\ run'[r].resumed = run[r].resumed
           /\ run'[r].excused = run[r].excused
<1>1. run \in [Rebuilders -> Runs] /\ run[r] \in Runs
      BY DEF TypeInv, TypeOK
<1> DEFINE l == IF run[r].full THEN Active ELSE Active \cap Namespace
<1>2. run'[r] = [run[r] EXCEPT !.pc = "next", !.todo = l, !.listed = l]
      BY <1>1 DEF ListEntities
<1> HIDE DEF l
<1> QED
    BY <1>1, <1>2 DEF Runs

LEMMA ReadFields ==
    ASSUME TypeInv, NEW r \in Rebuilders, ReadStaged(r)
    PROVE  /\ run'[r].pc = "list"
           /\ run'[r].known = [e \in Entities |->
                                 IF stage.rows[e] = None THEN None
                                 ELSE stage.hash[e]]
           /\ run'[r].full = run[r].full /\ run'[r].failed = run[r].failed
           /\ run'[r].swapped = run[r].swapped
           /\ run'[r].alone = run[r].alone
           /\ run'[r].resumed = run[r].resumed
           /\ run'[r].excused = run[r].excused
<1>1. run \in [Rebuilders -> Runs] /\ run[r] \in Runs
      BY DEF TypeInv, TypeOK
<1> DEFINE k == [e \in Entities |-> IF stage.rows[e] = None THEN None
                                    ELSE stage.hash[e]]
<1>2. run'[r] = [run[r] EXCEPT !.pc = "list", !.known = k]
      BY <1>1 DEF ReadStaged
<1> HIDE DEF k
<1>3. /\ run'[r].pc = "list" /\ run'[r].known = k
      /\ run'[r].full = run[r].full /\ run'[r].failed = run[r].failed
      /\ run'[r].swapped = run[r].swapped
      /\ run'[r].alone = run[r].alone
      /\ run'[r].resumed = run[r].resumed
      /\ run'[r].excused = run[r].excused
      BY <1>1, <1>2 DEF Runs
<1> QED
    BY <1>3 DEF k

(* A visit excuses the entity, verifies it at once, or goes on to embed it   *)
LEMMA VisitFields ==
    ASSUME TypeInv, NEW r \in Rebuilders, Visit(r)
    PROVE  \E e \in run[r].todo :
              /\ Keeps(run[r], run'[r])
              /\ run'[r].failed = run[r].failed
              /\ run'[r].todo = run[r].todo \ {e}
              /\ \/ /\ run'[r].pc = "next"
                    /\ run'[r].excused = run[r].excused \cup {e}
                    /\ run'[r].verified = run[r].verified
                 \/ /\ run'[r].excused = run[r].excused
                    /\ run'[r].verified = [run[r].verified EXCEPT
                                             ![e] = obs[e]]
                    /\ \/ /\ run'[r].pc = "next"
                          /\ run[r].known[e] = obs[e]
                       \/ /\ run'[r].pc = "embed"
                          /\ run'[r].at = e
<1>1. run \in [Rebuilders -> Runs] /\ run[r] \in Runs /\ run[r].pc = "next"
      BY DEF TypeInv, TypeOK, Visit
<1> DEFINE Visited(e) == [run[r] EXCEPT !.todo = run[r].todo \ {e}]
<1> PICK e \in run[r].todo :
      run' = [run EXCEPT ![r] =
        IF obs[e] = {}
        THEN [Visited(e) EXCEPT !.excused = Visited(e).excused \cup {e}]
        ELSE IF Visited(e).known[e] = obs[e]
        THEN [Visited(e) EXCEPT !.verified = [Visited(e).verified EXCEPT
                                                ![e] = obs[e]]]
        ELSE [Visited(e) EXCEPT !.pc = "embed", !.at = e, !.with = config,
                !.verified = [Visited(e).verified EXCEPT ![e] = obs[e]]]]
    BY DEF Visit
<1> WITNESS e \in run[r].todo
<1> DEFINE v == Visited(e)
<1>2. v \in Runs
      BY <1>1 DEF Runs
<1>3. /\ v.pc = "next" /\ Keeps(run[r], v) /\ v.failed = run[r].failed
      /\ v.todo = run[r].todo \ {e} /\ v.excused = run[r].excused
      /\ v.verified = run[r].verified
      BY <1>1 DEF Runs, Keeps
<1> DEFINE y == run'[r]
           d == v.excused \cup {e}
           u == [v.verified EXCEPT ![e] = obs[e]]
<1>4. \/ y = [v EXCEPT !.excused = d]
      \/ v.known[e] = obs[e] /\ y = [v EXCEPT !.verified = u]
      \/ y = [v EXCEPT !.pc = "embed", !.at = e, !.with = config,
                       !.verified = u]
  <2> HIDE DEF Visited
  <2>1. run'[r] = IF obs[e] = {} THEN [v EXCEPT !.excused = d]
                  ELSE IF v.known[e] = obs[e]
                  THEN [v EXCEPT !.verified = u]
                  ELSE [v EXCEPT !.pc = "embed", !.at = e, !.with = config,
                                 !.verified = u]
        BY <1>1
  <2> HIDE DEF v, d, u
  <2> QED
      BY <2>1
<1>5. /\ d = run[r].excused \cup {e}
      /\ u = [run[r].verified EXCEPT ![e] = obs[e]]
      /\ v.known[e] = run[r].known[e]
  <2> HIDE DEF Visited
  <2> QED
      BY <1>3 DEF Keeps
<1> HIDE DEF v, Visited, y, d, u
<1>6. CASE y = [v EXCEPT !.excused = d]
  <2>1. /\ y.pc = "next" /\ Keeps(v, y) /\ y.failed = v.failed
        /\ y.todo = v.todo /\ y.excused = d /\ y.verified = v.verified
        BY <1>2, <1>3, <1>6 DEF Runs, Keeps
  <2> QED
      BY <1>3, <1>5, <2>1 DEF Keeps, y
<1>7. CASE v.known[e] = obs[e] /\ y = [v EXCEPT !.verified = u]
  <2>1. /\ y.pc = "next" /\ Keeps(v, y) /\ y.failed = v.failed
        /\ y.todo = v.todo /\ y.excused = v.excused /\ y.verified = u
        BY <1>2, <1>3, <1>7 DEF Runs, Keeps
  <2> QED
      BY <1>3, <1>5, <1>7, <2>1 DEF Keeps, y
<1>8. CASE y = [v EXCEPT !.pc = "embed", !.at = e, !.with = config,
                         !.verified = u]
  <2>1. /\ y.pc = "embed" /\ Keeps(v, y) /\ y.failed = v.failed /\ y.at = e
        /\ y.todo = v.todo /\ y.excused = v.excused /\ y.verified = u
        BY <1>2, <1>3, <1>8 DEF Runs, Keeps
  <2> QED
      BY <1>3, <1>5, <2>1 DEF Keeps, y
<1> QED
    BY <1>4, <1>6, <1>7, <1>8

(* The answer fails, excuses the entity, whose row is cleared, or goes on to *)
(* the write                                                                 *)
LEMMA EmbeddedFields ==
    ASSUME TypeInv, NEW r \in Rebuilders, Embedded(r)
    PROVE  \/ Failed(r) /\ UNCHANGED stage
           \/ Goto(r, "write") /\ UNCHANGED stage
           \/ /\ Store(r, None)
              /\ run'[r].pc = "next" /\ Keeps(run[r], run'[r])
              /\ run'[r].failed = run[r].failed /\ run'[r].todo = run[r].todo
              /\ run'[r].excused = run[r].excused \cup {run[r].at}
              /\ run'[r].verified = run[r].verified
<1>1. run \in [Rebuilders -> Runs] /\ run[r] \in Runs
      BY DEF TypeInv, TypeOK
<1> DEFINE x == run[r]
           d == x.excused \cup {x.at}
<1>2. CASE /\ Store(r, None)
           /\ run' = [run EXCEPT ![r] = [x EXCEPT !.pc = "next",
                                                  !.excused = d]]
  <2>1. run'[r] = [x EXCEPT !.pc = "next", !.excused = d]
        BY <1>1, <1>2
  <2> HIDE DEF d
  <2>2. /\ run'[r].pc = "next" /\ Keeps(run[r], run'[r])
        /\ run'[r].failed = run[r].failed /\ run'[r].todo = run[r].todo
        /\ run'[r].excused = d /\ run'[r].verified = run[r].verified
        BY <1>1, <2>1 DEF Runs, Keeps
  <2> QED
      BY <1>2, <2>2 DEF d
<1> QED
    BY <1>2 DEF Embedded

LEMMA WriteFields ==
    ASSUME TypeInv, NEW r \in Rebuilders, Write(r)
    PROVE  \/ Failed(r) /\ UNCHANGED stage
           \/ /\ TargetExists(r)
              /\ Store(r, run[r].verified[run[r].at])
              /\ run'[r].pc = IF run[r].full THEN "record" ELSE "next"
              /\ KeepsAll(run[r], run'[r])
<1>1. run \in [Rebuilders -> Runs] /\ run[r] \in Runs
      BY DEF TypeInv, TypeOK
<1> DEFINE p == IF run[r].full THEN "record" ELSE "next"
           n == IF run[r].full THEN run[r].misses ELSE 0
<1>2. CASE /\ TargetExists(r)
           /\ Store(r, run[r].verified[run[r].at])
           /\ run' = [run EXCEPT ![r] = [run[r] EXCEPT !.pc = p,
                                                       !.misses = n]]
  <2>1. run'[r] = [run[r] EXCEPT !.pc = p, !.misses = n]
        BY <1>1, <1>2
  <2> HIDE DEF p, n
  <2>2. run'[r].pc = p /\ KeepsAll(run[r], run'[r])
        BY <1>1, <2>1 DEF Runs, KeepsAll, Keeps, KeepsWork
  <2> QED
      BY <1>2, <2>2 DEF p
<1> QED
    BY <1>2 DEF Write

LEMMA RecordFields ==
    ASSUME TypeInv, NEW r \in Rebuilders, RecordRow(r)
    PROVE  /\ run'[r].pc = "next" /\ Keeps(run[r], run'[r])
           /\ KeepsWork(run[r], run'[r])
           /\ \/ /\ stage' = [stage EXCEPT !.hash =
                                [stage.hash EXCEPT ![run[r].at] =
                                   run[r].verified[run[r].at]]]
                 /\ run'[r].failed = run[r].failed
              \/ run'[r].failed /\ UNCHANGED stage
<1>1. run \in [Rebuilders -> Runs] /\ run[r] \in Runs
      BY DEF TypeInv, TypeOK
<1>2. CASE run' = [run EXCEPT ![r] = [run[r] EXCEPT !.pc = "next",
                                                    !.misses = 0]]
           /\ stage' = [stage EXCEPT !.hash =
                          [stage.hash EXCEPT ![run[r].at] =
                             run[r].verified[run[r].at]]]
  <2>1. run'[r] = [run[r] EXCEPT !.pc = "next", !.misses = 0]
        BY <1>1, <1>2
  <2>2. run'[r].pc = "next" /\ KeepsAll(run[r], run'[r])
        BY <1>1, <2>1 DEF Runs, KeepsAll, Keeps, KeepsWork
  <2> QED
      BY <1>2, <2>2 DEF KeepsAll
<1>3. CASE run' = [run EXCEPT ![r] = [run[r] EXCEPT !.pc = "next",
                                                    !.failed = TRUE]]
           /\ UNCHANGED stage
  <2>1. run'[r] = [run[r] EXCEPT !.pc = "next", !.failed = TRUE]
        BY <1>1, <1>3
  <2>2. /\ run'[r].pc = "next" /\ Keeps(run[r], run'[r])
        /\ KeepsWork(run[r], run'[r]) /\ run'[r].failed
        BY <1>1, <2>1 DEF Runs, Keeps, KeepsWork
  <2> QED
      BY <1>3, <2>2
<1> QED
    BY <1>2, <1>3 DEF RecordRow

LEMMA SwapFields ==
    ASSUME TypeInv, NEW r \in Rebuilders, Swap(r)
    PROVE  /\ run'[r].pc = "measure" /\ run'[r].swapped
           /\ run'[r].full = run[r].full /\ run'[r].alone = run[r].alone
<1>1. run \in [Rebuilders -> Runs] /\ run[r] \in Runs
      BY DEF TypeInv, TypeOK
<1>2. run'[r] = [run[r] EXCEPT !.pc = "measure", !.swapped = TRUE]
      BY <1>1 DEF Swap
<1> QED
    BY <1>1, <1>2 DEF Runs

LEMMA EndFields ==
    ASSUME TypeInv, NEW r \in Rebuilders,
           SwapFails(r) \/ Measure(r) \/ CrashRebuild(r)
    PROVE  run'[r] = NotRunning /\ UNCHANGED stage
BY DEF SwapFails, Measure, CrashRebuild, TypeInv, TypeOK

(* Only the switch makes a run one that has switched                         *)
LEMMA OnlySwap ==
    ASSUME TypeInv, [Next]_vars, NEW r \in Rebuilders, SwappedBy(r)
    PROVE  Swap(r)
<1>1. run \in [Rebuilders -> Runs] /\ ~run[r].swapped /\ run'[r].swapped
      BY DEF TypeInv, TypeOK, SwappedBy
<1>2. run' # run /\ run' # Disturbed(Running)
      BY <1>1, DisturbedRuns
<1>3. PICK q \in Rebuilders : Rebuild(q)
      BY <1>2, OthersRun DEF Next, vars
<1>4. q = r
      BY <1>1, <1>3, OwnRun, DisturbedRuns
<1>5. ~NotRunning.swapped
      BY DEF NotRunning
<1>6. ~Failed(r) /\ \A p : ~Goto(r, p)
      BY <1>1, FailedFields, GotoFields DEF Keeps, KeepsAll
<1>7. ~BeginScoped(r) /\ ~BeginFull(r) /\ ~DiscardIncompatible(r)
      /\ ~OpenGeneration(r)
      BY <1>1, <1>6, BeginFields
         DEF BeginScoped, DiscardIncompatible, OpenGeneration
<1>8. ~ReadStaged(r) /\ ~ListEntities(r) /\ ~Visit(r)
      BY <1>1, ReadFields, ListFields, VisitFields DEF Keeps
<1>9. ~NoEmbedding(r) /\ ~Embedded(r) /\ ~Write(r) /\ ~RecordRow(r)
      BY <1>1, <1>6, EmbeddedFields, WriteFields, RecordFields
         DEF NoEmbedding, Keeps, KeepsAll
<1>10. ~Count(r) /\ ~SwapFails(r) /\ ~Measure(r) /\ ~CrashRebuild(r)
       BY <1>1, <1>5, <1>6, EndFields DEF Count
<1> QED
    BY <1>3, <1>4, <1>7, <1>8, <1>9, <1>10 DEF Rebuild

(* Who can put a vector into the live index                                  *)
LEMMA LiveWriters ==
    ASSUME TypeInv, [Next]_vars, NEW e \in Entities,
           live[e] = None, live'[e] # None
    PROVE  \/ \E m \in embeds : EmbedWritten(m) /\ m.e = e
           \/ \E r \in Rebuilders :
                 Write(r) /\ ~run[r].full /\ run[r].at = e
           \/ \E r \in Rebuilders : Swap(r)
<1>1. live \in Vectors /\ live' # live
      BY DEF TypeInv, TypeOK
<1>2. ASSUME NEW d \in Entities PROVE live' # [live EXCEPT ![d] = None]
      BY <1>1 DEF Vectors
<1>3. CASE Others
  <2>1. PICK m \in embeds : EmbedWritten(m) \/ EmbedAnswered(m)
        BY <1>1, <1>2, <1>3
           DEF Others, Remember, RemoveObservation, Rewrite, ArchiveEntity,
               DeleteEntity, EmbedLost, SwitchProvider, NoticeMismatch,
               DiscardGeneration, index
  <2>2. m.e \in Entities
        BY DEF TypeInv, TypeOK, Calls
  <2>3. EmbedWritten(m)
        BY <1>1, <1>2, <2>1, <2>2 DEF EmbedAnswered
  <2>4. live' = [live EXCEPT ![m.e] = m.of]
        BY <1>1, <2>3 DEF EmbedWritten
  <2> QED
      BY <1>1, <2>2, <2>3, <2>4 DEF Vectors
<1>4. ASSUME NEW r \in Rebuilders, Rebuild(r), ~Swap(r)
      PROVE  Write(r) /\ ~run[r].full /\ run[r].at = e
  <2>1. Write(r) \/ Embedded(r)
        BY <1>1, <1>4
           DEF Rebuild, BeginScoped, BeginFull, DiscardIncompatible,
               OpenGeneration, ReadStaged, ListEntities, Visit, NoEmbedding,
               RecordRow, Count, SwapFails, Measure, CrashRebuild, index
  <2>2. run[r].at \in Entities
        BY <2>1, TypeParts DEF Fit, Write, Embedded
  <2>3. ~Embedded(r)
        BY <1>1, <1>2, <2>2 DEF Embedded, Store
  <2>4. Write(r) /\ ~run[r].full
        BY <1>1, <2>1, <2>3 DEF Write, Store
  <2>5. live' = [live EXCEPT ![run[r].at] = run[r].verified[run[r].at]]
        BY <1>1, <2>4 DEF Write, Store
  <2> QED
      BY <1>1, <2>2, <2>4, <2>5 DEF Vectors
<1> QED
    BY <1>1, <1>3, <1>4 DEF Next, vars

(* A memory forgotten while its vector sat in the staging table stays out of *)
(* the index: the switch promotes active memories only, and only a write     *)
(* that had looked before the forgetting comes too late (db.ts, embedder.ts).*)
THEOREM TheForgottenStayOut == Spec => ForgottenStaysOut
<1> DEFINE Late(e) ==
      \/ \E m \in embeds \ embeds' : m.e = e /\ m.checked
      \/ \E r \in Rebuilders :
            run[r].pc = "write" /\ ~run[r].full /\ run[r].at = e
           Out ==
      \A e \in Entities :
          e \notin Active' /\ live[e] = None /\ live'[e] # None => Late(e)
<1>1. TypeInv /\ [Next]_vars => [Out]_vars
  <2> SUFFICES ASSUME TypeInv, [Next]_vars, NEW e \in Entities,
                      e \notin Active', live[e] = None, live'[e] # None
               PROVE  Late(e)
      OBVIOUS
  <2>1. CASE \E m \in embeds : EmbedWritten(m) /\ m.e = e
        BY <2>1 DEF EmbedWritten
  <2>2. CASE \E r \in Rebuilders : Write(r) /\ ~run[r].full /\ run[r].at = e
        BY <2>2 DEF Write
  <2>3. ASSUME NEW r \in Rebuilders, Swap(r) PROVE FALSE
    <3>1. Active' = Active
          BY <2>3 DEF Swap, Elsewhere, memory, Active
    <3>2. live'[e] = None \/ e \in Pruned \/ e \in Carried(run[r].width)
          BY <2>3 DEF Swap
    <3>3. e \in Active
          BY <3>2 DEF Pruned, Carried
    <3> QED
        BY <3>1, <3>3
  <2> QED
      BY <2>1, <2>2, <2>3, LiveWriters
<1> QED
    BY TypeAlways, <1>1, PTL DEF Spec, ForgottenStaysOut

-----------------------------------------------------------------------------
(* What a rebuild that nobody disturbed has established so far               *)

(* No other full run is under way beside an undisturbed one                  *)
Exclusive ==
    \A r \in Rebuilders : run[r].alone =>
        /\ run[r].full
        /\ \A q \in Rebuilders \ {r} : ~run[q].full

(* A run begins with nothing known                                           *)
Fresh ==
    \A r \in Rebuilders :
        /\ run[r].pc = "idle" => run[r] = NotRunning
        /\ run[r].pc \in {"discard", "open", "resume"}
              => run[r].known = NoVectors

(* What a resumed run knows of a row is still what is recorded of it         *)
KnownStaged(r, e) ==
    run[r].known[e] # None =>
        stage.rows[e] # None /\ stage.hash[e] = run[r].known[e]

(* The row of a listed entity is the one verified, or its record is not of it*)
Vouched(r, e) ==
    /\ run[r].verified[e] # None
    /\ stage.rows[e] # None
    /\ \/ stage.rows[e] = run[r].verified[e]
       \/ stage.rows[e] # stage.hash[e]

InLoop(r) == run[r].pc \in {"next", "embed", "write", "record"}
AtEntity(r) == run[r].pc \in {"embed", "write", "record"}

(* Every entity listed is still to come, excused, in hand or vouched for     *)
Accounted(r) ==
    (InLoop(r) \/ run[r].pc = "swap") /\ ~run[r].failed =>
        \A e \in run[r].listed :
            \/ e \in run[r].todo
            \/ e \in run[r].excused
            \/ AtEntity(r) /\ e = run[r].at
            \/ Vouched(r, e)

Progress(r) ==
    /\ run[r].pc = "list" => \A e \in Entities : KnownStaged(r, e)
    /\ InLoop(r) => \A e \in run[r].todo : KnownStaged(r, e)
    /\ Accounted(r)
    /\ AtEntity(r) => /\ run[r].at \notin run[r].todo
                      /\ run[r].verified[run[r].at] # None
    /\ run[r].pc = "record"
          => stage.rows[run[r].at] = run[r].verified[run[r].at]
    /\ run[r].pc = "swap" => ~run[r].failed /\ run[r].todo = {}
    /\ run[r].pc = "measure" /\ ~run[r].failed => run[r].swapped

(* The rows of a run that did not resume are of memories it listed, came to  *)
(* and did not excuse                                                        *)
OwnRows(r) ==
    ~run[r].resumed =>
        /\ run[r].pc # "resume"
        /\ run[r].pc = "open" => ~stage.open
        /\ run[r].pc = "list" => \A e \in Entities : stage.rows[e] = None
        /\ InLoop(r) \/ run[r].pc = "swap" =>
              \A e \in Entities : stage.rows[e] # None =>
                  /\ e \in run[r].listed
                  /\ e \notin run[r].todo
                  /\ e \notin run[r].excused

Itinerary(r) ==
    /\ run[r].pc \in {"discard", "open", "resume", "list"}
          => run[r].excused = {}
    /\ InLoop(r) => run[r].todo \subseteq run[r].listed \ run[r].excused
    /\ AtEntity(r) => run[r].at \in run[r].listed \ run[r].excused

Route(r) == OwnRows(r) /\ Itinerary(r)

IInv ==
    /\ TypeInv
    /\ Exclusive
    /\ Fresh
    /\ \A r \in Rebuilders : run[r].alone => Progress(r) /\ Route(r)

LEMMA IInit == Init => IInv
<1> SUFFICES ASSUME Init PROVE IInv
    OBVIOUS
<1>1. \A r \in Rebuilders : run[r] = NotRunning
      BY DEF Init
<1>2. ~NotRunning.alone /\ NotRunning.pc = "idle"
      BY DEF NotRunning
<1> QED
    BY <1>1, <1>2, TypeInit DEF IInv, Exclusive, Fresh

(* A step of a run ends it or keeps what it is, unless it begins one         *)
LEMMA OwnMarks ==
    ASSUME TypeInv, NEW r \in Rebuilders, Rebuild(r), ~BeginFull(r)
    PROVE  \/ run'[r] = NotRunning
           \/ run'[r].full = run[r].full /\ run'[r].alone = run[r].alone
<1>1. Failed(r) \/ (\E p : Goto(r, p)) \/ ReadStaged(r) \/ ListEntities(r)
      \/ Visit(r) \/ Embedded(r) \/ Write(r) \/ RecordRow(r) \/ Swap(r)
      \/ SwapFails(r) \/ Measure(r) \/ CrashRebuild(r)
      BY DEF Rebuild, BeginScoped, DiscardIncompatible, OpenGeneration,
             NoEmbedding, Count
<1>2. Failed(r) \/ (\E p : Goto(r, p)) \/ ReadStaged(r) \/ ListEntities(r) =>
        run'[r].full = run[r].full /\ run'[r].alone = run[r].alone
      BY FailedFields, GotoFields, ReadFields, ListFields DEF KeepsAll, Keeps
<1>3. Visit(r) \/ Embedded(r) \/ Write(r) \/ RecordRow(r) \/ Swap(r) =>
        run'[r].full = run[r].full /\ run'[r].alone = run[r].alone
      BY <1>2, VisitFields, EmbeddedFields, WriteFields, RecordFields,
         SwapFields DEF KeepsAll, Keeps
<1> QED
    BY <1>1, <1>2, <1>3, EndFields

(* Seen from another run, a step leaves a run alone or disturbs it           *)
LEMMA SeenFromOutside ==
    ASSUME TypeInv, [Next]_vars, NEW r \in Rebuilders, ~Rebuild(r)
    PROVE  run'[r] = run[r] \/ run'[r] = Disturbed(Running)[r]
<1>1. /\ run \in [Rebuilders -> Runs]
      /\ Disturbed(Running) \in [Rebuilders -> Runs]
      BY DisturbedRuns DEF TypeInv, TypeOK
<1>2. ASSUME NEW q \in Rebuilders, Rebuild(q)
      PROVE  run'[r] = run[r] \/ run'[r] = Disturbed(Running)[r]
      BY <1>1, <1>2, OwnRun
<1> QED
    BY <1>2, OthersRun DEF Next, vars

(* A run that stays undisturbed through the step of another is not changed,  *)
(* and nor is the generation                                                 *)
LEMMA Undisturbed ==
    ASSUME IInv, [Next]_vars, NEW r \in Rebuilders, ~Rebuild(r),
           run'[r].alone
    PROVE  /\ run'[r] = run[r] /\ stage' = stage
           /\ \A q \in Rebuilders \ {r} : ~run'[q].full
<1>1. run \in [Rebuilders -> Runs] /\ TypeInv /\ Exclusive
      BY DEF IInv, TypeInv, TypeOK
<1>2. run[r].alone /\ run'[r] = run[r]
      BY <1>1, SeenFromOutside, DisturbedRuns
<1>3. run[r].full /\ \A q \in Rebuilders \ {r} : ~run[q].full
      BY <1>1, <1>2 DEF Exclusive
<1>4. r \in Running
      BY <1>3 DEF Running
<1>5. run' # Disturbed(Running)
      BY <1>1, <1>2, <1>4, DisturbedRuns
<1>6. ASSUME NEW q \in Rebuilders, Rebuild(q)
      PROVE  /\ q # r /\ ~BeginFull(q) /\ stage' = stage
             /\ ~run'[q].full
  <2>1. q # r /\ ~run[q].full
        BY <1>3, <1>6
  <2>2. ~BeginFull(q)
    <3> SUFFICES ASSUME BeginFull(q) PROVE FALSE
        OBVIOUS
    <3>1. run'[r] = Disturbed(Running)[r]
          BY <1>1, <2>1, DisturbedRuns DEF BeginFull
    <3> QED
        BY <1>1, <1>2, <1>4, <3>1, DisturbedRuns
  <2>3. ~NotRunning.full
        BY DEF NotRunning
  <2>4. ~run'[q].full
        BY <1>1, <1>6, <2>1, <2>2, <2>3, OwnMarks
  <2>5. run[q].pc \notin {"discard", "open", "resume", "record", "swap"}
        BY <1>1, <2>1 DEF TypeInv, FullSteps
  <2>6. stage' = stage
        BY <1>6, <2>1, <2>2, <2>5
           DEF Rebuild, BeginScoped, DiscardIncompatible, OpenGeneration,
               ReadStaged, ListEntities, Visit, NoEmbedding, Embedded, Write,
               Store, RecordRow, Count, Swap, SwapFails, Measure, CrashRebuild
  <2> QED
      BY <2>1, <2>2, <2>4, <2>6
<1>7. CASE \E q \in Rebuilders : Rebuild(q)
  <2> PICK q \in Rebuilders : Rebuild(q)
      BY <1>7
  <2>1. \A p \in Rebuilders \ {q} : run'[p] = run[p]
        BY <1>1, <1>6, OwnRun
  <2> QED
      BY <1>2, <1>3, <1>6, <2>1
<1>8. CASE Others \/ UNCHANGED vars
  <2>1. run' = run
        BY <1>5, <1>8, OthersRun DEF vars
  <2>2. ~DiscardGeneration
        BY <1>5 DEF DiscardGeneration
  <2>3. stage' = stage
        BY <1>8, <2>2
           DEF Others, Remember, RemoveObservation, Rewrite, ArchiveEntity,
               DeleteEntity, EmbedLost, EmbedAnswered, EmbedWritten,
               SwitchProvider, NoticeMismatch, vars
  <2> QED
      BY <1>2, <1>3, <2>1, <2>3
<1> QED
    BY <1>7, <1>8 DEF Next

LEMMA ExclusiveKept == IInv /\ [Next]_vars => Exclusive'
<1> SUFFICES ASSUME IInv, [Next]_vars, NEW r \in Rebuilders, run'[r].alone
             PROVE  /\ run'[r].full
                    /\ \A q \in Rebuilders \ {r} : ~run'[q].full
    BY DEF Exclusive
<1>1. run \in [Rebuilders -> Runs] /\ TypeInv /\ Exclusive
      BY DEF IInv, TypeInv, TypeOK
<1>2. CASE ~Rebuild(r)
  <2>1. run'[r] = run[r] /\ \A q \in Rebuilders \ {r} : ~run'[q].full
        BY <1>2, Undisturbed
  <2> QED
      BY <1>1, <2>1 DEF Exclusive
<1>3. CASE BeginFull(r)
  <2>1. run'[r].full /\ Running = {}
        BY <1>1, <1>3, BeginFields
  <2>2. \A q \in Rebuilders : Disturbed(Running)[q] = run[q]
        BY <1>1, <2>1, DisturbedRuns
  <2>3. \A q \in Rebuilders \ {r} : run'[q] = run[q]
        BY <1>1, <1>3, <2>2, DisturbedRuns DEF BeginFull
  <2> QED
      BY <2>1, <2>3 DEF Running
<1>4. CASE Rebuild(r) /\ ~BeginFull(r)
  <2>1. ~NotRunning.alone
        BY DEF NotRunning
  <2>2. run'[r].full = run[r].full /\ run[r].alone
        BY <1>1, <1>4, <2>1, OwnMarks
  <2>3. \A q \in Rebuilders \ {r} : run'[q] = run[q]
        BY <1>1, <1>4, OwnRun
  <2> QED
      BY <1>1, <2>2, <2>3 DEF Exclusive
<1> QED
    BY <1>2, <1>3, <1>4

LEMMA FreshKept == IInv /\ [Next]_vars => Fresh'
<1> SUFFICES ASSUME IInv, [Next]_vars, NEW r \in Rebuilders
             PROVE  /\ run'[r].pc = "idle" => run'[r] = NotRunning
                    /\ run'[r].pc \in {"discard", "open", "resume"}
                          => run'[r].known = NoVectors
    BY DEF Fresh
<1>1. run \in [Rebuilders -> Runs] /\ TypeInv /\ Fresh
      BY DEF IInv, TypeInv, TypeOK
<1>2. NotRunning.pc = "idle" /\ ~NotRunning.full
      /\ NotRunning.known = NoVectors
      BY DEF NotRunning
<1>3. CASE ~Rebuild(r)
  <2>1. run'[r] = run[r] \/ run'[r] = Disturbed(Running)[r]
        BY <1>1, <1>3, SeenFromOutside
  <2>2. run'[r].pc = run[r].pc /\ run'[r].known = run[r].known
        BY <1>1, <2>1, DisturbedRuns
  <2>3. run[r].pc = "idle" => run'[r] = run[r]
    <3>1. run[r].pc = "idle" => r \notin Running
          BY <1>1, <1>2 DEF Fresh, Running
    <3>2. r \notin Running => Disturbed(Running)[r] = run[r]
          BY <1>1, DisturbedRuns
    <3> QED
        BY <2>1, <3>1, <3>2
  <2> QED
      BY <1>1, <2>2, <2>3 DEF Fresh
<1>4. CASE Rebuild(r)
  <2>1. CASE BeginFull(r)
    <3>1. run[r].pc = "idle"
          BY <2>1 DEF BeginFull
    <3>2. run[r].known = NoVectors
          BY <1>1, <1>2, <3>1 DEF Fresh
    <3>3. run'[r].pc \in {"discard", "open"} /\ run'[r].known = run[r].known
          BY <1>1, <2>1, BeginFields
    <3> QED
        BY <3>2, <3>3
  <2>2. CASE DiscardIncompatible(r) \/ OpenGeneration(r)
    <3>1. run[r].pc \in {"discard", "open"}
          BY <2>2 DEF DiscardIncompatible, OpenGeneration
    <3>2. /\ run'[r].known = run[r].known
          /\ run'[r].pc \in {"open", "resume", "list"}
          BY <1>1, <2>2, GotoFields
             DEF DiscardIncompatible, OpenGeneration, KeepsAll, Keeps
    <3> QED
        BY <1>1, <3>1, <3>2 DEF Fresh
  <2>3. CASE SwapFails(r) \/ Measure(r) \/ CrashRebuild(r)
    <3>1. run'[r] = NotRunning
          BY <1>1, <2>3, EndFields
    <3> QED
        BY <1>2, <3>1
  <2>4. CASE BeginScoped(r) \/ ReadStaged(r) \/ ListEntities(r) \/ Visit(r)
             \/ NoEmbedding(r)
    <3>1. run'[r].pc \in {"list", "next", "embed"}
      <4>1. BeginScoped(r) \/ NoEmbedding(r) => run'[r].pc \in {"list", "next"}
            BY <1>1, GotoFields, FailedFields DEF BeginScoped, NoEmbedding
      <4>2. ReadStaged(r) \/ ListEntities(r) => run'[r].pc \in {"list", "next"}
            BY <1>1, ReadFields, ListFields
      <4>3. Visit(r) => run'[r].pc \in {"next", "embed"}
            BY <1>1, VisitFields
      <4> QED
          BY <2>4, <4>1, <4>2, <4>3
    <3> QED
        BY <3>1
  <2>5. CASE Embedded(r) \/ Write(r) \/ RecordRow(r) \/ Count(r) \/ Swap(r)
        BY <1>1, <2>5, GotoFields, FailedFields, EmbeddedFields, WriteFields,
           RecordFields, SwapFields
           DEF Count
  <2> QED
      BY <1>4, <2>1, <2>2, <2>3, <2>4, <2>5 DEF Rebuild
<1> QED
    BY <1>3, <1>4

(* When every entity listed is excused or staged, the count suffices         *)
LEMMA CountSuffices ==
    ASSUME NEW S \in SUBSET Entities, NEW T \in SUBSET Entities,
           NEW H \in SUBSET Entities, S \ T \subseteq H
    PROVE  Cardinality(H) >= Cardinality(S) - Cardinality(T)
<1>1. IsFiniteSet(S) /\ IsFiniteSet(T) /\ IsFiniteSet(H)
      BY FS_Subset
<1>2. /\ Cardinality(S) \in Nat /\ Cardinality(T) \in Nat
      /\ Cardinality(H) \in Nat
      BY <1>1, FS_CardinalityType
<1>3. IsFiniteSet(H \cup T) /\ Cardinality(S) <= Cardinality(H \cup T)
      BY <1>1, FS_Union, FS_Subset
<1>4. IsFiniteSet(H \cap T) /\ Cardinality(H \cap T) \in Nat
      BY <1>1, FS_Subset, FS_CardinalityType
<1>5. Cardinality(H \cup T)
        = Cardinality(H) + Cardinality(T) - Cardinality(H \cap T)
      BY <1>1, FS_Union
<1> QED
    BY <1>2, <1>3, <1>4, <1>5

(* The parts of Progress that a step which keeps the generation keeps        *)
LEMMA KnownKept ==
    ASSUME NEW r \in Rebuilders, UNCHANGED stage,
           run'[r].known = run[r].known, NEW S,
           \A e \in S : KnownStaged(r, e)
    PROVE  \A e \in S : KnownStaged(r, e)'
BY DEF KnownStaged

(* What a run in its loop leaves true of the other entities when it writes   *)
(* the row or the record of the one in hand                                  *)
LEMMA OtherRows ==
    ASSUME TypeInv, NEW r \in Rebuilders, run[r].at \in Entities,
           \/ \E v : stage' = [stage EXCEPT !.rows =
                        [stage.rows EXCEPT ![run[r].at] = v]]
           \/ \E v : stage' = [stage EXCEPT !.hash =
                        [stage.hash EXCEPT ![run[r].at] = v]],
           NEW e \in Entities, e # run[r].at
    PROVE  stage'.rows[e] = stage.rows[e] /\ stage'.hash[e] = stage.hash[e]
BY DEF TypeInv, TypeOK, Stages, Vectors

(* The steps of an undisturbed run itself                                    *)
LEMMA ProgressStep ==
    ASSUME IInv, NEW r \in Rebuilders, Rebuild(r), ~BeginFull(r),
           run[r].alone, run'[r].alone, TypeInv'
    PROVE  Progress(r)'
<1>1. /\ TypeInv /\ Fresh /\ Exclusive /\ Progress(r) /\ run[r].full
      BY DEF IInv, Exclusive
<1>2. /\ run[r] \in Runs /\ run'[r] \in Runs
      /\ obs \in [Entities -> Texts] /\ stage \in Stages
      /\ run[r].pc \in {"embed", "write", "record"} => run[r].at \in Entities
      /\ run'[r].listed \subseteq Entities /\ run'[r].todo \subseteq Entities
      /\ run[r].listed \subseteq Entities /\ run[r].todo \subseteq Entities
  <2>1. run[r] \in Runs /\ run'[r] \in Runs
        BY <1>1 DEF TypeInv, TypeOK
  <2>2. /\ obs \in [Entities -> Texts] /\ stage \in Stages
        /\ run[r].pc \in {"embed", "write", "record"} => run[r].at \in Entities
        BY <1>1 DEF TypeInv, TypeOK, FullSteps
  <2> QED
      BY <2>1, <2>2 DEF Runs
<1>3. ~NotRunning.alone
      BY DEF NotRunning
<1>4. CASE BeginScoped(r)
      BY <1>1, <1>3, <1>4 DEF BeginScoped, Fresh
<1>5. CASE DiscardIncompatible(r)
      BY <1>1, <1>5, GotoFields
         DEF DiscardIncompatible, Progress, InLoop, AtEntity, Accounted
<1>6. CASE OpenGeneration(r)
  <2>1. run[r].known = NoVectors
        BY <1>1, <1>6 DEF OpenGeneration, Fresh
  <2>2. run'[r].pc \in {"resume", "list"} /\ run'[r].known = NoVectors
        BY <1>1, <1>6, <2>1, GotoFields
           DEF OpenGeneration, KeepsAll, Keeps
  <2>3. \A e \in Entities : KnownStaged(r, e)'
        BY <2>2 DEF KnownStaged, NoVectors
  <2> QED
      BY <2>2, <2>3 DEF Progress, InLoop, AtEntity, Accounted
<1>7. CASE ReadStaged(r)
  <2>1. \A e \in Entities : KnownStaged(r, e)'
    <3>1. /\ stage' = stage
          /\ run'[r].known = [e \in Entities |->
                                IF stage.rows[e] = None THEN None
                                ELSE stage.hash[e]]
          BY <1>1, <1>7, ReadFields DEF ReadStaged
    <3> QED
        BY <3>1 DEF KnownStaged
  <2> QED
      BY <1>1, <1>7, <2>1, ReadFields
         DEF Progress, InLoop, AtEntity, Accounted
<1>8. CASE ListEntities(r)
  <2>1. /\ run'[r].pc = "next" /\ run'[r].todo = run'[r].listed
        /\ run'[r].known = run[r].known
        BY <1>1, <1>8, ListFields
  <2>2. \A e \in Entities : KnownStaged(r, e)'
        BY <1>1, <1>8, <2>1 DEF ListEntities, Progress, KnownStaged
  <2> QED
      BY <1>2, <2>1, <2>2 DEF Progress, InLoop, AtEntity, Accounted
<1>9. CASE Visit(r)
  <2>1. stage' = stage /\ run[r].pc = "next"
        BY <1>9 DEF Visit
  <2> PICK e \in run[r].todo :
        /\ Keeps(run[r], run'[r])
        /\ run'[r].failed = run[r].failed
        /\ run'[r].todo = run[r].todo \ {e}
        /\ \/ /\ run'[r].pc = "next"
              /\ run'[r].excused = run[r].excused \cup {e}
              /\ run'[r].verified = run[r].verified
           \/ /\ run'[r].excused = run[r].excused
              /\ run'[r].verified = [run[r].verified EXCEPT ![e] = obs[e]]
              /\ \/ /\ run'[r].pc = "next"
                    /\ run[r].known[e] = obs[e]
                 \/ /\ run'[r].pc = "embed"
                    /\ run'[r].at = e
      BY <1>1, <1>9, VisitFields
  <2>2. /\ e \in Entities /\ obs[e] # None
        /\ run[r].verified \in Vectors
        BY <1>2 DEF Runs
  <2>3. /\ \A d \in run[r].todo : KnownStaged(r, d)
        /\ run'[r].known = run[r].known /\ run'[r].listed = run[r].listed
        BY <1>1, <2>1 DEF Progress, InLoop, Keeps
  <2>4. \A d \in run'[r].todo : KnownStaged(r, d)'
        BY <2>1, <2>3 DEF KnownStaged
  <2>5. \A d \in Entities : d # e => run'[r].verified[d] = run[r].verified[d]
        BY <2>2 DEF Vectors
  <2>6. run'[r].verified # run[r].verified => run'[r].verified[e] = obs[e]
        BY <2>2 DEF Vectors
  <2>7. ASSUME run'[r].pc = "next", run'[r].verified[e] = obs[e],
               run[r].known[e] = obs[e]
        PROVE  Vouched(r, e)'
        BY <2>1, <2>2, <2>3, <2>7 DEF KnownStaged, Vouched
  <2>8. Accounted(r)'
    <3> SUFFICES ASSUME ~run'[r].failed, NEW d \in run[r].listed
                 PROVE  \/ d \in run'[r].todo
                        \/ d \in run'[r].excused
                        \/ AtEntity(r)' /\ d = run'[r].at
                        \/ Vouched(r, d)'
        BY <2>3 DEF Accounted
    <3>1. CASE d = e
          BY <2>2, <2>7, <3>1 DEF AtEntity, Vectors
    <3>2. CASE d # e
      <4>1. d \in run[r].todo \/ d \in run[r].excused \/ Vouched(r, d)
            BY <1>1, <2>1 DEF Progress, Accounted, InLoop, AtEntity
      <4>2. Vouched(r, d) => Vouched(r, d)'
            BY <1>2, <2>1, <2>5, <3>2 DEF Vouched
      <4> QED
          BY <3>2, <4>1, <4>2
    <3> QED
        BY <3>1, <3>2
  <2>9. AtEntity(r)' => /\ run'[r].at \notin run'[r].todo
                        /\ run'[r].verified[run'[r].at] # None
        BY <2>2 DEF AtEntity, Vectors
  <2> QED
      BY <2>4, <2>8, <2>9 DEF Progress, InLoop
<1>10. ASSUME Failed(r), UNCHANGED stage,
               InLoop(r)
       PROVE   Progress(r)'
  <2>1. /\ run'[r].pc = "next" /\ run'[r].failed
        /\ run'[r].todo \subseteq run[r].todo
        /\ run'[r].known = run[r].known
        BY <1>1, <1>10, FailedFields DEF Keeps
  <2>2. \A d \in run[r].todo : KnownStaged(r, d)
        BY <1>1, <1>10 DEF Progress
  <2>3. \A d \in run'[r].todo : KnownStaged(r, d)'
        BY <1>10, <2>1, <2>2 DEF KnownStaged
  <2> QED
      BY <2>1, <2>3 DEF Progress, Accounted, AtEntity
<1>11. CASE NoEmbedding(r)
       BY <1>10, <1>11 DEF NoEmbedding, InLoop
<1>12. CASE Embedded(r)
  <2>1. /\ run[r].pc = "embed" /\ run[r].at \in Entities
        /\ run[r].at \notin run[r].todo
        /\ run[r].verified[run[r].at] # None
        BY <1>1, <1>2, <1>12 DEF Embedded, Progress, AtEntity
  <2>2. CASE Failed(r) /\ UNCHANGED stage
        BY <1>10, <2>1, <2>2 DEF InLoop
  <2>3. CASE Goto(r, "write") /\ UNCHANGED stage
    <3>1. run'[r].pc = "write" /\ KeepsAll(run[r], run'[r])
          BY <1>1, <2>3, GotoFields
    <3>2. stage' = stage
          BY <2>3
    <3> QED
        BY <1>1, <2>1, <3>1, <3>2
           DEF Progress, Accounted, AtEntity, InLoop, Vouched, KnownStaged,
               KeepsAll, Keeps, KeepsWork
  <2>4. CASE /\ Store(r, None)
             /\ run'[r].pc = "next" /\ Keeps(run[r], run'[r])
             /\ run'[r].failed = run[r].failed /\ run'[r].todo = run[r].todo
             /\ run'[r].excused = run[r].excused \cup {run[r].at}
             /\ run'[r].verified = run[r].verified
    <3>1. stage' = [stage EXCEPT !.rows = [stage.rows EXCEPT
                                             ![run[r].at] = None]]
          BY <1>1, <2>4 DEF Store
    <3>2. \A d \in Entities \ {run[r].at} :
             stage'.rows[d] = stage.rows[d] /\ stage'.hash[d] = stage.hash[d]
          BY <1>1, <2>1, <3>1, OtherRows
    <3>3. \A d \in run'[r].todo : KnownStaged(r, d)'
      <4>1. \A d \in run[r].todo : KnownStaged(r, d)
            BY <1>1, <2>1 DEF Progress, InLoop
      <4>2. run'[r].todo = run[r].todo /\ run'[r].known = run[r].known
            BY <2>4 DEF Keeps
      <4>3. run'[r].todo \subseteq Entities \ {run[r].at}
            BY <1>2, <2>1, <4>2
      <4> QED
          BY <3>2, <4>1, <4>2, <4>3 DEF KnownStaged
    <3>4. Accounted(r)'
      <4> SUFFICES ASSUME ~run'[r].failed, NEW d \in run[r].listed
                   PROVE  \/ d \in run'[r].todo
                          \/ d \in run'[r].excused
                          \/ Vouched(r, d)'
          BY <2>4 DEF Accounted, Keeps
      <4>1. CASE d = run[r].at
            BY <2>4, <4>1
      <4>2. CASE d # run[r].at
        <5>1. d \in run[r].todo \/ d \in run[r].excused \/ Vouched(r, d)
              BY <1>1, <2>1, <2>4, <4>2 DEF Progress, Accounted, InLoop
        <5>2. Vouched(r, d) => Vouched(r, d)'
              BY <1>2, <2>4, <3>2, <4>2 DEF Vouched
        <5> QED
            BY <2>4, <5>1, <5>2
      <4> QED
          BY <4>1, <4>2
    <3> QED
        BY <2>4, <3>3, <3>4 DEF Progress, AtEntity
  <2> QED
      BY <1>1, <1>12, <2>2, <2>3, <2>4, EmbeddedFields
<1>13. CASE Write(r)
  <2>1. /\ run[r].pc = "write" /\ run[r].at \in Entities
        /\ run[r].at \notin run[r].todo
        /\ run[r].verified[run[r].at] # None
        BY <1>1, <1>2, <1>13 DEF Write, Progress, AtEntity
  <2>2. CASE Failed(r) /\ UNCHANGED stage
        BY <1>10, <2>1, <2>2 DEF InLoop
  <2>3. CASE /\ Store(r, run[r].verified[run[r].at])
             /\ run'[r].pc = "record" /\ KeepsAll(run[r], run'[r])
    <3>1. stage' = [stage EXCEPT !.rows =
                      [stage.rows EXCEPT ![run[r].at] =
                         run[r].verified[run[r].at]]]
          BY <1>1, <2>3 DEF Store
    <3>2. \A d \in Entities \ {run[r].at} :
             stage'.rows[d] = stage.rows[d] /\ stage'.hash[d] = stage.hash[d]
          BY <1>1, <2>1, <3>1, OtherRows
    <3>3. stage'.rows[run[r].at] = run[r].verified[run[r].at]
          BY <1>2, <2>1, <3>1 DEF Stages, Vectors
    <3>4. \A d \in run'[r].todo : KnownStaged(r, d)'
      <4>1. \A d \in run[r].todo : KnownStaged(r, d)
            BY <1>1, <2>1 DEF Progress, InLoop
      <4> QED
          BY <1>2, <2>1, <2>3, <3>2, <4>1
             DEF KnownStaged, KeepsAll, Keeps, KeepsWork
    <3>5. Accounted(r)'
      <4> SUFFICES ASSUME ~run'[r].failed, NEW d \in run[r].listed
                   PROVE  \/ d \in run'[r].todo
                          \/ d \in run'[r].excused
                          \/ AtEntity(r)' /\ d = run'[r].at
                          \/ Vouched(r, d)'
          BY <2>3 DEF Accounted, KeepsAll, Keeps
      <4>1. CASE d = run[r].at
            BY <2>3, <4>1 DEF AtEntity, KeepsAll, KeepsWork
      <4>2. CASE d # run[r].at
        <5>1. d \in run[r].todo \/ d \in run[r].excused \/ Vouched(r, d)
              BY <1>1, <2>1, <2>3, <4>2
                 DEF Progress, Accounted, InLoop, KeepsAll
        <5>2. Vouched(r, d) => Vouched(r, d)'
              BY <1>2, <2>3, <3>2, <4>2
                 DEF Vouched, KeepsAll, KeepsWork
        <5> QED
            BY <2>3, <5>1, <5>2 DEF KeepsAll, KeepsWork
      <4> QED
          BY <4>1, <4>2
    <3> QED
        BY <2>1, <2>3, <3>3, <3>4, <3>5
           DEF Progress, AtEntity, KeepsAll, KeepsWork
  <2> QED
      BY <1>1, <1>13, <2>2, <2>3, WriteFields
<1>14. CASE RecordRow(r)
  <2>1. /\ run[r].pc = "record" /\ run[r].at \in Entities
        /\ run[r].at \notin run[r].todo
        /\ run[r].verified[run[r].at] # None
        /\ stage.rows[run[r].at] = run[r].verified[run[r].at]
        BY <1>1, <1>2, <1>14 DEF RecordRow, Progress, AtEntity
  <2>2. /\ run'[r].pc = "next" /\ Keeps(run[r], run'[r])
        /\ KeepsWork(run[r], run'[r])
        BY <1>1, <1>14, RecordFields
  <2>3. \A d \in run[r].todo : KnownStaged(r, d)
        BY <1>1, <2>1 DEF Progress, InLoop
  <2>4. CASE run'[r].failed /\ UNCHANGED stage
    <3>1. \A d \in run'[r].todo : KnownStaged(r, d)'
          BY <2>2, <2>3, <2>4 DEF KnownStaged, Keeps, KeepsWork
    <3> QED
        BY <2>2, <2>4, <3>1 DEF Progress, Accounted, AtEntity
  <2>5. CASE /\ stage' = [stage EXCEPT !.hash =
                            [stage.hash EXCEPT ![run[r].at] =
                               run[r].verified[run[r].at]]]
             /\ run'[r].failed = run[r].failed
    <3>1. \A d \in Entities \ {run[r].at} :
             stage'.rows[d] = stage.rows[d] /\ stage'.hash[d] = stage.hash[d]
          BY <1>1, <2>1, <2>5, OtherRows
    <3>2. stage'.rows = stage.rows
      <4> DEFINE h == [stage.hash EXCEPT ![run[r].at] =
                         run[r].verified[run[r].at]]
      <4>1. stage' = [stage EXCEPT !.hash = h]
            BY <2>5
      <4> HIDE DEF h
      <4> QED
          BY <1>2, <4>1 DEF Stages
    <3>3. ASSUME NEW d \in run'[r].todo PROVE KnownStaged(r, d)'
      <4>1. run'[r].todo = run[r].todo /\ run'[r].known = run[r].known
            BY <2>2 DEF Keeps, KeepsWork
      <4>2. d \in Entities \ {run[r].at} /\ KnownStaged(r, d)
            BY <1>2, <2>1, <2>3, <4>1
      <4> QED
          BY <3>1, <4>1, <4>2 DEF KnownStaged
    <3>4. Accounted(r)'
      <4> SUFFICES ASSUME ~run'[r].failed, NEW d \in run[r].listed
                   PROVE  \/ d \in run'[r].todo
                          \/ d \in run'[r].excused
                          \/ Vouched(r, d)'
          BY <2>2 DEF Accounted, Keeps
      <4>1. CASE d = run[r].at
            BY <2>1, <2>2, <3>2, <4>1 DEF Vouched, KeepsWork
      <4>2. CASE d # run[r].at
        <5>1. d \in run[r].todo \/ d \in run[r].excused \/ Vouched(r, d)
              BY <1>1, <2>1, <2>5, <4>2 DEF Progress, Accounted, InLoop
        <5>2. Vouched(r, d) => Vouched(r, d)'
              BY <1>2, <2>2, <3>1, <4>2 DEF Vouched, KeepsWork
        <5> QED
            BY <2>2, <5>1, <5>2 DEF KeepsWork
      <4> QED
          BY <4>1, <4>2
    <3> QED
        BY <2>2, <3>3, <3>4 DEF Progress, AtEntity
  <2> QED
      BY <1>1, <1>14, <2>4, <2>5, RecordFields
<1>15. CASE Count(r)
  <2>1. run[r].pc = "next" /\ run[r].todo = {} /\ stage' = stage
        BY <1>15 DEF Count
  <2>2. ~run[r].failed => Complete(r)
    <3> SUFFICES ASSUME ~run[r].failed PROVE Complete(r)
        OBVIOUS
    <3>1. run[r].listed \ run[r].excused \subseteq Having(stage.rows)
          BY <1>1, <1>2, <2>1
             DEF Progress, Accounted, InLoop, AtEntity, Vouched, Having
    <3>2. /\ Having(stage.rows) \in SUBSET Entities
          /\ run[r].listed \in SUBSET Entities
          /\ run[r].excused \in SUBSET Entities
          BY <1>2 DEF Having, Runs
    <3> QED
        BY <3>1, <3>2, CountSuffices DEF Complete
  <2>3. CASE Complete(r)
    <3>1. run'[r].pc = "swap" /\ KeepsAll(run[r], run'[r])
          BY <1>1, <1>15, <2>3, GotoFields DEF Count
    <3>2. Accounted(r)'
          BY <1>1, <2>1, <3>1
             DEF Progress, Accounted, InLoop, AtEntity, Vouched, KeepsAll,
                 Keeps, KeepsWork
    <3>3. ~run[r].failed
          BY <2>3 DEF Complete
    <3> QED
        BY <2>1, <3>1, <3>2, <3>3
           DEF Progress, InLoop, AtEntity, KeepsAll, KeepsWork
  <2>4. CASE ~Complete(r)
    <3>1. run'[r].pc = "measure" /\ KeepsAll(run[r], run'[r])
          BY <1>1, <1>15, <2>4, GotoFields DEF Count
    <3>2. run'[r].failed
          BY <2>2, <2>4, <3>1 DEF KeepsAll
    <3> QED
        BY <3>1, <3>2 DEF Progress, InLoop, AtEntity, Accounted
  <2> QED
      BY <2>3, <2>4
<1>16. CASE Swap(r)
       BY <1>1, <1>16, SwapFields DEF Progress, InLoop, AtEntity, Accounted
<1>17. CASE SwapFails(r) \/ Measure(r) \/ CrashRebuild(r)
       BY <1>1, <1>3, <1>17, EndFields
<1> QED
    BY <1>4, <1>5, <1>6, <1>7, <1>8, <1>9, <1>11, <1>12, <1>13, <1>14, <1>15,
       <1>16, <1>17 DEF Rebuild

(* How the steps of an undisturbed run keep its route                        *)
LEMMA RouteStep ==
    ASSUME IInv, NEW r \in Rebuilders, Rebuild(r), ~BeginFull(r),
           run[r].alone, run'[r].alone, TypeInv'
    PROVE  Route(r)'
<1>1. /\ TypeInv /\ Fresh /\ Progress(r) /\ OwnRows(r) /\ Itinerary(r)
      /\ run[r].full
      BY DEF IInv, Exclusive, Route
<1>2. /\ run[r] \in Runs /\ run'[r] \in Runs
      /\ stage \in Stages
      /\ run[r].pc \in {"embed", "write", "record"} => run[r].at \in Entities
      /\ run[r].todo \subseteq Entities
      BY <1>1 DEF TypeInv, TypeOK, FullSteps, Runs
<1>3. ~NotRunning.alone
      BY DEF NotRunning
<1>4. CASE BeginScoped(r)
      BY <1>1, <1>3, <1>4 DEF BeginScoped, Fresh
<1>5. CASE DiscardIncompatible(r)
  <2>1. /\ run'[r].pc = "open" /\ KeepsAll(run[r], run'[r])
        /\ run[r].pc = "discard" /\ stage' = NoStage
        BY <1>1, <1>5, GotoFields DEF DiscardIncompatible
  <2> QED
      BY <1>1, <2>1
         DEF Route, OwnRows, Itinerary, InLoop, AtEntity, NoStage, KeepsAll, Keeps,
             KeepsWork
<1>6. CASE OpenGeneration(r)
  <2>1. /\ run[r].pc = "open" /\ KeepsAll(run[r], run'[r])
        /\ run'[r].pc = IF run[r].resumed THEN "resume" ELSE "list"
        BY <1>1, <1>6, GotoFields DEF OpenGeneration
  <2>2. ASSUME ~run[r].resumed
        PROVE  \A e \in Entities : stage'.rows[e] = None
    <3>1. stage' = [NoStage EXCEPT !.open = TRUE, !.width = run[r].width]
          BY <1>1, <1>6, <2>1, <2>2 DEF OpenGeneration, OwnRows
    <3>2. stage'.rows = NoVectors
          BY <3>1 DEF NoStage
    <3> QED
        BY <3>2 DEF NoVectors
  <2> QED
      BY <1>1, <2>1, <2>2
         DEF Route, OwnRows, Itinerary, InLoop, AtEntity, KeepsAll, Keeps, KeepsWork
<1>7. CASE ReadStaged(r)
  <2>1. run[r].pc = "resume" /\ run'[r].pc = "list"
        /\ run'[r].resumed = run[r].resumed /\ run'[r].excused = run[r].excused
        BY <1>1, <1>7, ReadFields DEF ReadStaged
  <2> QED
      BY <1>1, <2>1 DEF Route, OwnRows, Itinerary, InLoop, AtEntity
<1>8. CASE ListEntities(r)
  <2>1. /\ run'[r].pc = "next" /\ run'[r].todo = run'[r].listed
        /\ run'[r].resumed = run[r].resumed /\ run'[r].excused = run[r].excused
        /\ run[r].pc = "list" /\ stage' = stage
        BY <1>1, <1>8, ListFields DEF ListEntities
  <2> QED
      BY <1>1, <2>1 DEF Route, OwnRows, Itinerary, InLoop, AtEntity
<1>9. CASE Visit(r)
  <2>1. stage' = stage /\ run[r].pc = "next"
        BY <1>9 DEF Visit
  <2> PICK e \in run[r].todo :
        /\ Keeps(run[r], run'[r])
        /\ run'[r].todo = run[r].todo \ {e}
        /\ \/ /\ run'[r].pc = "next"
              /\ run'[r].excused = run[r].excused \cup {e}
           \/ /\ run'[r].excused = run[r].excused
              /\ \/ run'[r].pc = "next"
                 \/ run'[r].pc = "embed" /\ run'[r].at = e
      BY <1>1, <1>9, VisitFields
  <2>2. InLoop(r) /\ run[r].todo \subseteq run[r].listed \ run[r].excused
        BY <1>1, <2>1 DEF Itinerary, InLoop
  <2>3. run'[r].listed = run[r].listed /\ run'[r].resumed = run[r].resumed
        BY DEF Keeps
  <2>4. Itinerary(r)'
        BY <2>2, <2>3 DEF Itinerary, InLoop, AtEntity
  <2>5. OwnRows(r)'
        BY <1>1, <2>1, <2>2, <2>3 DEF OwnRows, InLoop
  <2> QED
      BY <2>4, <2>5 DEF Route
<1>10. ASSUME Failed(r), UNCHANGED stage, InLoop(r)
       PROVE  Route(r)'
  <2>1. /\ run'[r].pc = "next" /\ Keeps(run[r], run'[r])
        /\ run'[r].todo \subseteq run[r].todo
        /\ run'[r].excused = run[r].excused
        BY <1>1, <1>10, FailedFields
  <2> QED
      BY <1>1, <1>10, <2>1 DEF Route, OwnRows, Itinerary, InLoop, AtEntity, Keeps
<1>11. CASE NoEmbedding(r)
       BY <1>10, <1>11 DEF NoEmbedding, InLoop
<1>12. CASE Embedded(r)
  <2>1. /\ run[r].pc = "embed" /\ run[r].at \in Entities
        /\ run[r].at \notin run[r].todo
        /\ InLoop(r) /\ AtEntity(r)
        BY <1>1, <1>2, <1>12 DEF Embedded, Progress, AtEntity, InLoop
  <2>2. CASE Failed(r) /\ UNCHANGED stage
        BY <1>10, <2>1, <2>2
  <2>3. CASE Goto(r, "write") /\ UNCHANGED stage
    <3>1. run'[r].pc = "write" /\ KeepsAll(run[r], run'[r]) /\ stage' = stage
          BY <1>1, <2>3, GotoFields
    <3> QED
        BY <1>1, <2>1, <3>1
           DEF Route, OwnRows, Itinerary, InLoop, AtEntity, KeepsAll, Keeps, KeepsWork
  <2>4. CASE /\ Store(r, None)
             /\ run'[r].pc = "next" /\ Keeps(run[r], run'[r])
             /\ run'[r].todo = run[r].todo
             /\ run'[r].excused = run[r].excused \cup {run[r].at}
    <3>1. stage' = [stage EXCEPT !.rows = [stage.rows EXCEPT
                                             ![run[r].at] = None]]
          BY <1>1, <2>4 DEF Store
    <3>2. \A d \in Entities \ {run[r].at} : stage'.rows[d] = stage.rows[d]
          BY <1>1, <2>1, <3>1, OtherRows
    <3>3. stage'.rows[run[r].at] = None
          BY <1>2, <2>1, <3>1 DEF Stages, Vectors
    <3>4. run'[r].listed = run[r].listed /\ run'[r].resumed = run[r].resumed
          BY <2>4 DEF Keeps
    <3>5. Itinerary(r)'
          BY <1>1, <2>1, <2>4, <3>4 DEF Itinerary, InLoop, AtEntity
    <3>6. OwnRows(r)'
          BY <1>1, <2>1, <2>4, <3>2, <3>3, <3>4 DEF OwnRows, InLoop
    <3> QED
        BY <3>5, <3>6 DEF Route
  <2> QED
      BY <1>1, <1>12, <2>2, <2>3, <2>4, EmbeddedFields
<1>13. CASE Write(r)
  <2>1. /\ run[r].pc = "write" /\ run[r].at \in Entities
        /\ run[r].at \notin run[r].todo
        /\ InLoop(r) /\ AtEntity(r)
        /\ run[r].at \in run[r].listed \ run[r].excused
        BY <1>1, <1>2, <1>13 DEF Write, Progress, AtEntity, InLoop, Itinerary
  <2>2. CASE Failed(r) /\ UNCHANGED stage
        BY <1>10, <2>1, <2>2
  <2>3. CASE /\ Store(r, run[r].verified[run[r].at])
             /\ run'[r].pc = "record" /\ KeepsAll(run[r], run'[r])
    <3>1. stage' = [stage EXCEPT !.rows =
                      [stage.rows EXCEPT ![run[r].at] =
                         run[r].verified[run[r].at]]]
          BY <1>1, <2>3 DEF Store
    <3>2. \A d \in Entities \ {run[r].at} : stage'.rows[d] = stage.rows[d]
          BY <1>1, <2>1, <3>1, OtherRows
    <3>3. /\ run'[r].listed = run[r].listed /\ run'[r].resumed = run[r].resumed
          /\ run'[r].todo = run[r].todo /\ run'[r].excused = run[r].excused
          /\ run'[r].at = run[r].at
          BY <2>3 DEF KeepsAll, Keeps, KeepsWork
    <3>4. Itinerary(r)'
          BY <1>1, <2>1, <2>3, <3>3 DEF Itinerary, InLoop, AtEntity
    <3>5. OwnRows(r)'
          BY <1>1, <2>1, <2>3, <3>2, <3>3 DEF OwnRows, InLoop
    <3> QED
        BY <3>4, <3>5 DEF Route
  <2> QED
      BY <1>1, <1>13, <2>2, <2>3, WriteFields
<1>14. CASE RecordRow(r)
  <2>1. run[r].pc = "record" /\ run[r].at \in Entities /\ InLoop(r)
        BY <1>1, <1>2, <1>14 DEF RecordRow, InLoop
  <2>2. /\ run'[r].pc = "next" /\ Keeps(run[r], run'[r])
        /\ KeepsWork(run[r], run'[r])
        BY <1>1, <1>14, RecordFields
  <2>3. stage'.rows = stage.rows
    <3>1. CASE UNCHANGED stage
          BY <3>1
    <3>2. CASE stage' = [stage EXCEPT !.hash =
                            [stage.hash EXCEPT ![run[r].at] =
                               run[r].verified[run[r].at]]]
      <4> DEFINE h == [stage.hash EXCEPT ![run[r].at] =
                         run[r].verified[run[r].at]]
      <4>1. stage' = [stage EXCEPT !.hash = h]
            BY <3>2
      <4> HIDE DEF h
      <4> QED
          BY <1>2, <4>1 DEF Stages
    <3> QED
        BY <1>1, <1>14, <3>1, <3>2, RecordFields
  <2> QED
      BY <1>1, <2>1, <2>2, <2>3
         DEF Route, OwnRows, Itinerary, InLoop, AtEntity, Keeps, KeepsWork
<1>15. CASE Count(r)
  <2>1. /\ run[r].pc = "next" /\ stage' = stage
        /\ run'[r].pc \in {"swap", "measure"} /\ KeepsAll(run[r], run'[r])
        BY <1>1, <1>15, GotoFields DEF Count
  <2> QED
      BY <1>1, <2>1
         DEF Route, OwnRows, Itinerary, InLoop, AtEntity, KeepsAll, Keeps, KeepsWork
<1>16. CASE Swap(r)
       BY <1>1, <1>16, SwapFields DEF Route, OwnRows, Itinerary, InLoop, AtEntity
<1>17. CASE SwapFails(r) \/ Measure(r) \/ CrashRebuild(r)
       BY <1>1, <1>3, <1>17, EndFields
<1> QED
    BY <1>4, <1>5, <1>6, <1>7, <1>8, <1>9, <1>11, <1>12, <1>13, <1>14, <1>15,
       <1>16, <1>17 DEF Rebuild

LEMMA IInvKept == IInv /\ [Next]_vars => IInv'
<1> SUFFICES ASSUME IInv, [Next]_vars PROVE IInv'
    OBVIOUS
<1>1. TypeInv'
  <2>1. TypeInv /\ UNCHANGED vars => TypeInv'
        BY DEF TypeInv, TypeOK, FullSteps, vars
  <2> QED
      BY <2>1, OthersType, RebuildType DEF IInv, Next
<1>2. ASSUME NEW r \in Rebuilders, run'[r].alone
      PROVE  Progress(r)' /\ Route(r)'
  <2>1. CASE ~Rebuild(r)
    <3>1. run'[r] = run[r] /\ stage' = stage
          BY <1>2, <2>1, Undisturbed
    <3>2. Progress(r) /\ Route(r)
          BY <1>2, <3>1 DEF IInv
    <3>3. Progress(r)'
          BY <3>1, <3>2
             DEF Progress, Accounted, AtEntity, InLoop, Vouched, KnownStaged
    <3>4. Route(r)'
          BY <3>1, <3>2 DEF Route, OwnRows, Itinerary, AtEntity, InLoop
    <3> QED
        BY <3>3, <3>4
  <2>2. CASE BeginFull(r)
    <3>1. /\ run'[r].pc \in {"discard", "open"} /\ stage' = stage
          /\ run'[r].excused = run[r].excused
          /\ run'[r].pc = "open" => run'[r].resumed \/ ~stage.open
          BY <2>2, BeginFields DEF IInv, BeginFull
    <3>2. run[r].excused = {}
          BY <2>2 DEF BeginFull, IInv, Fresh, NotRunning
    <3>3. Progress(r)'
          BY <3>1 DEF Progress, Accounted, AtEntity, InLoop
    <3>4. Route(r)'
          BY <3>1, <3>2 DEF Route, OwnRows, Itinerary, AtEntity, InLoop
    <3> QED
        BY <3>3, <3>4
  <2>3. CASE Rebuild(r) /\ ~BeginFull(r)
    <3>1. ~NotRunning.alone
          BY DEF NotRunning
    <3>2. run[r].alone
          BY <1>2, <2>3, <3>1, OwnMarks DEF IInv
    <3> QED
        BY <1>1, <1>2, <2>3, <3>2, ProgressStep, RouteStep
  <2> QED
      BY <2>1, <2>2, <2>3
<1> QED
    BY <1>1, <1>2, ExclusiveKept, FreshKept DEF IInv

LEMMA IInvAlways == Spec => []IInv
BY IInit, IInvKept, PTL DEF Spec

(* A switch to a generation of the width in use leaves no active memory      *)
(* without the vector it had, and an undisturbed run replaces the vectors of *)
(* those alone that it listed and read, or that a run it resumed had staged  *)
(* (swapVectorGeneration, db.ts, with reindex, operations.ts).               *)
THEOREM VectorsSurviveTheSwitch == Spec => SwapKeepsVectors
<1> DEFINE Kept ==
      \A r \in Rebuilders : SwappedBy(r) /\ width' = width =>
          \A e \in Active : live[e] # None =>
             /\ live'[e] # None
             /\ run[r].alone /\ live'[e] # live[e] =>
                   run[r].resumed \/ e \in run[r].listed \ run[r].excused
<1>1. IInv /\ [Next]_vars => [Kept]_vars
  <2> SUFFICES ASSUME IInv, [Next]_vars, NEW r \in Rebuilders,
                      SwappedBy(r), width' = width,
                      NEW e \in Active, live[e] # None
               PROVE  /\ live'[e] # None
                      /\ run[r].alone /\ live'[e] # live[e] =>
                            \/ run[r].resumed
                            \/ e \in run[r].listed \ run[r].excused
      OBVIOUS
  <2>1. Swap(r) /\ run[r].width = width /\ e \in Entities
        BY OnlySwap DEF Swap, Active, IInv
  <2>2. live'[e] = IF e \in Pruned THEN stage.rows[e]
                   ELSE IF e \in Carried(run[r].width) THEN live[e] ELSE None
        BY <2>1 DEF Swap
  <2>3. e \in Pruned \/ e \in Carried(run[r].width)
        BY <2>1 DEF Carried, Having
  <2>4. e \in Pruned => stage.rows[e] # None
        BY DEF Pruned, Having
  <2>5. ASSUME run[r].alone, ~run[r].resumed, e \in Pruned
        PROVE  e \in run[r].listed \ run[r].excused
    <3>1. Route(r) /\ run[r].pc = "swap"
          BY <2>1, <2>5 DEF IInv, Swap
    <3> QED
        BY <2>1, <2>4, <2>5, <3>1 DEF Route, OwnRows
  <2> QED
      BY <2>2, <2>3, <2>4, <2>5
<1> QED
    BY IInvAlways, <1>1, PTL DEF Spec, SwapKeepsVectors

(* A rebuild that nobody disturbed promotes what it verified: every listed   *)
(* memory still active was excused or is indexed by the text the run read,   *)
(* whatever crashed runs had staged before it (reindex, operations.ts).      *)
THEOREM TheSwitchPromotesWhatWasVerified == Spec => PromotesWhatItVerified
<1> DEFINE Verified ==
      \A r \in Rebuilders : SwappedBy(r) /\ run[r].alone =>
          \A e \in run[r].listed \cap Active :
             \/ e \in run[r].excused
             \/ run[r].verified[e] # None
                /\ live'[e] \in {run[r].verified[e]}
                               \cup {v \in Texts : v = stage.rows[e]
                                                  /\ v # stage.hash[e]}
<1>1. IInv /\ [Next]_vars => [Verified]_vars
  <2> SUFFICES ASSUME IInv, [Next]_vars, NEW r \in Rebuilders,
                      SwappedBy(r), run[r].alone,
                      NEW e \in run[r].listed \cap Active,
                      e \notin run[r].excused
               PROVE  /\ run[r].verified[e] # None
                      /\ live'[e] \in {run[r].verified[e]}
                                     \cup {v \in Texts : v = stage.rows[e]
                                                        /\ v # stage.hash[e]}
      OBVIOUS
  <2>1. Swap(r) /\ Progress(r) /\ e \in Entities /\ stage \in Stages
        BY OnlySwap DEF IInv, TypeInv, TypeOK, Active
  <2>2. run[r].pc = "swap"
        BY <2>1 DEF Swap
  <2>3. Vouched(r, e)
        BY <2>1, <2>2 DEF Progress, Accounted, AtEntity
  <2>4. e \in Pruned
        BY <2>1, <2>3 DEF Vouched, Pruned, Having
  <2>5. live'[e] = stage.rows[e]
        BY <2>1, <2>4 DEF Swap
  <2>6. stage.rows[e] \in Texts
        BY <2>1, <2>3 DEF Stages, Vectors, Vouched
  <2> QED
      BY <2>3, <2>5, <2>6 DEF Vouched
<1> QED
    BY IInvAlways, <1>1, PTL DEF Spec, PromotesWhatItVerified

(* An undisturbed full rebuild withdraws the reindex notice only when its    *)
(* generation was switched in (the verdict of reindex, operations.ts).       *)
THEOREM TheNoticeStays == Spec => OwedUntilBuilt
<1> DEFINE Stays ==
      \A r \in Rebuilders :
          /\ run[r].pc = "measure" /\ run'[r].pc = "idle"
          /\ run[r].full /\ run[r].alone
          /\ owed /\ ~owed'
          => run[r].swapped
<1>1. IInv /\ [Next]_vars => [Stays]_vars
  <2> SUFFICES ASSUME IInv, [Next]_vars, NEW r \in Rebuilders,
                      run[r].pc = "measure", run'[r].pc = "idle",
                      run[r].alone, owed, ~owed'
               PROVE  run[r].swapped
      OBVIOUS
  <2>1. PICK q \in Rebuilders : Measure(q)
        BY DEF Next, Others, Rebuild, Remember, RemoveObservation, Rewrite,
               ArchiveEntity, DeleteEntity, EmbedLost, EmbedAnswered,
               EmbedWritten, SwitchProvider, NoticeMismatch,
               DiscardGeneration, BeginScoped, BeginFull, DiscardIncompatible,
               OpenGeneration, ReadStaged, ListEntities, Visit, NoEmbedding,
               Embedded, Write, RecordRow, Count, Swap, SwapFails,
               CrashRebuild, vars
  <2>2. q = r
        BY <2>1 DEF Measure
  <2>3. ~run[r].failed
        BY <2>1, <2>2 DEF Measure, Verdict
  <2> QED
      BY <2>3 DEF IInv, Progress
<1> QED
    BY IInvAlways, <1>1, PTL DEF Spec, OwedUntilBuilt
=============================================================================
