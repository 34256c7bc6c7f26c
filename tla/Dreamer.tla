------------------------------- MODULE Dreamer -------------------------------
(* The dreamer of src/src/core/dreamer.ts over the memories of               *)
(* KnowledgeGraph: a run reads clusters of memories, awaits a model for each *)
(* and stages proposals; a reviewer, in another process, applies or rejects  *)
(* them, while the memories they speak of are written, forgotten and pinned. *)
(*                                                                           *)
(* One project: a run treats each on its own. Which memories are similar,    *)
(* and what a model answers, is any choice.                                  *)
EXTENDS KnowledgeGraph, Sequences

CONSTANTS
    Slug,          \* names a model or a reviewer proposes
    MaxProposals,  \* bound: proposals ever staged
    ClusterSize,   \* COMPACT_MIN_CLUSTER_SIZE
    Scenarios      \* bounds: the memories there are at first, and the calls

Ids == 1..MaxProposals

(* A name is a slug, or one with a suffix: "slug (digest #3)", "slug-r3"     *)
Bare(slug) == <<slug, 0>>
Suffixed(slug, n) == <<slug, n>>

ASSUME NamesAssumption ==
    /\ Proposal = Ids /\ MaxProposals \in Nat
    /\ Slug \X (0..MaxProposals) \subseteq Name
    /\ Summary \in Name
    /\ Memory \subseteq Nat /\ IsFiniteSet(Memory)
    /\ None \notin Memory \cup Name \cup Ids \cup Slug
    /\ Terms \in [Name \cup Text -> SUBSET Term]
ASSUME BoundsAssumption ==
    /\ ClusterSize \in Nat \ {0} /\ NoiseThreshold \in Nat
    /\ Scenarios \subseteq [memory : [Memory -> Row],
                            left : Left]

(* What is stored before the first proposal has names, no two the same, an   *)
(* index that says what the memories say, and no trace of a proposal         *)
Sound(rows) ==
    /\ \A m \in Memory :
          /\ rows[m].terms = Says(rows[m])
          /\ rows[m].listed <=> rows[m].status = "active"
          /\ rows[m].status \in {"active", "archived"} => rows[m].name # None
          /\ rows[m].metadata.proposal_id = None /\ rows[m].metadata.guard = None
    /\ \A n \in Name : \A m, k \in Named(rows, n) : m = k
ASSUME ScenariosAssumption == \A s \in Scenarios : Sound(s.memory)

(* The digest, pattern, guard, product improvement, transcript and relation  *)
(* proposals. Sources is source_ids, empty for a transcript.                 *)
ProposalKind == {"digest", "pattern", "guard", "product", "transcript", "relation"}
ProposalRow == [kind : ProposalKind, status : {"pending", "applied", "rejected"},
                sources : SUBSET Memory, slug : Slug \cup {None}]

DreamJob ==
    [op : {"dream"}, clusters : SUBSET SUBSET Memory]
    \cup [op : {"heal"}, clusters : SUBSET SUBSET Memory, narrower : SUBSET Ids]
    \cup [op : {"await"}, clusters : SUBSET SUBSET Memory, cluster : SUBSET Memory,
          seen : SUBSET Ids]
    \cup [op : {"guards"}, lessons : SUBSET Memory, lesson : Memory \cup {None}]
    \cup [op : {"mine"}, sources : SUBSET Memory]
    \cup [op : {"stage"}, slug : Slug]
    \cup [op : {"judge"}, pair : SUBSET Memory]
    \cup [op : {"apply"}, id : Ids, name : Name]
    \cup [op : {"dead"}, id : Ids]
Job == GraphJob \cup DreamJob

VARIABLES
    proposals,  \* dream_proposals
    relations,  \* summarizes: <<digest, source>>
    judged,     \* conflict_judged_pairs
    overruled   \* history: proposals rejected after they were decided on

dream == <<proposals, relations, judged, overruled>>
vars == <<graph, dream>>

Pending == {i \in DOMAIN proposals : proposals[i].status = "pending"}
OfKind(kinds) == {i \in DOMAIN proposals : proposals[i].kind \in kinds}
Staged(kind, sources, slug) ==
    [kind |-> kind, status |-> "pending", sources |-> sources, slug |-> slug]
(* Bound: there is room for one more                                         *)
MayStage == Len(proposals) < MaxProposals
Decided(table, ids, status) ==
    [i \in DOMAIN table |-> IF i \in ids THEN [table[i] EXCEPT !.status = status] ELSE table[i]]

Init ==
    /\ \E s \in Scenarios : memory = s.memory /\ left = s.left
    /\ job = [c \in Caller |-> Idle]
    /\ drifted = {} /\ torn = {} /\ clobbered = {}
    /\ proposals = <<>> /\ relations = {} /\ judged = {} /\ overruled = {}

-----------------------------------------------------------------------------
(* runDreamer. The clusters are read once; each is looked up among the       *)
(* pending proposals when its turn comes, and then a model is awaited.       *)
Compactable ==
    {m \in Active : /\ memory[m].type = "commit"
                    /\ ~memory[m].metadata.pin
                    /\ memory[m].metadata.compacted_into = None}
Clusters == {C \in SUBSET Compactable : Cardinality(C) >= ClusterSize}
RunDreamer(c) ==
    \E cs \in SUBSET Clusters :
        /\ \A A, B \in cs : A # B => A \cap B = {}
        /\ Begin(c, "dream", [op |-> "dream", clusters |-> cs])
        /\ Reads /\ UNCHANGED dream

(* relatedPendingProposals and retireSupersededBy read every pending row     *)
(* whose source_ids is an array, but for patterns and relations              *)
Comparable == Pending \cap OfKind({"digest", "guard", "product"})
Related(C) == {i \in Comparable : proposals[i].sources \cap C # {}}
Identical(C) == {i \in Comparable : proposals[i].sources = C}
Narrower(C) == {i \in Related(C) : proposals[i].sources \subseteq C /\ proposals[i].sources # C}

ConsiderCluster(c) ==
    /\ job[c].op = "dream"
    /\ \E C \in job[c].clusters :
         LET rest == job[c].clusters \ {C}
         IN Becomes(c, IF Identical(C) # {}
                         THEN [op |-> "heal", clusters |-> rest, narrower |-> Narrower(C)]
                       ELSE IF Related(C) # Narrower(C)
                         THEN [op |-> "dream", clusters |-> rest]
                       ELSE [op |-> "await", clusters |-> rest, cluster |-> C,
                             seen |-> Related(C)])
    /\ Reads /\ UNCHANGED <<left, dream>>
(* The rows read a statement before are rejected whatever they are by now    *)
HealOverlap(c) ==
    /\ job[c].op = "heal"
    /\ proposals' = Decided(proposals, job[c].narrower, "rejected")
    /\ overruled' = overruled \cup (job[c].narrower \ Pending)
    /\ Becomes(c, [op |-> "dream", clusters |-> job[c].clusters])
    /\ Reads /\ UNCHANGED <<left, relations, judged>>
(* The model fails, finds nothing to merge, or the validator refuses         *)
ModelDeclines(c) ==
    /\ job[c].op = "await"
    /\ Becomes(c, [op |-> "dream", clusters |-> job[c].clusters])
    /\ Reads /\ UNCHANGED <<left, dream>>
(* Mutant: what the digest replaces stays pending                            *)
WriteBeside(c) ==
    \E slug \in Slug :
        /\ job[c].op = "await" /\ MayStage
        /\ proposals' = Append(proposals, Staged("digest", job[c].cluster, slug))
        /\ Becomes(c, [op |-> "dream", clusters |-> job[c].clusters])
        /\ Reads /\ UNCHANGED <<left, relations, judged, overruled>>
(* writeProposal and retireSupersededBy, in one transaction                  *)
WriteProposal(c) ==
    \E slug \in Slug :
        /\ job[c].op = "await" /\ MayStage
        /\ proposals' = Append(Decided(proposals, Narrower(job[c].cluster), "rejected"),
                               Staged("digest", job[c].cluster, slug))
        /\ Becomes(c, [op |-> "dream", clusters |-> job[c].clusters])
        /\ Reads /\ UNCHANGED <<left, relations, judged, overruled>>

(* proposeGuards, at the end of a run: the lessons without a guard or a      *)
(* pending one are read once                                                 *)
Unguarded ==
    {m \in Active : /\ memory[m].type = "lesson_learned"
                    /\ memory[m].metadata.guard = None
                    /\ \A i \in Pending \cap OfKind({"guard"}) : m \notin proposals[i].sources}
Guards(lessons, lesson) ==
    IF lesson = None /\ lessons = {} THEN Idle
    ELSE [op |-> "guards", lessons |-> lessons, lesson |-> lesson]
ProposeGuards(c) ==
    /\ job[c].op = "dream" /\ job[c].clusters = {}
    /\ Becomes(c, Guards(Unguarded, None))
    /\ Reads /\ UNCHANGED <<left, dream>>
AskForGuard(c) ==
    /\ job[c].op = "guards" /\ job[c].lesson = None
    /\ \E l \in job[c].lessons : Becomes(c, Guards(job[c].lessons \ {l}, l))
    /\ Reads /\ UNCHANGED <<left, dream>>
GuardAnswer(c) ==
    /\ job[c].op = "guards" /\ job[c].lesson # None
    /\ \/ proposals' = proposals
       \/ /\ MayStage
          /\ proposals' = Append(proposals, Staged("guard", {job[c].lesson}, None))
    /\ Becomes(c, Guards(job[c].lessons, None))
    /\ Reads /\ UNCHANGED <<left, relations, judged, overruled>>

(* runPatternDetector: additive, and staged whatever is pending              *)
RunPatternDetector(c) ==
    \E S \in SUBSET {m \in Active : memory[m].metadata.compacted_into = None} :
        /\ S # {}
        /\ Begin(c, "pattern", [op |-> "mine", sources |-> S])
        /\ Reads /\ UNCHANGED dream
WritePatternProposal(c) ==
    \E slug \in Slug :
        /\ job[c].op = "mine" /\ MayStage
        /\ proposals' = Append(proposals, Staged("pattern", job[c].sources, slug))
        /\ Becomes(c, Idle)
        /\ Reads /\ UNCHANGED <<left, relations, judged, overruled>>

(* stageTranscriptProposals: the look and the insert are two statements      *)
StageTranscript(c) ==
    \E slug \in Slug :
        /\ ~\E i \in Pending \cap OfKind({"transcript"}) : proposals[i].slug = slug
        /\ Begin(c, "transcript", [op |-> "stage", slug |-> slug])
        /\ Reads /\ UNCHANGED dream
InsertTranscript(c) ==
    /\ job[c].op = "stage" /\ MayStage
    /\ proposals' = Append(proposals, Staged("transcript", {}, job[c].slug))
    /\ Becomes(c, Idle)
    /\ Reads /\ UNCHANGED <<left, relations, judged, overruled>>

(* stageProductImprovement, in an immediate transaction. A slug stands for   *)
(* the hash of the improvement and its sources.                              *)
StageProductImprovement(c) ==
    \E slug \in Slug, S \in SUBSET Active :
        LET same == {i \in OfKind({"product"}) : proposals[i].slug = slug}
        IN /\ S # {} /\ \A i \in same : proposals[i].sources = S
           /\ same \cap Pending = {} /\ MayStage
           /\ proposals' = Append(proposals, Staged("product", S, slug))
           /\ Begin(c, "product", Idle)
           /\ Reads /\ UNCHANGED <<relations, judged, overruled>>

(* judgeConflicts: a pair of memories, a model, and the verdict under the    *)
(* primary key of the pair                                                   *)
JudgePair(c) ==
    \E pair \in SUBSET {m \in Active : memory[m].type \in {"note", "lesson_learned"}} :
        /\ Cardinality(pair) = 2 /\ pair \notin judged
        /\ Begin(c, "judge", [op |-> "judge", pair |-> pair])
        /\ Reads /\ UNCHANGED dream
(* Mutant: the verdict is put in whether or not there is one                 *)
RecordAnyway(c) ==
    /\ job[c].op = "judge" /\ MayStage
    /\ judged' = judged \cup {job[c].pair}
    /\ proposals' = Append(proposals, Staged("relation", job[c].pair, None))
    /\ Becomes(c, Idle)
    /\ Reads /\ UNCHANGED <<left, relations, overruled>>
RecordVerdict(c) ==
    /\ job[c].op = "judge"
    /\ IF job[c].pair \in judged
         THEN UNCHANGED <<proposals, judged>>
         ELSE /\ judged' = judged \cup {job[c].pair}
              /\ \/ proposals' = proposals
                 \/ MayStage /\ proposals' = Append(proposals, Staged("relation", job[c].pair, None))
    /\ Becomes(c, Idle)
    /\ Reads /\ UNCHANGED <<left, relations, overruled>>

-----------------------------------------------------------------------------
(* applyProposal: that the proposal is pending, and that the name of what it *)
(* makes is free, is read before the transaction                             *)
CollisionSafe(slug, i) ==
    IF Named(memory, Bare(slug)) = {} THEN Bare(slug) ELSE Suffixed(slug, i)
Cycle(i) ==
    Cardinality({k \in OfKind({"product"}) : k < i /\ proposals[k].slug = proposals[i].slug})
NameOf(i) ==
    LET p == proposals[i]
    IN CASE p.slug = None -> Summary
         [] p.kind = "product" -> Suffixed(p.slug, Cycle(i))
         [] OTHER -> CollisionSafe(p.slug, i)
ApplyProposal(c) ==
    \E i \in Pending :
        /\ Begin(c, "apply", [op |-> "apply", id |-> i, name |-> NameOf(i)])
        /\ Reads /\ UNCHANGED dream

Applying(c, kind) == job[c].op = "apply" /\ proposals[job[c].id].kind = kind
(* Mutant: the look before the transaction is enough                         *)
OncePending(c) == TRUE
(* UPDATE ... AND status = 'pending', or the transaction is rolled back      *)
StillPending(c) == job[c].id \in Pending
Accept(c) ==
    /\ proposals' = Decided(proposals, {job[c].id}, "applied")
    /\ Becomes(c, Idle)
GivesUp(c, j) ==
    /\ Becomes(c, j)
    /\ UNCHANGED <<memory, drifted, torn, clobbered, left, dream>>
(* The entity a proposal makes, with what it says left out                   *)
MadeFrom(c, type) ==
    Create(memory, job[c].name, type, {}, [Plain EXCEPT !.proposal_id = job[c].id])

(* Mutant: a memory is taken from the digest it is in                        *)
Extant(rows, i) == {s \in proposals[i].sources : rows[s].status # "deleted"}
(* A digest takes those of its sources that no other digest took, whatever   *)
(* became of them otherwise, and archives them                               *)
Free(rows, i) ==
    {s \in proposals[i].sources :
        rows[s].status # "deleted" /\ rows[s].metadata.compacted_into = None}
ApplyDigest(c) ==
    /\ Applying(c, "digest") /\ Room(memory, job[c].name)
    /\ LET made == MadeFrom(c, "digest")
           d == Owner(made, job[c].name)
           taken == Free(made, job[c].id)
           rows == [m \in Memory |->
                      IF m \in taken
                        THEN Archive([made[m] EXCEPT !.metadata.compacted_into = d], made[m].name)
                        ELSE made[m]]
       IN IF taken = {} THEN GivesUp(c, [op |-> "dead", id |-> job[c].id])
          ELSE IF ~StillPending(c) THEN GivesUp(c, Idle)
          ELSE /\ Commit(rows, {})
               /\ relations' = relations \cup {<<d, s>> : s \in taken}
               /\ Accept(c)
               /\ UNCHANGED <<torn, clobbered, left, judged, overruled>>
(* Mutant: whatever it is by now                                             *)
RejectedAnyway(i) == Decided(proposals, {i}, "rejected")
(* rejectProposal: UPDATE ... AND status = 'pending'                         *)
Rejected(i) == Decided(proposals, {i} \cap Pending, "rejected")
(* NothingToClaimError: rejected after the rollback                          *)
RejectDead(c) ==
    /\ job[c].op = "dead"
    /\ proposals' = Rejected(job[c].id)
    /\ Becomes(c, Idle)
    /\ Reads /\ UNCHANGED <<left, relations, judged, overruled>>

(* A pattern leaves its sources alone but for an evidence_for edge           *)
ApplyPattern(c) ==
    /\ Applying(c, "pattern") /\ Room(memory, job[c].name)
    /\ IF \A s \in proposals[job[c].id].sources : ~Stored(s)
         THEN GivesUp(c, [op |-> "dead", id |-> job[c].id])
       ELSE IF ~StillPending(c) THEN GivesUp(c, Idle)
       ELSE /\ Commit(MadeFrom(c, "note"), {})
            /\ Accept(c)
            /\ UNCHANGED <<torn, clobbered, left, relations, judged, overruled>>

ApplyProductImprovement(c) ==
    /\ Applying(c, "product") /\ Room(memory, job[c].name)
    /\ IF \/ ~(proposals[job[c].id].sources \subseteq Active)
          \/ Named(memory, job[c].name) # {}
          \/ ~StillPending(c)
         THEN GivesUp(c, Idle)
       ELSE /\ Commit(MadeFrom(c, "note"), {})
            /\ Accept(c)
            /\ UNCHANGED <<torn, clobbered, left, relations, judged, overruled>>

(* The one that does not ask whether the proposal is still pending           *)
ApplyTranscript(c) ==
    /\ Applying(c, "transcript") /\ Room(memory, job[c].name)
    /\ Commit(MadeFrom(c, "note"), {})
    /\ Accept(c)
    /\ UNCHANGED <<torn, clobbered, left, relations, judged, overruled>>

ApplyGuard(c) ==
    /\ Applying(c, "guard")
    /\ IF proposals[job[c].id].sources \subseteq Active /\ StillPending(c)
         THEN /\ memory' = [m \in Memory |->
                              IF m \in proposals[job[c].id].sources
                                THEN [memory[m] EXCEPT !.metadata.guard = job[c].id]
                                ELSE memory[m]]
              /\ Accept(c)
              /\ UNCHANGED <<drifted, torn, clobbered, left, relations, judged, overruled>>
         ELSE GivesUp(c, Idle)
ApplyRelation(c) ==
    /\ Applying(c, "relation")
    /\ IF proposals[job[c].id].sources \subseteq Active /\ StillPending(c)
         THEN Accept(c) /\ Reads /\ UNCHANGED <<left, relations, judged, overruled>>
         ELSE GivesUp(c, Idle)

RejectProposal(c) ==
    \E i \in Pending :
        /\ Begin(c, "reject", Idle)
        /\ proposals' = Rejected(i)
        /\ Reads /\ UNCHANGED <<relations, judged, overruled>>

RunStep ==
    \E c \in Caller :
        \/ RunDreamer(c) \/ ConsiderCluster(c) \/ HealOverlap(c)
        \/ ModelDeclines(c) \/ WriteProposal(c)
        \/ ProposeGuards(c) \/ AskForGuard(c) \/ GuardAnswer(c)
        \/ RunPatternDetector(c) \/ WritePatternProposal(c)
        \/ StageTranscript(c) \/ InsertTranscript(c)
        \/ StageProductImprovement(c) \/ JudgePair(c) \/ RecordVerdict(c)
ReviewStep ==
    \E c \in Caller :
        \/ ApplyProposal(c) \/ ApplyDigest(c) \/ RejectDead(c)
        \/ ApplyPattern(c) \/ ApplyProductImprovement(c) \/ ApplyTranscript(c)
        \/ ApplyGuard(c) \/ ApplyRelation(c) \/ RejectProposal(c)

(* Hard deletion cascades to the relations of a memory                       *)
Next ==
    \/ /\ GraphStep
       /\ relations' = {e \in relations : \A m \in {e[1], e[2]} : memory'[m].status # "deleted"}
       /\ UNCHANGED <<proposals, judged, overruled>>
    \/ RunStep
    \/ ReviewStep
Spec == Init /\ [][Next]_vars
-----------------------------------------------------------------------------
(* Types and shapes of the whole state                                       *)
TypeOK ==
    /\ memory \in [Memory -> Row]
    /\ job \in [Caller -> Job]
    /\ drifted \subseteq Memory /\ torn \subseteq Memory /\ clobbered \subseteq Memory
    /\ left \in Left
    /\ proposals \in Seq(ProposalRow) /\ Len(proposals) <= MaxProposals
    /\ relations \subseteq Memory \X Memory
    /\ judged \subseteq SUBSET Memory /\ overruled \subseteq Ids

(* Two digests never both summarise a memory, however the clusters they came *)
(* from overlap and whoever accepts them: its one back-pointer names the     *)
(* digest at the other end of each edge, unless a stale copy of its metadata *)
(* was written back over it (dreamer.ts:1742, knowledge-graph.ts:259).       *)
OneDigestPerSource ==
    \A e \in relations : e[2] \notin clobbered => memory[e[2]].metadata.compacted_into = e[1]

(* What a proposal made, a memory or a guard, was accepted and is its only   *)
(* effect: nothing is left of a proposal that is pending or rejected, and of *)
(* the reviewers that accept one together one succeeds. But a transcript     *)
(* proposal is applied without asking (dreamer.ts:1537), and the run that    *)
(* heals an overlap rejects what it had listed, applied or not (:823). And a *)
(* pair is put before the reviewers once, however many runs judge it at a    *)
(* time (conflict-judge.ts:333).                                             *)
Effects(i) ==
    {m \in Memory \ clobbered :
        i = memory[m].metadata.proposal_id \/ i = memory[m].metadata.guard}
OneEffectPerProposal ==
    \A i \in DOMAIN proposals :
        /\ Effects(i) # {} => proposals[i].status = "applied" \/ i \in overruled
        /\ Cardinality(Effects(i)) > 1 => proposals[i].kind = "transcript"
        /\ proposals[i].kind = "relation" =>
              \A k \in OfKind({"relation"}) : proposals[k].sources = proposals[i].sources => k = i

(* A decision is for good: what was rejected is never applied later, nor the *)
(* other way round, by one who had read the proposal while it was pending,   *)
(* with the two exceptions above.                                            *)
DecidedForGood ==
    [][\A i \in DOMAIN proposals :
          proposals[i].status # "pending" =>
            \/ proposals'[i].status = proposals[i].status
            \/ proposals[i].kind = "transcript"
            \/ i \in overruled']_vars

(* A digest is staged beside a pending proposal that it overlaps only if     *)
(* that one came while the model was awaited: what the run saw then, the     *)
(* digest replaces (dreamer.ts:398).                                         *)
RivalsAreUnseen ==
    [][\A c \in Caller :
          job[c].op = "await" /\ job'[c] # job[c] /\ proposals' # proposals =>
            \A i \in job[c].seen : proposals'[i].status # "pending"]_vars
=============================================================================
