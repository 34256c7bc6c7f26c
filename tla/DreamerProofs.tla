---------------------------- MODULE DreamerProofs ----------------------------
(* What KnowledgeGraph and Dreamer promise for every set of memories, names, *)
(* texts, callers and scenarios.                                             *)
EXTENDS Dreamer, FiniteSetTheorems, TLAPS

Kept(r) == r.status \in {"active", "archived"}
Exact(r) == r.terms = Says(r) /\ (r.listed <=> r.status = "active")
(* The words an active memory is not found by: of its name, or of its text   *)
Slot == {"name", "text"} \X Term
Lost(r) ==
    {p \in Slot : /\ r.status = "active" /\ p[2] \notin r.terms
                  /\ p[2] \in IF p[1] = "name" THEN Terms[r.name] ELSE Words(r.texts)}

(* An entry that a writer who knows the row can take out whole               *)
Tidy(r) == IF r.listed THEN r.terms \subseteq Entry(r.name, r.texts) ELSE r.terms = {}

(* A caller between deleting an observation and indexing what is left        *)
Cutting(j) == j.op = "remove" /\ j.at # "delete"
Cuts(c, m) == Cutting(job[c]) /\ job[c].id = m

-----------------------------------------------------------------------------
(* Names: a stored memory has one, and no other has it                       *)
StoredNamed(rows) == \A m \in Memory : Kept(rows[m]) => rows[m].name \in Name
UniqueNames(rows) ==
    \A m, k \in Memory : Kept(rows[m]) /\ Kept(rows[k]) /\ rows[m].name = rows[k].name => m = k

(* What proposals are made of, and which ones a call may have in hand        *)
ProposalShapes ==
    \A i \in DOMAIN proposals :
        /\ proposals[i].kind = "product" => proposals[i].slug # None
        /\ proposals[i].kind = "guard" => \E l \in Memory : proposals[i].sources = {l}
InHand ==
    \A c \in Caller :
        /\ job[c].op \in {"apply", "dead"} => job[c].id \in DOMAIN proposals
        /\ job[c].op = "heal" => job[c].narrower \subseteq DOMAIN proposals

(* The memories a call or a proposal speaks of, which were all stored once   *)
Handled(j) ==
    {m \in Memory :
        \/ j.op \in {"remove", "archive", "delete", "rename", "clear"} /\ m = j.id
        \/ j.op \in {"compress", "retire"} /\ m \in j.batch
        \/ j.op \in {"dream", "heal", "await"} /\ \E C \in j.clusters : m \in C
        \/ j.op = "await" /\ m \in j.cluster
        \/ j.op = "guards" /\ m \in j.lessons \cup {j.lesson}
        \/ j.op = "mine" /\ m \in j.sources
        \/ j.op = "judge" /\ m \in j.pair}
Old(S) == \A m \in S : memory[m].status # "new"
HandledOld == \A c \in Caller : Old(Handled(job[c]))
SourcesOld == \A i \in DOMAIN proposals : Old(proposals[i].sources)

Typed ==
    /\ TypeOK
    /\ StoredNamed(memory) /\ UniqueNames(memory)
    /\ ProposalShapes /\ InHand /\ HandledOld /\ SourcesOld

-----------------------------------------------------------------------------
(* A removal that nobody disturbed: what it has left to do makes the entry   *)
(* exact                                                                     *)
Halfway(r, j) ==
    /\ r.status = "active" /\ r.name = j.name
    /\ j.at = "unindex" => r.listed /\ r.terms \subseteq Entry(j.name, j.prev)
    /\ j.at \in {"read", "insert"} => r.terms = {}
    /\ j.at = "insert" => j.now = r.texts
IndexInv ==
    \A m \in Memory \ drifted :
        /\ (\A c \in Caller : ~Cuts(c, m)) => Exact(memory[m])
        /\ \A c \in Caller : Cuts(c, m) =>
              /\ Halfway(memory[m], job[c])
              /\ \A d \in Caller : Cuts(d, m) => d = c

(* What the removals under way will put back                                 *)
Owed(j) ==
    {p \in Slot : \/ p[2] \in Terms[j.name]
                  \/ j.at = "insert" /\ p[2] \in Words(j.now)
                  \/ j.at # "insert" /\ p[1] = "text"}
FoundInv ==
    \A m \in Memory \ torn : \A x \in Lost(memory[m]) :
        \E c \in Caller : Cuts(c, m) /\ x \in Owed(job[c])

-----------------------------------------------------------------------------
DigestInv ==
    \A e \in relations :
        /\ memory[e[2]].status # "new"
        /\ e[2] \notin clobbered => memory[e[2]].metadata.compacted_into = e[1]

Traces(m) == {memory[m].metadata.proposal_id, memory[m].metadata.guard} \ {None}
Traced(m) ==
    /\ Traces(m) \subseteq DOMAIN proposals
    /\ memory[m].metadata.guard # None =>
          /\ proposals[memory[m].metadata.guard].kind = "guard"
          /\ m \in proposals[memory[m].metadata.guard].sources
    /\ memory[m].metadata.proposal_id # None =>
          proposals[memory[m].metadata.proposal_id].kind # "guard"
    /\ \A i \in Traces(m) : proposals[i].status = "applied" \/ i \in overruled
EffectsTraced == \A m \in Memory \ clobbered : Traced(m)
MadeOnce ==
    \A m, k \in Memory \ clobbered :
        /\ memory[m].metadata.proposal_id = memory[k].metadata.proposal_id
        /\ memory[m].metadata.proposal_id # None
        => m = k \/ proposals[memory[m].metadata.proposal_id].kind = "transcript"
OverruledDecided ==
    /\ overruled \subseteq DOMAIN proposals
    /\ \A i \in overruled : proposals[i].status # "pending"
RelationsJudged ==
    /\ \A i \in OfKind({"relation"}) : proposals[i].sources \in judged
    /\ \A i, k \in OfKind({"relation"}) : proposals[i].sources = proposals[k].sources => i = k
EffectInv == EffectsTraced /\ MadeOnce /\ OverruledDecided /\ RelationsJudged

(* What a run saw before it asked a model lies within its cluster            *)
SeenWithin ==
    \A c \in Caller : job[c].op = "await" =>
        \A i \in job[c].seen :
            /\ i \in DOMAIN proposals
            /\ i \in OfKind({"digest", "guard", "product"})
            /\ proposals[i].sources \subseteq job[c].cluster /\ proposals[i].sources # job[c].cluster
            /\ proposals[i].sources \cap job[c].cluster # {}

-----------------------------------------------------------------------------
(* Rows: what the helpers of the writers make of one                         *)
LEMMA RowFields ==
    ASSUME NEW r \in Row
    PROVE  /\ r.status \in {"new", "active", "archived", "deleted"}
           /\ r.name \in Name \cup {None} /\ r.type \in Type
           /\ r.texts \subseteq Text /\ r.metadata \in Metadata
           /\ r.listed \in BOOLEAN /\ r.terms \subseteq Term
BY DEF Row

LEMMA WordsFacts ==
    /\ Words({}) = {}
    /\ \A A, B : A \subseteq B => Words(A) \subseteq Words(B)
    /\ \A A, B : Words(A) \subseteq Words(A \ B) \cup Words(B)
    /\ \A n \in Name : \A A : Terms[n] \subseteq Term /\ Entry(n, A) \subseteq Term
<1>1. \A n \in Name : Terms[n] \subseteq Term
      BY NamesAssumption
<1>2. \A A : Words(A) \subseteq Term
      BY DEF Words
<1>3. \A A, B : Words(A) \subseteq Words(A \ B) \cup Words(B)
      BY DEF Words
<1> QED
    BY <1>1, <1>2, <1>3 DEF Words, Entry

(* A word is lost when the index lacks one of those that are said            *)
LEMMA NothingLost ==
    ASSUME NEW r, r.status # "active" \/ Entry(r.name, r.texts) \subseteq r.terms
    PROVE  Lost(r) = {}
BY DEF Lost, Slot, Entry

LEMMA AllFound ==
    ASSUME NEW r \in Row, r.name \in Name, Lost(r) = {}
    PROVE  Says(r) \subseteq r.terms
<1> SUFFICES ASSUME r.status = "active", NEW t \in Entry(r.name, r.texts), t \notin r.terms
             PROVE  FALSE
    BY DEF Says
<1>1. t \in Term /\ (t \in Terms[r.name] \/ t \in Words(r.texts))
      BY WordsFacts DEF Entry
<1>2. <<"name", t>> \in Slot /\ <<"text", t>> \in Slot
      BY <1>1 DEF Slot
<1> QED
    BY <1>1, <1>2 DEF Lost

LEMMA UnindexRow ==
    ASSUME NEW r \in Row, NEW n, NEW texts \in SUBSET Text
    PROVE  LET u == Unindex(r, n, texts) IN
           /\ u \in Row
           /\ u.status = r.status /\ u.name = r.name /\ u.type = r.type
           /\ u.texts = r.texts /\ u.metadata = r.metadata
           /\ ~u.listed
           /\ u.terms = IF r.listed THEN r.terms \ Entry(n, texts) ELSE r.terms
<1> DEFINE u == Unindex(r, n, texts)
<1>1. CASE r.listed
      BY <1>1 DEF Unindex, Row
<1>2. CASE ~r.listed
      <2>1. u = r
            BY <1>2 DEF Unindex
      <2> QED
          BY <1>2, <2>1, RowFields
<1> QED
    BY <1>1, <1>2

LEMMA IndexRow ==
    ASSUME NEW r \in Row, NEW n \in Name, NEW texts \in SUBSET Text
    PROVE  LET u == Index(r, n, texts) IN
           /\ u \in Row
           /\ u.status = r.status /\ u.name = r.name /\ u.type = r.type
           /\ u.texts = r.texts /\ u.metadata = r.metadata
           /\ u.listed
           /\ u.terms = r.terms \cup Entry(n, texts)
<1>1. Entry(n, texts) \subseteq Term
      BY WordsFacts
<1> QED
    BY <1>1 DEF Index, Row

LEMMA ReindexRow ==
    ASSUME NEW r \in Row, NEW n \in Name,
           NEW before \in SUBSET Text, NEW after \in SUBSET Text
    PROVE  LET u == Reindex(r, n, before, after) IN
           /\ u \in Row
           /\ u.status = r.status /\ u.name = r.name /\ u.type = r.type
           /\ u.texts = r.texts /\ u.metadata = r.metadata
           /\ u.listed
           /\ u.terms = (IF r.listed THEN r.terms \ Entry(n, before) ELSE r.terms)
                           \cup Entry(n, after)
<1> DEFINE u == Reindex(r, n, before, after)
<1> DEFINE v == Unindex(r, n, before)
<1>1. /\ v \in Row
      /\ v.status = r.status /\ v.name = r.name /\ v.type = r.type
      /\ v.texts = r.texts /\ v.metadata = r.metadata
      /\ v.terms = IF r.listed THEN r.terms \ Entry(n, before) ELSE r.terms
      BY UnindexRow
<1>2. u = Index(v, n, after)
      BY DEF Reindex
<1> HIDE DEF v
<1> QED
    BY <1>1, <1>2, IndexRow

LEMMA MadeRow ==
    ASSUME NEW r \in Row, NEW n \in Name, NEW type \in Type, NEW texts \in SUBSET Text,
           NEW meta \in Metadata
    PROVE  LET u == Made(r, n, type, texts, meta) IN
           /\ u \in Row
           /\ u.status = "active" /\ u.name = n /\ u.metadata = meta
           /\ u.texts = texts
           /\ Lost(u) = {}
           /\ Exact(r) /\ r.status # "active" => Exact(u)
<1> DEFINE u == Made(r, n, type, texts, meta)
<1> DEFINE v == [r EXCEPT !.status = "active", !.name = n, !.type = type, !.texts = texts,
                          !.metadata = meta]
<1>1. /\ v \in Row /\ v.status = "active" /\ v.name = n /\ v.texts = texts
      /\ v.metadata = meta /\ v.terms = r.terms
      BY DEF Row
<1>2. u = Index(v, n, texts)
      BY DEF Made
<1> HIDE DEF v
<1>3. /\ u \in Row /\ u.status = "active" /\ u.name = n /\ u.texts = texts
      /\ u.metadata = meta /\ u.listed /\ u.terms = r.terms \cup Entry(n, texts)
      BY <1>1, <1>2, IndexRow
<1> HIDE DEF u
<1>4. Lost(u) = {}
      BY <1>3, NothingLost
<1> QED
    BY <1>3, <1>4 DEF Exact, Says, u

LEMMA ExactIsTidy == ASSUME NEW r, Exact(r) PROVE Tidy(r)
BY DEF Exact, Tidy, Says

LEMMA ExactIsFound == ASSUME NEW r, Exact(r) PROVE Lost(r) = {}
BY NothingLost DEF Exact, Says

LEMMA ToldRow ==
    ASSUME NEW r \in Row, NEW n \in Name, NEW texts \in SUBSET Text
    PROVE  LET u == Told(r, n, texts) IN
           /\ u \in Row
           /\ u.status = "active" /\ u.name = r.name /\ u.metadata = r.metadata
           /\ u.texts = r.texts \cup texts
           /\ Entry(n, u.texts) \subseteq u.terms
           /\ r.name = n => Lost(u) = {}
           /\ r.name = n /\ Tidy(r) => Exact(u)
<1> DEFINE u == Told(r, n, texts)
<1> DEFINE v == [r EXCEPT !.status = "active", !.texts = @ \cup texts]
<1>1. /\ v \in Row /\ v.status = "active" /\ v.name = r.name /\ v.texts = r.texts \cup texts
      /\ v.metadata = r.metadata /\ v.terms = r.terms /\ (v.listed <=> r.listed)
      BY DEF Row
<1>2. u = Reindex(v, n, r.texts, r.texts \cup texts)
      BY DEF Told
<1>3. r.texts \in SUBSET Text
      BY RowFields
<1> HIDE DEF v
<1>4. /\ u \in Row /\ u.status = "active" /\ u.name = r.name /\ u.texts = r.texts \cup texts
      /\ u.metadata = r.metadata /\ u.listed
      /\ u.terms = (IF r.listed THEN r.terms \ Entry(n, r.texts) ELSE r.terms)
                      \cup Entry(n, r.texts \cup texts)
      <2> DEFINE before == r.texts
                 after == r.texts \cup texts
                 w == Reindex(v, n, before, after)
      <2>1. v \in Row /\ before \in SUBSET Text /\ after \in SUBSET Text
            BY <1>1, <1>3
      <2> HIDE DEF before, after
      <2>2. /\ w \in Row
            /\ w.status = v.status /\ w.name = v.name /\ w.type = v.type
            /\ w.texts = v.texts /\ w.metadata = v.metadata
            /\ w.listed
            /\ w.terms = (IF v.listed THEN v.terms \ Entry(n, before) ELSE v.terms)
                            \cup Entry(n, after)
            BY <2>1, ReindexRow
      <2> QED
          BY <1>1, <1>2, <2>2 DEF before, after
<1>5. r.name = n /\ Tidy(r) => (IF r.listed THEN r.terms \ Entry(n, r.texts) ELSE r.terms) = {}
      BY DEF Tidy
<1> HIDE DEF u
<1>6. r.name = n => Lost(u) = {}
      BY <1>4, NothingLost DEF Says
<1> QED
    BY <1>4, <1>5, <1>6 DEF Exact, Says, u

LEMMA ArchivedRow ==
    ASSUME NEW r \in Row, NEW n
    PROVE  LET u == Archive(r, n) IN
           /\ u \in Row
           /\ u.status \in {"archived", "deleted"}
           /\ u.status = "deleted" <=> r.status = "deleted"
           /\ u.name = r.name /\ u.texts = r.texts /\ u.metadata = r.metadata
           /\ Lost(u) = {}
           /\ Exact(r) /\ (r.status = "active" => r.name = n) => Exact(u)
<1> DEFINE u == Archive(r, n)
<1> DEFINE v == Unindex(r, n, r.texts)
<1>1. r.texts \in SUBSET Text
      BY RowFields
<1>2. /\ v \in Row
      /\ v.status = r.status /\ v.name = r.name /\ v.texts = r.texts
      /\ v.metadata = r.metadata /\ ~v.listed
      /\ v.terms = IF r.listed THEN r.terms \ Entry(n, r.texts) ELSE r.terms
      BY <1>1, UnindexRow
<1>3. u = [v EXCEPT !.status = IF @ = "deleted" THEN @ ELSE "archived"]
      BY DEF Archive
<1> HIDE DEF v
<1>4. /\ u \in Row /\ u.status = IF v.status = "deleted" THEN "deleted" ELSE "archived"
      /\ u.name = v.name /\ u.texts = v.texts /\ u.metadata = v.metadata
      /\ u.listed = v.listed /\ u.terms = v.terms
      BY <1>2, <1>3 DEF Row
<1> QED
    BY <1>2, <1>4, RowFields, NothingLost DEF Exact, Says

LEMMA DeletedRow ==
    ASSUME NEW r \in Row, NEW n \in Name
    PROVE  LET u == Delete(r, n) IN
           /\ u \in Row
           /\ u.status = "deleted" /\ u.metadata = r.metadata
           /\ Lost(u) = {}
           /\ Exact(r) /\ (r.status = "active" => r.name = n) => Exact(u)
<1> DEFINE u == Delete(r, n)
<1> DEFINE v == Unindex(r, n, r.texts)
<1>1. r.texts \in SUBSET Text
      BY RowFields
<1>2. /\ v \in Row
      /\ v.metadata = r.metadata /\ ~v.listed
      /\ v.terms = IF r.listed THEN r.terms \ Entry(n, r.texts) ELSE r.terms
      BY <1>1, UnindexRow
<1>3. u = [v EXCEPT !.status = "deleted", !.texts = {}]
      BY DEF Delete
<1> HIDE DEF v
<1>4. /\ u \in Row /\ u.status = "deleted" /\ u.metadata = v.metadata
      /\ u.listed = v.listed /\ u.terms = v.terms
      BY <1>2, <1>3 DEF Row
<1> QED
    BY <1>2, <1>4, RowFields, NothingLost DEF Exact, Says

LEMMA ClearedRow ==
    ASSUME NEW r \in Row, Kept(r) => r.name \in Name,
           NEW n \in Name, NEW before \in SUBSET Text
    PROVE  LET u == Clear(r, n, before) IN
           /\ u \in Row
           /\ u.status = r.status /\ u.name = r.name /\ u.metadata = r.metadata
           /\ u.texts = {}
           /\ (r.status = "active" => Terms[r.name] \cap Words(before) \subseteq Terms[n])
                => Lost(u) \subseteq Lost(r)
           /\ Exact(r) /\ r.name = n /\ r.texts = before => u.listed /\ u.terms = Terms[n]
           /\ Exact(r) /\ r.name = n /\ r.texts = before => Tidy(u)
           /\ Exact(r) /\ r.name = n /\ r.texts = before /\ r.status = "active" => Exact(u)
<1> DEFINE u == Clear(r, n, before)
<1> DEFINE v == Reindex(r, n, before, {})
<1>1. /\ v \in Row
      /\ v.status = r.status /\ v.name = r.name /\ v.metadata = r.metadata
      /\ v.listed
      /\ v.terms = (IF r.listed THEN r.terms \ Entry(n, before) ELSE r.terms)
                      \cup Terms[n]
      <2> DEFINE none == {}
                 w == Reindex(r, n, before, none)
      <2>1. none \in SUBSET Text /\ v = w /\ Entry(n, none) = Terms[n]
            BY WordsFacts DEF Entry
      <2> HIDE DEF none
      <2>2. /\ w \in Row
            /\ w.status = r.status /\ w.name = r.name /\ w.type = r.type
            /\ w.texts = r.texts /\ w.metadata = r.metadata
            /\ w.listed
            /\ w.terms = (IF r.listed THEN r.terms \ Entry(n, before) ELSE r.terms)
                            \cup Entry(n, none)
            BY <2>1, ReindexRow
      <2> HIDE DEF v, w
      <2> QED
          BY <2>1, <2>2
<1>2. u = [v EXCEPT !.texts = {}]
      BY DEF Clear
<1> HIDE DEF v
<1>3. /\ u \in Row /\ u.status = v.status /\ u.name = v.name /\ u.metadata = v.metadata
      /\ u.texts = {} /\ u.listed = v.listed /\ u.terms = v.terms
      BY <1>1, <1>2 DEF Row
<1>4. Entry(n, before) = Terms[n] \cup Words(before) /\ Words({}) = {}
      BY WordsFacts DEF Entry
<1> HIDE DEF u
<1>5. ASSUME r.status = "active" => Terms[r.name] \cap Words(before) \subseteq Terms[n]
      PROVE  Lost(u) \subseteq Lost(r)
      <2> SUFFICES ASSUME NEW x \in Lost(u) PROVE x \in Lost(r)
          OBVIOUS
      <2>1. /\ r.status = "active" /\ x \in Slot /\ x[1] = "name" /\ x[2] \in Terms[r.name]
            /\ x[2] \notin u.terms
            BY <1>3, <1>1, <1>4 DEF Lost, Slot
      <2>2. x[2] \notin r.terms
            BY <1>1, <1>3, <1>4, <1>5, <2>1
      <2> QED
          BY <2>1, <2>2 DEF Lost
<1>6. Entry(n, {}) = Terms[n]
      BY WordsFacts DEF Entry
<1>7. ASSUME Exact(r), r.name = n, r.texts = before PROVE u.listed /\ u.terms = Terms[n]
      BY <1>1, <1>3, <1>7 DEF Exact, Says, Entry
<1>8. /\ Exact(r) /\ r.name = n /\ r.texts = before => Tidy(u)
      /\ Exact(r) /\ r.name = n /\ r.texts = before /\ r.status = "active" => Exact(u)
      BY <1>1, <1>3, <1>6, <1>7, RowFields DEF Exact, Says, Tidy
<1> QED
    BY <1>1, <1>3, <1>5, <1>7, <1>8 DEF u

LEMMA RenamedRow ==
    ASSUME NEW r \in Row, NEW j, j.name \in Name, j.to \in Name, j.texts \in SUBSET Text,
           j.status \in {"active", "archived"}, NEW added, added = r.texts \ j.texts
    PROVE  LET u == Renamed(r, j) IN
           /\ u \in Row
           /\ u.status = r.status /\ u.metadata = r.metadata
           /\ r.status # "deleted" => u.name = j.to
           /\ ~(j.status = "archived" /\ r.status = "active")
              /\ (r.status = "active" => Words(added) \cap Terms[j.name] \subseteq Entry(j.to, j.texts))
                => Lost(u) \subseteq Lost(r)
           /\ Exact(r) /\ r.name = j.name /\ r.texts = j.texts /\ r.status = j.status => Exact(u)
<1> DEFINE u == Renamed(r, j)
           v == Unindex(r, j.name, j.texts)
           out == [v EXCEPT !.name = IF r.status = "deleted" THEN @ ELSE j.to]
<1>1. /\ v \in Row
      /\ v.status = r.status /\ v.name = r.name /\ v.type = r.type
      /\ v.texts = r.texts /\ v.metadata = r.metadata
      /\ ~v.listed
      /\ v.terms = IF r.listed THEN r.terms \ Entry(j.name, j.texts) ELSE r.terms
      BY UnindexRow
<1>2. u = IF j.status = "archived" THEN out ELSE Index(out, j.to, j.texts)
      BY DEF Renamed
<1> HIDE DEF v
<1>3. /\ out \in Row
      /\ out.status = v.status /\ out.name = IF r.status = "deleted" THEN v.name ELSE j.to
      /\ out.texts = v.texts /\ out.metadata = v.metadata /\ out.terms = v.terms
      /\ ~out.listed
      BY <1>1 DEF Row
<1>4. /\ Entry(j.name, j.texts) = Terms[j.name] \cup Words(j.texts)
      /\ Entry(j.to, j.texts) = Terms[j.to] \cup Words(j.texts)
      /\ Words(r.texts) \subseteq Words(added) \cup Words(j.texts)
      BY WordsFacts DEF Entry
<1>7. Renamed(r, j) = u
      OBVIOUS
<1> HIDE DEF out, u
<1>5. CASE j.status = "archived"
      <2>1. u = out
            BY <1>2, <1>5
      <2>2. r.status # "active" => Lost(u) = {}
            BY <1>1, <1>3, <2>1, NothingLost
      <2>3. Exact(r) /\ r.status = j.status => Exact(u)
            BY <1>1, <1>3, <1>5, <2>1 DEF Says, Exact
      <2>4. r.status # "deleted" => u.name = j.to
            BY <1>3, <2>1
      <2> QED
          BY <1>1, <1>3, <1>5, <1>7, <2>1, <2>2, <2>3, <2>4
<1>6. CASE j.status = "active"
      <2>1. /\ Index(out, j.to, j.texts) \in Row
            /\ Index(out, j.to, j.texts).status = out.status
            /\ Index(out, j.to, j.texts).name = out.name
            /\ Index(out, j.to, j.texts).type = out.type
            /\ Index(out, j.to, j.texts).texts = out.texts
            /\ Index(out, j.to, j.texts).metadata = out.metadata
            /\ Index(out, j.to, j.texts).listed
            /\ Index(out, j.to, j.texts).terms = out.terms \cup Entry(j.to, j.texts)
            BY <1>3, IndexRow
      <2>2. /\ u \in Row /\ u.status = r.status /\ u.name = out.name
            /\ u.texts = r.texts /\ u.metadata = r.metadata
            /\ u.listed /\ u.terms = v.terms \cup Entry(j.to, j.texts)
            BY <1>1, <1>2, <1>3, <1>6, <2>1
      <2>3. ASSUME r.status = "active" => Words(added) \cap Terms[j.name] \subseteq Entry(j.to, j.texts)
            PROVE  Lost(u) \subseteq Lost(r)
            <3> SUFFICES ASSUME NEW x \in Lost(u) PROVE x \in Lost(r)
                OBVIOUS
            <3>1. r.status = "active" /\ x \in Slot /\ x[2] \notin u.terms /\ u.name = j.to
                  BY <1>1, <1>3, <2>2 DEF Lost
            <3>2. x[1] = "text" /\ x[2] \in Words(r.texts)
                  BY <1>4, <2>2, <3>1 DEF Lost, Slot
            <3>3. x[2] \notin r.terms
                  BY <1>1, <1>4, <2>2, <2>3, <3>1, <3>2
            <3> QED
                BY <3>1, <3>2, <3>3 DEF Lost
      <2>4. Exact(r) /\ r.name = j.name /\ r.texts = j.texts /\ r.status = j.status => Exact(u)
            <3> SUFFICES ASSUME Exact(r), r.name = j.name, r.texts = j.texts, r.status = j.status
                         PROVE  Exact(u)
                OBVIOUS
            <3>1. r.listed /\ r.terms = Entry(j.name, j.texts)
                  BY <1>6 DEF Exact, Says
            <3>2. v.terms = {}
                  BY <1>1, <3>1
            <3> QED
                BY <1>3, <1>6, <2>2, <3>2 DEF Exact, Says
      <2>5. r.status # "deleted" => u.name = j.to
            BY <1>3, <2>2
      <2> QED
          BY <1>7, <2>2, <2>3, <2>4, <2>5
<1> QED
    BY <1>5, <1>6

LEMMA RebuiltRow ==
    ASSUME NEW r \in Row, Kept(r) => r.name \in Name
    PROVE  LET u == Rebuilt(r) IN
           /\ u \in Row
           /\ u.status = r.status /\ u.name = r.name /\ u.metadata = r.metadata
           /\ u.texts = r.texts
           /\ Lost(u) = {}
           /\ Exact(u)
<1> DEFINE u == Rebuilt(r)
           bare == [r EXCEPT !.listed = FALSE, !.terms = {}]
<1>1. /\ bare \in Row /\ bare.status = r.status /\ bare.name = r.name
      /\ bare.metadata = r.metadata /\ bare.texts = r.texts
      /\ ~bare.listed /\ bare.terms = {}
      BY DEF Row
<1>2. u = IF r.status = "active" THEN Index(bare, r.name, r.texts) ELSE bare
      BY DEF Rebuilt
<1> HIDE DEF bare, u
<1>3. CASE r.status = "active"
      <2>1. r.name \in Name /\ r.texts \in SUBSET Text
            BY <1>3, RowFields DEF Kept
      <2>2. /\ u \in Row
            /\ u.status = bare.status /\ u.name = bare.name /\ u.metadata = bare.metadata
            /\ u.texts = bare.texts /\ u.listed
            /\ u.terms = bare.terms \cup Entry(r.name, r.texts)
            <3> DEFINE n == r.name
                       texts == r.texts
                       w == Index(bare, n, texts)
            <3>1. n \in Name /\ texts \in SUBSET Text /\ u = w
                  BY <1>2, <1>3, <2>1
            <3> HIDE DEF n, texts
            <3>0. bare \in Row /\ n \in Name /\ texts \in SUBSET Text
                  BY <1>1, <3>1
            <3>2. /\ w \in Row
                  /\ w.status = bare.status /\ w.name = bare.name /\ w.type = bare.type
                  /\ w.texts = bare.texts /\ w.metadata = bare.metadata
                  /\ w.listed /\ w.terms = bare.terms \cup Entry(n, texts)
                  BY <3>0, IndexRow
            <3> HIDE DEF w
            <3> QED
                BY <3>1, <3>2 DEF n, texts
      <2>3. Lost(u) = {} /\ Exact(u)
            BY <1>1, <1>3, <2>2, NothingLost DEF Exact, Says
      <2> QED
          BY <1>1, <2>2, <2>3 DEF u
<1>4. CASE r.status # "active"
      <2>1. u = bare
            BY <1>2, <1>4
      <2>2. Lost(u) = {} /\ Exact(u)
            BY <1>1, <1>4, <2>1, NothingLost DEF Exact, Says
      <2> QED
          BY <1>1, <2>1, <2>2 DEF u
<1> QED
    BY <1>3, <1>4

-----------------------------------------------------------------------------
(* Tables: the memory of a name, and the one a new name gets                 *)
LEMMA FreshIsUnused ==
    ASSUME NEW rows, Unused(rows) # {}
    PROVE  Fresh(rows) \in Unused(rows)
<1> DEFINE U == Unused(rows)
           Below(m) == {k \in U : k <= m}
           T == {Below(m) : m \in U}
<1>1. U \subseteq Memory /\ Memory \subseteq Nat /\ IsFiniteSet(Memory)
      BY NamesAssumption DEF Unused
<1>2. IsFiniteSet(U)
      BY <1>1, FS_Subset
<1>3. FiniteSubsetsOf(U) = SUBSET U
      BY <1>2, FS_FiniteSubsetsOfFinite
<1>4. IsWellFoundedOn(StrictSubsetOrdering(U), SUBSET U)
      <2>1. IsWellFoundedOn(StrictSubsetOrdering(U), FiniteSubsetsOf(U))
            BY FS_StrictSubsetOrderingWellFounded
      <2> QED
          BY <1>3, <2>1
<1>5. T \subseteq SUBSET U /\ T # {}
      OBVIOUS
<1>6. \E X \in T : \A Y \in T : <<Y, X>> \notin StrictSubsetOrdering(U)
      <2> HIDE DEF T, U
      <2> QED
          BY <1>4, <1>5, WFMin
<1>7. PICK m \in U : \A k \in U : <<Below(k), Below(m)>> \notin StrictSubsetOrdering(U)
      BY <1>6
<1>8. \A k \in U : m <= k
      <2> SUFFICES ASSUME NEW k \in U, ~(m <= k) PROVE FALSE
          OBVIOUS
      <2>1. k \in Nat /\ m \in Nat /\ k < m
            <3> HIDE DEF U, Below, T
            <3>1. k \in Nat /\ m \in Nat
                  BY <1>1
            <3> QED
                BY <3>1
      <2>2. Below(k) \subseteq Below(m)
            <3>1. \A q \in U : q \in Nat
                  BY <1>1
            <3> SUFFICES ASSUME NEW q \in U, q <= k PROVE q <= m
                OBVIOUS
            <3> HIDE DEF U, T
            <3> QED
                BY <3>1, <2>1
      <2>3. m \in Below(m) /\ m \notin Below(k)
            BY <1>1, <2>1
      <2>4. <<Below(k), Below(m)>> \in StrictSubsetOrdering(U)
            BY <2>2, <2>3 DEF StrictSubsetOrdering
      <2> QED
          BY <1>7, <2>4
<1> QED
    BY <1>7, <1>8 DEF Fresh

LEMMA OwnerOfName ==
    ASSUME NEW rows, NEW n, Room(rows, n)
    PROVE  /\ Owner(rows, n) \in Memory
           /\ Named(rows, n) = {} => Owner(rows, n) \in Unused(rows)
           /\ Named(rows, n) # {} => Owner(rows, n) \in Named(rows, n)
<1>1. CASE Named(rows, n) = {}
      BY <1>1, FreshIsUnused DEF Owner, Room, Unused
<1>2. CASE Named(rows, n) # {}
      BY <1>2 DEF Owner, Named
<1> QED
    BY <1>1, <1>2

(* A row is changed lawfully: it keeps a name and its place in the life of a *)
(* memory, and nothing it says is lost to the index                          *)
Lawful(r, s) ==
    /\ s \in Row
    /\ Kept(s) => s.name \in Name
    /\ s.status = "new" => r.status = "new"
    /\ Lost(s) \subseteq Lost(r)

LEMMA Creation ==
    ASSUME NEW rows \in [Memory -> Row], UniqueNames(rows),
           NEW n \in Name, NEW type \in Type, NEW texts \in SUBSET Text, NEW meta \in Metadata,
           Room(rows, n)
    PROVE  LET made == Create(rows, n, type, texts, meta)
               o == Owner(rows, n)
           IN /\ made \in [Memory -> Row]
              /\ o \in Memory
              /\ \A m \in Memory \ {o} : made[m] = rows[m]
              /\ Lawful(rows[o], made[o])
              /\ Exact(rows[o]) => Exact(made[o])
              /\ Tidy(rows[o]) /\ Named(rows, n) # {} => Exact(made[o])
              /\ made[o].status = "active" /\ made[o].name = n
              /\ Named(rows, n) # {} =>
                    Kept(rows[o]) /\ rows[o].name = n /\ made[o].metadata = rows[o].metadata
              /\ Named(rows, n) = {} =>
                    rows[o].status = "new" /\ made[o].metadata = meta
              /\ UniqueNames(made)
<1> DEFINE made == Create(rows, n, type, texts, meta)
           o == Owner(rows, n)
<1>1. /\ o \in Memory
      /\ Named(rows, n) = {} => rows[o].status = "new"
      /\ Named(rows, n) # {} => Kept(rows[o]) /\ rows[o].name = n
      BY OwnerOfName DEF Unused, Named, Kept
<1>2. made = [rows EXCEPT ![o] = IF Named(rows, n) = {} THEN Made(rows[o], n, type, texts, meta)
                                 ELSE Told(rows[o], n, texts)]
      BY DEF Create
<1> HIDE DEF made, o
<1>3. /\ made[o] \in Row
      /\ made[o].status = "active" /\ made[o].name = n
      /\ Lost(made[o]) = {}
      /\ Exact(rows[o]) => Exact(made[o])
      /\ Tidy(rows[o]) /\ Named(rows, n) # {} => Exact(made[o])
      /\ made[o].metadata = IF Named(rows, n) = {} THEN meta ELSE rows[o].metadata
      <2>1. rows[o] \in Row
            BY <1>1
      <2>2. CASE Named(rows, n) = {}
            <3>1. made[o] = Made(rows[o], n, type, texts, meta)
                  BY <1>1, <1>2, <2>2
            <3>2. LET u == Made(rows[o], n, type, texts, meta) IN
                  /\ u \in Row
                  /\ u.status = "active" /\ u.name = n /\ u.metadata = meta
                  /\ u.texts = texts
                  /\ Lost(u) = {}
                  /\ Exact(rows[o]) /\ rows[o].status # "active" => Exact(u)
                  BY <2>1, MadeRow
            <3> QED
                BY <1>1, <2>2, <3>1, <3>2
      <2>3. CASE Named(rows, n) # {}
            <3>1. made[o] = Told(rows[o], n, texts)
                  BY <1>1, <1>2, <2>3
            <3>2. rows[o].name = n
                  BY <1>1, <2>3
            <3>3. LET u == Told(rows[o], n, texts) IN
                  /\ u \in Row
                  /\ u.status = "active" /\ u.name = rows[o].name
                  /\ u.metadata = rows[o].metadata
                  /\ u.texts = rows[o].texts \cup texts
                  /\ Entry(n, u.texts) \subseteq u.terms
                  /\ rows[o].name = n => Lost(u) = {}
                  /\ rows[o].name = n /\ Tidy(rows[o]) => Exact(u)
                  BY <2>1, ToldRow
            <3> QED
                BY <2>3, <3>1, <3>2, <3>3, ExactIsTidy
      <2> QED
          BY <2>2, <2>3
<1>4. \A m \in Memory \ {o} : made[m] = rows[m]
      BY <1>2
<1>5. made \in [Memory -> Row]
      <2>1. DOMAIN made = Memory /\ made = [m \in Memory |-> made[m]]
            BY <1>2
      <2>2. \A m \in Memory : made[m] \in Row
            BY <1>3, <1>4
      <2> QED
          BY <2>1, <2>2
<1>6. Lawful(rows[o], made[o])
      BY <1>3 DEF Lawful
<1>7. UniqueNames(made)
      <2> SUFFICES ASSUME NEW m \in Memory, NEW k \in Memory, Kept(made[m]), Kept(made[k]),
                          made[m].name = made[k].name, m # k
                   PROVE  FALSE
          BY DEF UniqueNames
      <2>1. CASE m # o /\ k # o
            BY <1>4, <2>1 DEF UniqueNames
      <2>2. ASSUME NEW q \in Memory, q # o, Kept(made[q]), made[q].name = n PROVE FALSE
            <3>1. q \in Named(rows, n)
                  BY <1>4, <2>2 DEF Named, Kept
            <3> QED
                BY <1>1, <2>2, <3>1, <1>4 DEF UniqueNames
      <2> QED
          BY <1>3, <2>1, <2>2
<1>8. Create(rows, n, type, texts, meta) = made /\ Owner(rows, n) = o
      BY DEF made, o
<1> QED
    BY <1>1, <1>3, <1>4, <1>5, <1>6, <1>7, <1>8

-----------------------------------------------------------------------------
(* Jobs: what a caller has in hand, by what it is in the middle of           *)
LEMMA RemoveJob ==
    ASSUME NEW j \in Job, j.op = "remove"
    PROVE  /\ j.at \in {"delete", "unindex", "read", "insert"}
           /\ j.id \in Memory /\ j.name \in Name /\ j.text \in Text
           /\ j.prev \in SUBSET Text /\ j.now \in SUBSET Text
           /\ j = [op |-> "remove", at |-> j.at, id |-> j.id, name |-> j.name, text |-> j.text,
                   prev |-> j.prev, now |-> j.now]
BY DEF Job, GraphJob, DreamJob, Idle

LEMMA ForgetJob ==
    ASSUME NEW j \in Job, j.op \in {"archive", "delete"}
    PROVE  j.id \in Memory /\ j.name \in Name
BY DEF Job, GraphJob, DreamJob, Idle

LEMMA RenameJob ==
    ASSUME NEW j \in Job, j.op = "rename"
    PROVE  /\ j.id \in Memory /\ j.name \in Name /\ j.to \in Name
           /\ j.texts \in SUBSET Text /\ j.status \in {"active", "archived"}
BY DEF Job, GraphJob, DreamJob, Idle

LEMMA ClearJob ==
    ASSUME NEW j \in Job, j.op = "clear"
    PROVE  /\ j.id \in Memory /\ j.name \in Name /\ j.prev \in SUBSET Text
           /\ j.texts \in SUBSET Text /\ j.type \in Type /\ j.meta \in Metadata
BY DEF Job, GraphJob, DreamJob, Idle

LEMMA RefillJob ==
    ASSUME NEW j \in Job, j.op = "refill"
    PROVE  /\ j.name \in Name /\ j.texts \in SUBSET Text /\ j.type \in Type
           /\ j.meta \in Metadata
BY DEF Job, GraphJob, DreamJob, Idle

LEMMA RewriteJob ==
    ASSUME NEW j \in Job, j.op = "rewrite"
    PROVE  j.name \in Name /\ j.texts \in SUBSET Text /\ j.type \in Type
BY DEF Job, GraphJob, DreamJob, Idle

LEMMA RememberedJob ==
    ASSUME NEW j \in Job, j.op = "remembered"
    PROVE  j.name \in Name /\ j.meta \in Metadata /\ j.old \in Name \cup {None}
BY DEF Job, GraphJob, DreamJob, Idle

LEMMA StampJob ==
    ASSUME NEW j \in Job, j.op = "stamp"
    PROVE  /\ j.name \in Name /\ j.read \in Metadata /\ j.write \in Metadata
           /\ j.old \in Name \cup {None}
BY DEF Job, GraphJob, DreamJob, Idle

LEMMA CompressJob ==
    ASSUME NEW j \in Job, j.op \in {"compress", "retire"}
    PROVE  /\ j.batch \in SUBSET Memory /\ j.names \in [Memory -> Name \cup {None}]
           /\ [j EXCEPT !.op = "retire"] \in Job
BY DEF Job, GraphJob, DreamJob, Idle

LEMMA DreamingJob ==
    ASSUME NEW j \in Job, j.op \in {"dream", "heal", "await"}
    PROVE  /\ j.clusters \in SUBSET SUBSET Memory
           /\ j.op = "heal" => j.narrower \in SUBSET Ids
           /\ j.op = "await" => j.cluster \in SUBSET Memory /\ j.seen \in SUBSET Ids
BY DEF Job, GraphJob, DreamJob, Idle

LEMMA GuardsJob ==
    ASSUME NEW j \in Job, j.op = "guards"
    PROVE  j.lessons \in SUBSET Memory /\ j.lesson \in Memory \cup {None}
BY DEF Job, GraphJob, DreamJob, Idle

LEMMA StagingJob ==
    ASSUME NEW j \in Job
    PROVE  /\ j.op = "mine" => j.sources \in SUBSET Memory
           /\ j.op = "stage" => j.slug \in Slug
           /\ j.op = "judge" => j.pair \in SUBSET Memory
BY DEF Job, GraphJob, DreamJob, Idle

LEMMA ReviewJob ==
    ASSUME NEW j \in Job
    PROVE  /\ j.op = "apply" => j.id \in Ids /\ j.name \in Name
           /\ j.op = "dead" => j.id \in Ids
BY DEF Job, GraphJob, DreamJob, Idle

-----------------------------------------------------------------------------
(* Steps. What every step does to the rows: they keep their types, names and *)
(* uniqueness, no row is made new again                                      *)
RowsStep ==
    /\ memory' \in [Memory -> Row]
    /\ StoredNamed(memory') /\ UniqueNames(memory')
    /\ \A m \in Memory : memory'[m].status = "new" => memory[m].status = "new"

(* ... and a step of a writer to their metadata: the links stay, or the row  *)
(* is new and has none, or the memory is known to be clobbered               *)
LinksStep ==
    /\ clobbered \subseteq clobbered'
    /\ \A m \in Memory \ clobbered' :
          \/ Links(memory'[m].metadata) = Links(memory[m].metadata)
          \/ memory[m].status = "new" /\ Links(memory'[m].metadata) = Plain

(* What a step that is not part of a removal does to the index               *)
SameEntry(r, s) ==
    /\ s.status = r.status /\ s.name = r.name /\ s.texts = r.texts
    /\ s.terms = r.terms /\ (s.listed <=> r.listed)
IndexStep ==
    /\ \A m \in Memory \ drifted' :
          /\ m \notin drifted
          /\ Removing(m) => SameEntry(memory[m], memory'[m])
          /\ Exact(memory[m]) => Exact(memory'[m])
    /\ \A m \in Memory \ torn' : m \notin torn /\ Lost(memory'[m]) \subseteq Lost(memory[m])

(* A row that changed in nothing that is indexed                             *)
LEMMA SameEntryFound ==
    ASSUME NEW r, NEW s, SameEntry(r, s)
    PROVE  Lost(s) = Lost(r) /\ (Exact(r) => Exact(s))
<1>1. Lost(s) = Lost(r)
      BY DEF SameEntry, Lost
<1>2. Exact(r) => Exact(s)
      BY DEF SameEntry, Exact, Says
<1> QED
    BY <1>1, <1>2

(* What a step of a writer does to its job                                   *)
Turn(c, j) ==
    /\ j \in GraphJob /\ job' = [job EXCEPT ![c] = j]
    /\ left' \in Left
    /\ \A m \in Handled(j) : memory'[m].status # "new"
GraphTurn(c) ==
    /\ \E j \in GraphJob : Turn(c, j)
    /\ drifted' \subseteq Memory /\ torn' \subseteq Memory /\ clobbered' \subseteq Memory
    /\ RowsStep /\ LinksStep
IndexTurn(c) ==
    /\ ~Cutting(job[c]) /\ ~Cutting(job'[c])
    /\ IndexStep

LEMMA TypedFacts ==
    ASSUME Typed
    PROVE  /\ memory \in [Memory -> Row] /\ job \in [Caller -> Job]
           /\ drifted \subseteq Memory /\ torn \subseteq Memory /\ clobbered \subseteq Memory
           /\ left \in Left /\ left.calls \in Nat /\ left.crashes \in Nat
           /\ left.inputs \subseteq Input
           /\ StoredNamed(memory) /\ UniqueNames(memory)
           /\ \A m \in Memory : memory[m] \in Row
           /\ \A c \in Caller : job[c] \in Job
BY DEF Typed, TypeOK, Left

LEMMA ReadsStep ==
    ASSUME Typed, Reads
    PROVE  /\ RowsStep /\ LinksStep /\ IndexStep
           /\ drifted' \subseteq Memory /\ torn' \subseteq Memory /\ clobbered' \subseteq Memory
<1>1. /\ memory' = memory /\ drifted' = drifted /\ torn' = torn /\ clobbered' = clobbered
      BY DEF Reads
<1>2. RowsStep /\ LinksStep
      BY <1>1, TypedFacts DEF RowsStep, LinksStep, StoredNamed, UniqueNames
<1>3. IndexStep
      BY <1>1 DEF IndexStep, SameEntry
<1> QED
    BY <1>1, <1>2, <1>3, TypedFacts

LEMMA JobTurn ==
    ASSUME Typed, NEW c \in Caller, NEW j \in GraphJob, Becomes(c, j), left' \in Left,
           \A m \in Handled(j) : memory'[m].status # "new"
    PROVE  Turn(c, j) /\ job'[c] = j
<1>1. job' = [job EXCEPT ![c] = j]
      BY DEF Becomes
<1> QED
    BY <1>1, TypedFacts DEF Turn

LEMMA BegunTurn ==
    ASSUME Typed, NEW c \in Caller, NEW j \in GraphJob, NEW kind, Begin(c, kind, j),
           \A m \in Handled(j) : memory'[m].status # "new"
    PROVE  Turn(c, j) /\ job'[c] = j /\ ~Cutting(job[c])
<1>1. /\ Becomes(c, j) /\ left' = [left EXCEPT !.calls = @ - 1] /\ left.calls > 0
      /\ job[c] = Idle
      BY DEF Begin
<1>2. left' \in Left
      BY <1>1, TypedFacts DEF Left
<1> QED
    BY <1>1, <1>2, JobTurn DEF Cutting, Idle

LEMMA IdleTurn == Idle \in GraphJob /\ Handled(Idle) = {} /\ ~Cutting(Idle)
BY DEF GraphJob, Handled, Idle, Cutting

(* What a transaction does to the index, row by row                          *)
LEMMA CommitIndex ==
    ASSUME Typed, NEW stale, drifted' = drifted \cup stale \cup Disturbed(memory'),
           torn \subseteq torn',
           \A m \in Memory \ stale : Exact(memory[m]) => Exact(memory'[m]),
           \A m \in Memory \ torn' : Lost(memory'[m]) \subseteq Lost(memory[m])
    PROVE  IndexStep
<1>1. ASSUME NEW m \in Memory \ drifted', Removing(m) PROVE memory'[m] = memory[m]
      BY <1>1 DEF Disturbed
<1> QED
    BY <1>1 DEF IndexStep, SameEntry

(* A transaction that only edits what is stored                              *)
Edited(r, s) ==
    /\ Lawful(r, s)
    /\ s.metadata = r.metadata
    /\ Kept(s) => Kept(r) /\ s.name = r.name

LEMMA EditedRows ==
    ASSUME Typed, NEW rows, memory' = rows, DOMAIN rows = Memory,
           rows = [m \in Memory |-> rows[m]],
           \A m \in Memory : Edited(memory[m], rows[m]), clobbered' = clobbered
    PROVE  RowsStep /\ LinksStep
<1>1. memory' \in [Memory -> Row]
      BY DEF Edited, Lawful
<1>2. StoredNamed(memory')
      BY DEF Edited, Lawful, StoredNamed
<1>3. UniqueNames(memory')
      BY TypedFacts DEF Edited, UniqueNames
<1> QED
    BY <1>1, <1>2, <1>3 DEF Edited, Lawful, RowsStep, LinksStep

LEMMA SameIsEdited ==
    ASSUME NEW r \in Row, Kept(r) => r.name \in Name
    PROVE  Edited(r, r)
BY DEF Edited, Lawful

LEMMA CommitFacts ==
    ASSUME Typed, NEW rows, NEW stale, stale \subseteq Memory, Commit(rows, stale)
    PROVE  /\ memory' = rows
           /\ drifted' = drifted \cup stale \cup Disturbed(memory')
           /\ drifted' \subseteq Memory
<1>1. memory' = rows /\ drifted' = drifted \cup stale \cup Disturbed(rows)
      BY DEF Commit
<1>2. Disturbed(rows) \subseteq Memory /\ drifted \subseteq Memory
      BY TypedFacts DEF Disturbed
<1>3. Disturbed(rows) = Disturbed(memory')
      BY <1>1 DEF Disturbed
<1> QED
    BY <1>1, <1>2, <1>3

(* A transaction on one row                                                  *)
LEMMA OneRowCommit ==
    ASSUME Typed, NEW k \in Memory, NEW row, NEW stale, stale \subseteq Memory,
           Commit([memory EXCEPT ![k] = row], stale),
           Edited(memory[k], row), k \notin stale /\ Exact(memory[k]) => Exact(row),
           torn' = torn, clobbered' = clobbered
    PROVE  RowsStep /\ LinksStep /\ IndexStep /\ drifted' \subseteq Memory
<1> DEFINE rows == [memory EXCEPT ![k] = row]
<1>1. /\ memory' = rows
      /\ drifted' = drifted \cup stale \cup Disturbed(memory')
      /\ drifted' \subseteq Memory
      BY CommitFacts
<1>2. DOMAIN rows = Memory /\ rows = [m \in Memory |-> rows[m]]
      BY TypedFacts
<1>3. rows[k] = row /\ \A m \in Memory \ {k} : rows[m] = memory[m]
      BY TypedFacts
<1>4. \A m \in Memory : Edited(memory[m], memory[m])
      BY TypedFacts, SameIsEdited DEF StoredNamed
<1> HIDE DEF rows
<1>5. \A m \in Memory : Edited(memory[m], rows[m])
      BY <1>3, <1>4
<1>6. RowsStep /\ LinksStep
      BY <1>1, <1>2, <1>5, EditedRows
<1>7. IndexStep
      <2>1. \A m \in Memory \ stale : Exact(memory[m]) => Exact(memory'[m])
            BY <1>1, <1>3
      <2>2. \A m \in Memory \ torn' : Lost(memory'[m]) \subseteq Lost(memory[m])
            BY <1>1, <1>5 DEF Edited, Lawful
      <2> QED
          BY <1>1, <2>1, <2>2, CommitIndex
<1> QED
    BY <1>1, <1>6, <1>7

(* One that may lose a memory to the index                                   *)
LEMMA SameIdentityCommit ==
    ASSUME Typed, NEW k \in Memory, NEW row \in Row, NEW stale, stale \subseteq Memory,
           Commit([memory EXCEPT ![k] = row], stale),
           row.status = memory[k].status, row.name = memory[k].name,
           row.metadata = memory[k].metadata,
           k \notin stale /\ Exact(memory[k]) => Exact(row),
           torn \subseteq torn', k \notin torn' => Lost(row) \subseteq Lost(memory[k]),
           clobbered' = clobbered
    PROVE  RowsStep /\ LinksStep /\ IndexStep /\ drifted' \subseteq Memory
<1> DEFINE rows == [memory EXCEPT ![k] = row]
<1>1. /\ memory' = rows
      /\ drifted' = drifted \cup stale \cup Disturbed(memory')
      /\ drifted' \subseteq Memory
      BY CommitFacts
<1>2. /\ rows \in [Memory -> Row] /\ rows[k] = row
      /\ \A m \in Memory \ {k} : rows[m] = memory[m]
      BY TypedFacts
<1> HIDE DEF rows
<1>3. \A m \in Memory : /\ rows[m].status = memory[m].status /\ rows[m].name = memory[m].name
                         /\ rows[m].metadata = memory[m].metadata
      BY <1>2
<1>4. StoredNamed(rows) /\ UniqueNames(rows)
      BY <1>3, TypedFacts DEF StoredNamed, UniqueNames, Kept
<1>5. RowsStep /\ LinksStep
      BY <1>1, <1>2, <1>3, <1>4 DEF RowsStep, LinksStep
<1>6. \A m \in Memory \ stale : Exact(memory[m]) => Exact(memory'[m])
      BY <1>1, <1>2
<1>7. \A m \in Memory \ torn' : Lost(memory'[m]) \subseteq Lost(memory[m])
      BY <1>1, <1>2
<1> QED
    BY <1>1, <1>5, <1>6, <1>7, CommitIndex

(* What creating does to the rows the database holds                         *)
LEMMA CreatedRows ==
    ASSUME Typed, NEW n \in Name, NEW type \in Type, NEW texts \in SUBSET Text,
           NEW meta \in Metadata, Room(memory, n),
           NEW rows, rows = Create(memory, n, type, texts, meta),
           NEW o, o = Owner(memory, n)
    PROVE  /\ rows \in [Memory -> Row]
           /\ o \in Memory
           /\ \A m \in Memory \ {o} : rows[m] = memory[m]
           /\ Lawful(memory[o], rows[o])
           /\ Exact(memory[o]) => Exact(rows[o])
           /\ rows[o].status = "active" /\ rows[o].name = n
           /\ Named(memory, n) # {} =>
                 Kept(memory[o]) /\ memory[o].name = n /\ rows[o].metadata = memory[o].metadata
           /\ Named(memory, n) = {} => memory[o].status = "new" /\ rows[o].metadata = meta
           /\ UniqueNames(rows)
<1>1. memory \in [Memory -> Row] /\ UniqueNames(memory)
      BY TypedFacts
<1>2. LET made == Create(memory, n, type, texts, meta)
          p == Owner(memory, n)
      IN /\ made \in [Memory -> Row]
         /\ p \in Memory
         /\ \A m \in Memory \ {p} : made[m] = memory[m]
         /\ Lawful(memory[p], made[p])
         /\ Exact(memory[p]) => Exact(made[p])
         /\ Tidy(memory[p]) /\ Named(memory, n) # {} => Exact(made[p])
         /\ made[p].status = "active" /\ made[p].name = n
         /\ Named(memory, n) # {} =>
               Kept(memory[p]) /\ memory[p].name = n /\ made[p].metadata = memory[p].metadata
         /\ Named(memory, n) = {} => memory[p].status = "new" /\ made[p].metadata = meta
         /\ UniqueNames(made)
      BY <1>1, Creation
<1> QED
    BY <1>2

(* A transaction that creates a memory, or tells a stored one more           *)
LEMMA CreatedCommit ==
    ASSUME Typed, NEW n \in Name, NEW type \in Type, NEW texts \in SUBSET Text,
           NEW meta \in Metadata, Room(memory, n),
           Commit(Create(memory, n, type, texts, meta), {}), torn' = torn
    PROVE  LET o == Owner(memory, n) IN
           /\ RowsStep /\ IndexStep /\ drifted' \subseteq Memory
           /\ o \in Memory /\ memory'[o].status = "active"
           /\ \A m \in Memory \ {o} : memory'[m] = memory[m]
           /\ Named(memory, n) # {} => memory'[o].metadata = memory[o].metadata
           /\ Named(memory, n) = {} => memory[o].status = "new" /\ memory'[o].metadata = meta
<1> DEFINE rows == Create(memory, n, type, texts, meta)
           o == Owner(memory, n)
<1>0. memory \in [Memory -> Row] /\ UniqueNames(memory) /\ StoredNamed(memory)
      BY TypedFacts
<1>1. /\ memory' = rows
      /\ drifted' = drifted \cup {} \cup Disturbed(memory')
      /\ drifted' \subseteq Memory
      BY CommitFacts
<1>a. rows = Create(memory, n, type, texts, meta) /\ o = Owner(memory, n)
      OBVIOUS
<1> HIDE DEF rows, o
<1>2. /\ rows \in [Memory -> Row]
      /\ o \in Memory
      /\ \A m \in Memory \ {o} : rows[m] = memory[m]
      /\ Lawful(memory[o], rows[o])
      /\ Exact(memory[o]) => Exact(rows[o])
      /\ rows[o].status = "active" /\ rows[o].name = n
      /\ Named(memory, n) # {} =>
            Kept(memory[o]) /\ memory[o].name = n /\ rows[o].metadata = memory[o].metadata
      /\ Named(memory, n) = {} => memory[o].status = "new" /\ rows[o].metadata = meta
      /\ UniqueNames(rows)
      BY <1>a, CreatedRows
<1>3. StoredNamed(rows)
      BY <1>0, <1>2 DEF StoredNamed, Lawful
<1>4. \A m \in Memory : rows[m].status = "new" => memory[m].status = "new"
      BY <1>2
<1>5. RowsStep
      BY <1>1, <1>2, <1>3, <1>4 DEF RowsStep
<1>6. IndexStep
      <2>1. \A m \in Memory \ {} : Exact(memory[m]) => Exact(memory'[m])
            BY <1>1, <1>2
      <2>2. \A m \in Memory \ torn' : Lost(memory'[m]) \subseteq Lost(memory[m])
            BY <1>1, <1>2 DEF Lawful
      <2>3. \A stale : /\ drifted' = drifted \cup stale \cup Disturbed(memory')
                       /\ \A m \in Memory \ stale : Exact(memory[m]) => Exact(memory'[m])
                       => IndexStep
            BY <2>2, CommitIndex
      <2> QED
          BY <1>1, <2>1, <2>3
<1> QED
    BY <1>1, <1>2, <1>5, <1>6 DEF o

LEMMA CreatingCommit ==
    ASSUME Typed, NEW n \in Name, NEW type \in Type, NEW texts \in SUBSET Text,
           NEW meta \in Metadata, Room(memory, n),
           Commit(Create(memory, n, type, texts, meta), {}),
           torn' = torn, clobbered \subseteq clobbered',
           Named(memory, n) = {} /\ Links(meta) # Plain => Owner(memory, n) \in clobbered'
    PROVE  /\ RowsStep /\ LinksStep /\ IndexStep
           /\ drifted' \subseteq Memory
           /\ Owner(memory, n) \in Memory /\ memory'[Owner(memory, n)].status = "active"
<1> DEFINE o == Owner(memory, n)
<1>1. /\ RowsStep /\ IndexStep /\ drifted' \subseteq Memory
      /\ o \in Memory /\ memory'[o].status = "active"
      /\ \A m \in Memory \ {o} : memory'[m] = memory[m]
      /\ Named(memory, n) # {} => memory'[o].metadata = memory[o].metadata
      /\ Named(memory, n) = {} => memory[o].status = "new" /\ memory'[o].metadata = meta
      BY CreatedCommit
<1>2. o = Owner(memory, n)
      OBVIOUS
<1> HIDE DEF o
<1>3. LinksStep
      <2> SUFFICES ASSUME NEW m \in Memory \ clobbered'
                   PROVE  \/ Links(memory'[m].metadata) = Links(memory[m].metadata)
                          \/ memory[m].status = "new" /\ Links(memory'[m].metadata) = Plain
          BY DEF LinksStep
      <2>1. CASE m # o
            BY <1>1, <2>1
      <2>2. CASE m = o
            BY <1>1, <1>2, <2>2
      <2> QED
          BY <2>1, <2>2
<1> QED
    BY <1>1, <1>2, <1>3

-----------------------------------------------------------------------------
(* The writers, one lemma each. First the ones that only read and begin      *)
LEMMA Combined ==
    ASSUME NEW c \in Caller, NEW j, Turn(c, j), job'[c] = j, ~Cutting(job[c]), ~Cutting(j),
           RowsStep, LinksStep, IndexStep,
           drifted' \subseteq Memory, torn' \subseteq Memory, clobbered' \subseteq Memory
    PROVE  GraphTurn(c) /\ IndexTurn(c)
BY DEF GraphTurn, IndexTurn, Turn

LEMMA Reading ==
    ASSUME Typed, NEW c \in Caller, NEW j \in GraphJob, NEW kind, Begin(c, kind, j), Reads,
           ~Cutting(j), \A m \in Handled(j) : memory[m].status # "new"
    PROVE  GraphTurn(c) /\ IndexTurn(c)
<1>1. \A m \in Handled(j) : memory'[m].status # "new"
      BY DEF Reads
<1>2. Turn(c, j) /\ job'[c] = j /\ ~Cutting(job[c])
      BY <1>1, BegunTurn
<1>3. /\ RowsStep /\ LinksStep /\ IndexStep
      /\ drifted' \subseteq Memory /\ torn' \subseteq Memory /\ clobbered' \subseteq Memory
      BY ReadsStep
<1> QED
    BY <1>2, <1>3, Combined

LEMMA StoredFacts ==
    ASSUME Typed, NEW m \in Memory, Stored(m)
    PROVE  /\ memory[m] \in Row /\ memory[m].name \in Name /\ memory[m].type \in Type
           /\ memory[m].texts \in SUBSET Text /\ memory[m].metadata \in Metadata
           /\ memory[m].status \in {"active", "archived"} /\ memory[m].status # "new"
           /\ Kept(memory[m])
<1>1. memory[m] \in Row /\ Kept(memory[m]) /\ memory[m].status # "new"
      BY TypedFacts DEF Stored, Kept
<1> QED
    BY <1>1, TypedFacts, RowFields DEF StoredNamed, Kept

LEMMA StampTyped ==
    ASSUME NEW n \in Name, NEW read \in Metadata, NEW write \in Metadata,
           NEW old \in Name \cup {None}
    PROVE  /\ Stamp(n, read, write, old) \in GraphJob
           /\ Handled(Stamp(n, read, write, old)) = {} /\ ~Cutting(Stamp(n, read, write, old))
BY DEF Stamp, GraphJob, Handled, Cutting

LEMMA MetadataTyped ==
    /\ Plain \in Metadata /\ DOMAIN Plain = {"pin", "compacted_into", "proposal_id", "guard"}
    /\ \A meta \in Metadata, p \in BOOLEAN : [meta EXCEPT !.pin = p] \in Metadata
BY DEF Plain, Metadata

LEMMA LinksOfPlain == Links(Plain) = Plain
<1>1. \A meta \in Metadata : meta.pin = FALSE => Links(meta) = meta
      BY DEF Metadata, Links
<1>2. Plain.pin = FALSE
      BY DEF Plain
<1> QED
    BY <1>1, <1>2, MetadataTyped

LEMMA MergeTyped ==
    ASSUME NEW meta \in Metadata, NEW over \in Metadata
    PROVE  Merge(meta, over) \in Metadata
<1>1. Merge(meta, over) = [pin |-> IF over.pin = Plain.pin THEN meta.pin ELSE over.pin,
          compacted_into |-> IF over.compacted_into = Plain.compacted_into
                             THEN meta.compacted_into ELSE over.compacted_into,
          proposal_id |-> IF over.proposal_id = Plain.proposal_id
                          THEN meta.proposal_id ELSE over.proposal_id,
          guard |-> IF over.guard = Plain.guard THEN meta.guard ELSE over.guard]
      BY MetadataTyped DEF Merge
<1> QED
    BY <1>1 DEF Metadata

LEMMA SetPinnedTurn ==
    ASSUME Typed, NEW c \in Caller, SetPinned(c)
    PROVE  GraphTurn(c) /\ IndexTurn(c)
<1>1. PICK m \in Memory, pinned \in BOOLEAN :
        /\ Stored(m)
        /\ Begin(c, "pin", Stamp(memory[m].name, memory[m].metadata,
                                 [memory[m].metadata EXCEPT !.pin = pinned], None))
        /\ Reads
      BY DEF SetPinned
<1> DEFINE j == Stamp(memory[m].name, memory[m].metadata,
                      [memory[m].metadata EXCEPT !.pin = pinned], None)
<1>2. j \in GraphJob /\ Handled(j) = {} /\ ~Cutting(j)
      <2>1. memory[m].name \in Name /\ memory[m].metadata \in Metadata
            BY <1>1, StoredFacts
      <2>2. [memory[m].metadata EXCEPT !.pin = pinned] \in Metadata
            BY <2>1, MetadataTyped
      <2> QED
          BY <2>1, <2>2, StampTyped
<1> HIDE DEF j
<1>3. Begin(c, "pin", j)
      BY <1>1 DEF j
<1> QED
    BY <1>1, <1>2, <1>3, Reading

LEMMA ReadMetadataTurn ==
    ASSUME Typed, NEW c \in Caller, ReadMetadata(c)
    PROVE  GraphTurn(c) /\ IndexTurn(c)
<1> DEFINE n == job[c].name
           meta == memory[Owner(memory, n)].metadata
           stamp == Stamp(n, meta, Merge(meta, job[c].meta), job[c].old)
           j == IF Named(memory, n) = {} THEN Idle ELSE stamp
<1>1. job[c].op = "remembered" /\ Becomes(c, j) /\ Reads /\ left' = left
      BY DEF ReadMetadata
<1>2. n \in Name /\ job[c].meta \in Metadata /\ job[c].old \in Name \cup {None}
      BY <1>1, TypedFacts, RememberedJob
<1>3. j \in GraphJob /\ Handled(j) = {} /\ ~Cutting(j)
      <2>1. CASE Named(memory, n) = {}
            BY <2>1, IdleTurn
      <2>2. CASE Named(memory, n) # {}
            <3>1. Room(memory, n)
                  BY <2>2 DEF Room
            <3>2. Owner(memory, n) \in Memory
                  BY <3>1, OwnerOfName
            <3>3. meta \in Metadata
                  BY <3>2, TypedFacts, RowFields
            <3>4. Merge(meta, job[c].meta) \in Metadata
                  BY <1>2, <3>3, MergeTyped
            <3>5. stamp \in GraphJob /\ Handled(stamp) = {} /\ ~Cutting(stamp)
                  BY <1>2, <3>3, <3>4, StampTyped
            <3> QED
                BY <2>2, <3>5
      <2> QED
          BY <2>1, <2>2
<1> HIDE DEF j
<1>4. Turn(c, j) /\ job'[c] = j
      BY <1>1, <1>3, TypedFacts, JobTurn
<1>5. ~Cutting(job[c])
      BY <1>1 DEF Cutting
<1>6. /\ RowsStep /\ LinksStep /\ IndexStep
      /\ drifted' \subseteq Memory /\ torn' \subseteq Memory /\ clobbered' \subseteq Memory
      BY <1>1, ReadsStep
<1> QED
    BY <1>3, <1>4, <1>5, <1>6, Combined

LEMMA RemoveObservationTurn ==
    ASSUME Typed, NEW c \in Caller, RemoveObservation(c)
    PROVE  GraphTurn(c) /\ IndexTurn(c)
<1>1. PICK m \in Memory, text \in Text :
        /\ Stored(m)
        /\ Begin(c, "remove", [op |-> "remove", at |-> "delete", id |-> m, name |-> memory[m].name,
                               text |-> text, prev |-> memory[m].texts, now |-> {}])
        /\ Reads
      BY DEF RemoveObservation
<1> DEFINE j == [op |-> "remove", at |-> "delete", id |-> m, name |-> memory[m].name,
                 text |-> text, prev |-> memory[m].texts, now |-> {}]
<1>2. j \in GraphJob /\ Handled(j) = {m} /\ ~Cutting(j)
      BY <1>1, StoredFacts DEF GraphJob, Handled, Cutting
<1> HIDE DEF j
<1>3. Begin(c, "remove", j)
      BY <1>1 DEF j
<1>4. \A k \in Handled(j) : memory[k].status # "new"
      BY <1>1, <1>2, StoredFacts
<1> QED
    BY <1>1, <1>2, <1>3, <1>4, Reading

LEMMA ForgetByNameTurn ==
    ASSUME Typed, NEW c \in Caller, ForgetByName(c)
    PROVE  GraphTurn(c) /\ IndexTurn(c)
<1>1. PICK m \in Memory, op \in {"archive", "delete"} :
        /\ Stored(m)
        /\ Begin(c, op, [op |-> op, id |-> m, name |-> memory[m].name])
        /\ Reads
      BY DEF ForgetByName
<1> DEFINE j == [op |-> op, id |-> m, name |-> memory[m].name]
<1>2. j \in GraphJob /\ Handled(j) = {m} /\ ~Cutting(j)
      BY <1>1, StoredFacts DEF GraphJob, Handled, Cutting
<1> HIDE DEF j
<1>3. Begin(c, op, j)
      BY <1>1 DEF j
<1>4. \A k \in Handled(j) : memory[k].status # "new"
      BY <1>1, <1>2, StoredFacts
<1> QED
    BY <1>1, <1>2, <1>3, <1>4, Reading

LEMMA InputFacts ==
    ASSUME Typed, NEW e \in left.inputs
    PROVE  e.name \in Name /\ e.type \in Type /\ e.texts \in SUBSET Text /\ e.meta \in Metadata
BY TypedFacts DEF Input

LEMMA NamesAreNames == ASSUME Typed PROVE Names \subseteq Name
BY InputFacts DEF Names

LEMMA BeginRenameTurn ==
    ASSUME Typed, NEW c \in Caller, BeginRename(c)
    PROVE  GraphTurn(c) /\ IndexTurn(c)
<1>1. PICK m \in Memory, to \in Names :
        /\ Stored(m)
        /\ Begin(c, "rename", [op |-> "rename", id |-> m, name |-> memory[m].name, to |-> to,
                               texts |-> memory[m].texts, status |-> memory[m].status])
        /\ Reads
      BY DEF BeginRename
<1> DEFINE j == [op |-> "rename", id |-> m, name |-> memory[m].name, to |-> to,
                 texts |-> memory[m].texts, status |-> memory[m].status]
<1>2. j \in GraphJob /\ Handled(j) = {m} /\ ~Cutting(j)
      BY <1>1, StoredFacts, NamesAreNames DEF GraphJob, Handled, Cutting
<1> HIDE DEF j
<1>3. Begin(c, "rename", j)
      BY <1>1 DEF j
<1>4. \A k \in Handled(j) : memory[k].status # "new"
      BY <1>1, <1>2, StoredFacts
<1> QED
    BY <1>1, <1>2, <1>3, <1>4, Reading

LEMMA BeginRewriteTurn ==
    ASSUME Typed, NEW c \in Caller, BeginRewrite(c)
    PROVE  GraphTurn(c) /\ IndexTurn(c)
<1>1. PICK m \in Memory, out \in SUBSET Text, in \in SUBSET Text :
        /\ Stored(m)
        /\ Begin(c, "rewrite", [op |-> "rewrite", name |-> memory[m].name, type |-> memory[m].type,
                                texts |-> (memory[m].texts \ out) \cup in])
        /\ Reads
      BY DEF BeginRewrite
<1> DEFINE j == [op |-> "rewrite", name |-> memory[m].name, type |-> memory[m].type,
                 texts |-> (memory[m].texts \ out) \cup in]
<1>2. j \in GraphJob /\ Handled(j) = {} /\ ~Cutting(j)
      BY <1>1, StoredFacts DEF GraphJob, Handled, Cutting
<1> HIDE DEF j
<1>3. Begin(c, "rewrite", j)
      BY <1>1 DEF j
<1> QED
    BY <1>1, <1>2, <1>3, Reading

LEMMA BeginCompressTurn ==
    ASSUME Typed, NEW c \in Caller, BeginCompress(c)
    PROVE  GraphTurn(c) /\ IndexTurn(c)
<1>1. PICK batch \in SUBSET {m \in Active : memory[m].type = "commit"} :
        /\ Begin(c, "compress", [op |-> "compress", batch |-> batch,
                                 names |-> [m \in Memory |-> IF m \in batch THEN memory[m].name
                                                             ELSE None]])
        /\ Reads
      BY DEF BeginCompress
<1> DEFINE names == [m \in Memory |-> IF m \in batch THEN memory[m].name ELSE None]
           j == [op |-> "compress", batch |-> batch, names |-> names]
<1>2. batch \in SUBSET Memory /\ \A m \in batch : memory[m].status = "active"
      BY <1>1 DEF Active
<1>3. names \in [Memory -> Name \cup {None}]
      BY TypedFacts, RowFields
<1> HIDE DEF names
<1>4. j \in GraphJob /\ Handled(j) \subseteq batch /\ ~Cutting(j)
      BY <1>2, <1>3 DEF GraphJob, Handled, Cutting
<1>5. Begin(c, "compress", j)
      BY <1>1 DEF names
<1> HIDE DEF j
<1>6. \A k \in Handled(j) : memory[k].status # "new"
      BY <1>2, <1>4
<1> QED
    BY <1>1, <1>4, <1>5, <1>6, Reading

LEMMA BeginImportTurn ==
    ASSUME Typed, NEW c \in Caller, BeginImport(c)
    PROVE  GraphTurn(c) /\ IndexTurn(c)
<1>1. PICK e \in left.inputs, overwrite \in BOOLEAN, archived \in BOOLEAN :
        LET found == Named(memory, e.name)
            m == Owner(memory, e.name)
            refill == [op |-> "refill", name |-> e.name, texts |-> e.texts, type |-> e.type,
                       meta |-> IF found = {} THEN e.meta ELSE Merge(memory[m].metadata, e.meta),
                       known |-> found # {}, archived |-> archived]
        IN /\ Begin(c, "import",
                    IF overwrite /\ found # {}
                      THEN [op |-> "clear", id |-> m, name |-> e.name, prev |-> memory[m].texts,
                            texts |-> e.texts, type |-> e.type, meta |-> refill.meta]
                    ELSE refill)
           /\ Reads
      BY DEF BeginImport
<1> DEFINE found == Named(memory, e.name)
           m == Owner(memory, e.name)
           meta == IF found = {} THEN e.meta ELSE Merge(memory[m].metadata, e.meta)
           known == found # {}
           refill == [op |-> "refill", name |-> e.name, texts |-> e.texts, type |-> e.type,
                      meta |-> meta, known |-> known, archived |-> archived]
           clear == [op |-> "clear", id |-> m, name |-> e.name, prev |-> memory[m].texts,
                     texts |-> e.texts, type |-> e.type, meta |-> meta]
           j == IF overwrite /\ found # {} THEN clear ELSE refill
<1>2. e.name \in Name /\ e.type \in Type /\ e.texts \in SUBSET Text /\ e.meta \in Metadata
      BY InputFacts
<1>3. found # {} => /\ m \in Memory /\ memory[m].metadata \in Metadata
                    /\ memory[m].texts \in SUBSET Text /\ memory[m].status # "new"
      <2> SUFFICES ASSUME found # {}
                   PROVE  /\ m \in Memory /\ memory[m].metadata \in Metadata
                          /\ memory[m].texts \in SUBSET Text /\ memory[m].status # "new"
          OBVIOUS
      <2>1. Room(memory, e.name)
            BY DEF Room
      <2>2. m \in Memory /\ m \in Named(memory, e.name)
            BY <2>1, OwnerOfName
      <2>3. Stored(m)
            BY <2>2 DEF Named, Stored
      <2> QED
          BY <2>2, <2>3, StoredFacts
<1>4. meta \in Metadata
      BY <1>2, <1>3, MergeTyped
<1>5. Begin(c, "import", j) /\ Reads
      BY <1>1
<1>6. known \in BOOLEAN
      OBVIOUS
<1> HIDE DEF meta, known
<1>7. refill \in GraphJob /\ Handled(refill) = {} /\ ~Cutting(refill)
      BY <1>2, <1>4, <1>6 DEF GraphJob, Handled, Cutting
<1>8. found # {} => clear \in GraphJob /\ Handled(clear) = {m} /\ ~Cutting(clear)
      <2> HIDE DEF m, found
      <2> QED
          BY <1>2, <1>3, <1>4 DEF GraphJob, Handled, Cutting
<1>9. j \in GraphJob /\ ~Cutting(j) /\ \A k \in Handled(j) : memory[k].status # "new"
      <2> HIDE DEF refill, clear, m, found
      <2> QED
          BY <1>3, <1>7, <1>8
<1> HIDE DEF j
<1> QED
    BY <1>5, <1>9, Reading

LEMMA RememberTurn ==
    ASSUME Typed, NEW c \in Caller, Remember(c)
    PROVE  GraphTurn(c) /\ IndexTurn(c)
<1>1. PICK e \in left.inputs, old \in Names \cup {None} :
        /\ Room(memory, e.name)
        /\ Begin(c, "remember", Remembered(e.name, Plain, old))
        /\ Commit(Create(memory, e.name, e.type, e.texts, Plain), {})
        /\ torn' = torn /\ clobbered' = clobbered
      BY DEF Remember
<1> DEFINE j == Remembered(e.name, Plain, old)
<1>2. e.name \in Name /\ e.type \in Type /\ e.texts \in SUBSET Text /\ Plain \in Metadata
      BY InputFacts, MetadataTyped
<1>3. j \in GraphJob /\ Handled(j) = {} /\ ~Cutting(j)
      BY <1>2, NamesAreNames, MetadataTyped DEF Remembered, GraphJob, Handled, Cutting
<1>4. Links(Plain) = Plain
      BY LinksOfPlain
<1>5. RowsStep /\ LinksStep /\ IndexStep /\ drifted' \subseteq Memory
      BY <1>1, <1>2, <1>4, CreatingCommit
<1> HIDE DEF j
<1>6. Begin(c, "remember", j)
      BY <1>1 DEF j
<1>7. Turn(c, j) /\ job'[c] = j /\ ~Cutting(job[c])
      BY <1>3, <1>6, BegunTurn
<1> QED
    BY <1>1, <1>3, <1>5, <1>7, TypedFacts, Combined

LEMMA RefillTurn ==
    ASSUME Typed, NEW c \in Caller, Refill(c)
    PROVE  GraphTurn(c) /\ IndexTurn(c)
<1> DEFINE n == job[c].name
           o == Owner(memory, n)
           later == Remembered(n, job[c].meta, None)
           shelve == [op |-> "archive", id |-> o, name |-> n]
           j == IF job[c].known THEN later ELSE IF job[c].archived THEN shelve ELSE Idle
<1>1. /\ job[c].op = "refill" /\ Room(memory, n)
      /\ Commit(Create(memory, n, job[c].type, job[c].texts, job[c].meta), {})
      /\ clobbered' = IF Named(memory, n) = {} /\ Links(job[c].meta) # Plain
                        THEN clobbered \cup {o} ELSE clobbered
      /\ Becomes(c, j)
      /\ torn' = torn /\ left' = left
      BY DEF Refill
<1>2. /\ n \in Name /\ job[c].type \in Type /\ job[c].texts \in SUBSET Text
      /\ job[c].meta \in Metadata
      BY <1>1, TypedFacts, RefillJob
<1>3. /\ clobbered \subseteq clobbered'
      /\ Named(memory, n) = {} /\ Links(job[c].meta) # Plain => o \in clobbered'
      BY <1>1
<1>4. /\ RowsStep /\ LinksStep /\ IndexStep /\ drifted' \subseteq Memory
      /\ o \in Memory /\ memory'[o].status = "active"
      BY <1>1, <1>2, <1>3, CreatingCommit
<1>5. clobbered' \subseteq Memory /\ torn' \subseteq Memory
      BY <1>1, <1>4, TypedFacts
<1> HIDE DEF n, o
<1>6. /\ later \in GraphJob /\ Handled(later) = {} /\ ~Cutting(later)
      /\ shelve \in GraphJob /\ Handled(shelve) = {o} /\ ~Cutting(shelve)
      BY <1>2, <1>4 DEF Remembered, GraphJob, Handled, Cutting
<1>7. j \in GraphJob /\ ~Cutting(j) /\ \A m \in Handled(j) : memory'[m].status # "new"
      <2> HIDE DEF later, shelve
      <2> QED
          BY <1>4, <1>6, IdleTurn
<1> HIDE DEF j
<1>8. Turn(c, j) /\ job'[c] = j
      BY <1>1, <1>7, TypedFacts, JobTurn
<1>9. ~Cutting(job[c])
      BY <1>1 DEF Cutting
<1> QED
    BY <1>4, <1>5, <1>7, <1>8, <1>9, Combined

LEMMA SummariseTurn ==
    ASSUME Typed, NEW c \in Caller, Summarise(c)
    PROVE  GraphTurn(c) /\ IndexTurn(c)
<1> DEFINE j == [job[c] EXCEPT !.op = "retire"]
<1>1. /\ job[c].op = "compress" /\ Room(memory, Summary)
      /\ Commit(Create(memory, Summary, "note", {}, Plain), {})
      /\ Becomes(c, j)
      /\ torn' = torn /\ left' = left /\ clobbered' = clobbered
      BY DEF Summarise
<1>2. Summary \in Name /\ "note" \in Type /\ {} \in SUBSET Text /\ Plain \in Metadata
      BY NamesAssumption, MetadataTyped DEF Type
<1>3. Links(Plain) = Plain
      BY LinksOfPlain
<1>4. RowsStep /\ LinksStep /\ IndexStep /\ drifted' \subseteq Memory
      BY <1>1, <1>2, <1>3, CreatingCommit
<1>5. /\ job[c] \in [op : {"compress", "retire"}, batch : SUBSET Memory,
                      names : [Memory -> Name \cup {None}]]
      BY <1>1, TypedFacts DEF Job, GraphJob, DreamJob, Idle
<1>6. j \in GraphJob /\ ~Cutting(j) /\ Handled(j) = Handled(job[c])
      BY <1>1, <1>5 DEF GraphJob, Cutting, Handled
<1>7. \A m \in Handled(j) : memory'[m].status # "new"
      <2>1. Handled(job[c]) \subseteq Memory
            BY DEF Handled
      <2>2. \A m \in Handled(job[c]) : memory[m].status # "new"
            BY DEF Typed, HandledOld, Old
      <2> QED
          BY <1>4, <1>6, <2>1, <2>2 DEF RowsStep
<1> HIDE DEF j
<1>8. Turn(c, j) /\ job'[c] = j
      BY <1>1, <1>6, <1>7, TypedFacts, JobTurn
<1>9. ~Cutting(job[c])
      BY <1>1 DEF Cutting
<1> QED
    BY <1>1, <1>4, <1>6, <1>8, <1>9, TypedFacts, Combined

(* A transaction that ends a call                                            *)
LEMMA IdleAfter ==
    ASSUME Typed, NEW c \in Caller, Becomes(c, Idle), left' = left, ~Cutting(job[c]),
           RowsStep, LinksStep, IndexStep,
           drifted' \subseteq Memory, torn' \subseteq Memory, clobbered' \subseteq Memory
    PROVE  GraphTurn(c) /\ IndexTurn(c)
<1>1. Turn(c, Idle) /\ job'[c] = Idle
      BY IdleTurn, TypedFacts, JobTurn
<1> QED
    BY <1>1, IdleTurn, Combined

LEMMA HandledFacts ==
    ASSUME Typed, NEW c \in Caller,
           job[c].op \in {"remove", "archive", "delete", "rename", "clear"}
    PROVE  /\ job[c].id \in Memory /\ memory[job[c].id] \in Row
           /\ memory[job[c].id].status # "new" /\ job[c].name \in Name
           /\ Kept(memory[job[c].id]) => memory[job[c].id].name \in Name
<1>1. job[c].id \in Memory /\ job[c].name \in Name
      BY TypedFacts, RemoveJob, ForgetJob, RenameJob, ClearJob
<1>2. job[c].id \in Handled(job[c])
      BY <1>1 DEF Handled
<1> QED
    BY <1>1, <1>2, TypedFacts DEF Typed, HandledOld, Old, StoredNamed

LEMMA ArchivedIsEdited ==
    ASSUME NEW r \in Row, Kept(r) => r.name \in Name, r.status # "new", NEW n
    PROVE  /\ Edited(r, Archive(r, n))
           /\ Exact(r) /\ (r.status = "active" => r.name = n) => Exact(Archive(r, n))
<1> DEFINE u == Archive(r, n)
<1>1. /\ u \in Row
      /\ u.status \in {"archived", "deleted"}
      /\ u.status = "deleted" <=> r.status = "deleted"
      /\ u.name = r.name /\ u.texts = r.texts /\ u.metadata = r.metadata
      /\ Lost(u) = {}
      /\ Exact(r) /\ (r.status = "active" => r.name = n) => Exact(u)
      BY ArchivedRow
<1> HIDE DEF u
<1>2. Edited(r, u)
      BY <1>1, RowFields DEF Edited, Lawful, Kept
<1> QED
    BY <1>1, <1>2 DEF u

LEMMA ArchiveEntityTurn ==
    ASSUME Typed, NEW c \in Caller, ArchiveEntity(c)
    PROVE  GraphTurn(c) /\ IndexTurn(c)
<1> DEFINE k == job[c].id
           row == Archive(memory[k], job[c].name)
<1>1. /\ job[c].op = "archive"
      /\ Commit([memory EXCEPT ![k] = row], Misnamed(job[c]))
      /\ Becomes(c, Idle) /\ torn' = torn /\ clobbered' = clobbered /\ left' = left
      BY DEF ArchiveEntity
<1>2. /\ k \in Memory /\ memory[k] \in Row /\ memory[k].status # "new" /\ job[c].name \in Name
      /\ Kept(memory[k]) => memory[k].name \in Name
      BY <1>1, HandledFacts
<1>3. /\ Misnamed(job[c]) \subseteq Memory
      /\ k \notin Misnamed(job[c]) => memory[k].name = job[c].name
      BY <1>2 DEF Misnamed
<1>4. /\ Edited(memory[k], row)
      /\ k \notin Misnamed(job[c]) /\ Exact(memory[k]) => Exact(row)
      BY <1>2, <1>3, ArchivedIsEdited
<1> HIDE DEF k, row
<1>5. RowsStep /\ LinksStep /\ IndexStep /\ drifted' \subseteq Memory
      BY <1>1, <1>2, <1>3, <1>4, OneRowCommit
<1>6. ~Cutting(job[c])
      BY <1>1 DEF Cutting
<1> QED
    BY <1>1, <1>5, <1>6, TypedFacts, IdleAfter

LEMMA DeleteEntityTurn ==
    ASSUME Typed, NEW c \in Caller, DeleteEntity(c)
    PROVE  GraphTurn(c) /\ IndexTurn(c)
<1> DEFINE k == job[c].id
           row == Delete(memory[k], job[c].name)
<1>1. /\ job[c].op = "delete"
      /\ Commit([memory EXCEPT ![k] = row], Misnamed(job[c]))
      /\ Becomes(c, Idle) /\ torn' = torn /\ clobbered' = clobbered /\ left' = left
      BY DEF DeleteEntity
<1>2. k \in Memory /\ memory[k] \in Row /\ job[c].name \in Name
      BY <1>1, HandledFacts
<1>3. /\ Misnamed(job[c]) \subseteq Memory
      /\ k \notin Misnamed(job[c]) => memory[k].name = job[c].name
      BY <1>2 DEF Misnamed
<1>4. /\ row \in Row
      /\ row.status = "deleted" /\ row.metadata = memory[k].metadata
      /\ Lost(row) = {}
      /\ Exact(memory[k]) /\ (memory[k].status = "active" => memory[k].name = job[c].name)
            => Exact(row)
      BY <1>2, DeletedRow
<1> HIDE DEF k, row
<1>5. Edited(memory[k], row)
      BY <1>4 DEF Edited, Lawful, Kept
<1>6. RowsStep /\ LinksStep /\ IndexStep /\ drifted' \subseteq Memory
      BY <1>1, <1>2, <1>3, <1>4, <1>5, OneRowCommit
<1>7. ~Cutting(job[c])
      BY <1>1 DEF Cutting
<1> QED
    BY <1>1, <1>6, <1>7, TypedFacts, IdleAfter

LEMMA ClearEntityDataTurn ==
    ASSUME Typed, NEW c \in Caller, ClearEntityData(c)
    PROVE  GraphTurn(c) /\ IndexTurn(c)
<1> DEFINE k == job[c].id
           r == memory[k]
           row == Clear(r, job[c].name, job[c].prev)
           stale == IF r.status = "active" /\ r.name = job[c].name /\ r.texts = job[c].prev
                      THEN {} ELSE {k}
           spared == Terms[r.name] \cap Words(job[c].prev) \subseteq Terms[job[c].name]
           j == [op |-> "refill", name |-> job[c].name, texts |-> job[c].texts,
                 type |-> job[c].type, meta |-> job[c].meta, known |-> TRUE, archived |-> FALSE]
<1>1. /\ job[c].op = "clear"
      /\ Commit([memory EXCEPT ![k] = row], stale)
      /\ Becomes(c, j) /\ clobbered' = clobbered /\ left' = left
      /\ torn' = torn \cup IF r.status = "active" /\ ~spared THEN {k} ELSE {}
      BY DEF ClearEntityData, Robbed
<1>2. /\ k \in Memory /\ r \in Row /\ r.status # "new" /\ job[c].name \in Name
      /\ Kept(r) => r.name \in Name
      BY <1>1, HandledFacts
<1>3. /\ job[c].prev \in SUBSET Text /\ job[c].texts \in SUBSET Text
      /\ job[c].type \in Type /\ job[c].meta \in Metadata
      BY <1>1, TypedFacts, ClearJob
<1>4. /\ row \in Row
      /\ row.status = r.status /\ row.name = r.name /\ row.metadata = r.metadata
      /\ row.texts = {}
      /\ (r.status = "active" => spared) => Lost(row) \subseteq Lost(r)
      /\ Exact(r) /\ r.name = job[c].name /\ r.texts = job[c].prev /\ r.status = "active"
            => Exact(row)
      BY <1>2, <1>3, ClearedRow
<1>5. /\ j \in GraphJob /\ ~Cutting(j) /\ Handled(j) = {}
      BY <1>2, <1>3 DEF GraphJob, Cutting, Handled
<1>6. stale \subseteq Memory /\ torn \subseteq torn' /\ torn' \subseteq Memory
      BY <1>1, <1>2, TypedFacts
<1>7. /\ r = memory[k]
      /\ k \notin stale => /\ r.status = "active"
                           /\ r.name = job[c].name /\ r.texts = job[c].prev
      /\ k \notin torn' => (r.status = "active" => spared)
      BY <1>1
<1> HIDE DEF k, r, row, stale, spared, j
<1>8. /\ k \notin stale /\ Exact(r) => Exact(row)
      /\ k \notin torn' => Lost(row) \subseteq Lost(r)
      BY <1>4, <1>7
<1>9. RowsStep /\ LinksStep /\ IndexStep /\ drifted' \subseteq Memory
      BY <1>1, <1>2, <1>4, <1>6, <1>7, <1>8, SameIdentityCommit
<1>10. ~Cutting(job[c])
      BY <1>1 DEF Cutting
<1>11. Turn(c, j) /\ job'[c] = j
      BY <1>1, <1>5, TypedFacts, JobTurn
<1> QED
    BY <1>1, <1>5, <1>6, <1>9, <1>10, <1>11, TypedFacts, Combined

LEMMA ArchiveBatchTurn ==
    ASSUME Typed, NEW c \in Caller, ArchiveBatch(c)
    PROVE  GraphTurn(c) /\ IndexTurn(c)
<1> DEFINE batch == job[c].batch
           names == job[c].names
           rows == [m \in Memory |-> IF m \in batch THEN Archive(memory[m], names[m])
                                     ELSE memory[m]]
           stale == {m \in batch : memory[m].name # names[m]}
<1>1. /\ job[c].op = "retire" /\ Commit(rows, stale)
      /\ Becomes(c, Idle) /\ torn' = torn /\ clobbered' = clobbered /\ left' = left
      BY DEF ArchiveBatch
<1>2. batch \in SUBSET Memory /\ names \in [Memory -> Name \cup {None}]
      BY <1>1, TypedFacts, CompressJob
<1>3. \A m \in batch : memory[m].status # "new"
      <2>1. \A m \in Handled(job[c]) : memory[m].status # "new"
            BY DEF Typed, HandledOld, Old
      <2>2. batch \subseteq Handled(job[c])
            BY <1>1, <1>2 DEF Handled
      <2> QED
          BY <2>1, <2>2
<1>4. ASSUME NEW m \in Memory
      PROVE  /\ Edited(memory[m], rows[m])
             /\ m \notin stale /\ Exact(memory[m]) => Exact(rows[m])
      <2>1. memory[m] \in Row /\ (Kept(memory[m]) => memory[m].name \in Name)
            BY TypedFacts DEF StoredNamed
      <2>2. CASE m \in batch
            <3>1. rows[m] = Archive(memory[m], names[m]) /\ memory[m].status # "new"
                  BY <1>3, <2>2
            <3>2. /\ Edited(memory[m], Archive(memory[m], names[m]))
                  /\ Exact(memory[m]) /\ (memory[m].status = "active" => memory[m].name = names[m])
                        => Exact(Archive(memory[m], names[m]))
                  BY <2>1, <3>1, ArchivedIsEdited
            <3> QED
                BY <2>2, <3>1, <3>2
      <2>3. CASE m \notin batch
            <3>1. rows[m] = memory[m]
                  BY <2>3
            <3> QED
                BY <2>1, <3>1, SameIsEdited
      <2> QED
          BY <2>2, <2>3
<1>5. DOMAIN rows = Memory /\ rows = [m \in Memory |-> rows[m]] /\ stale \subseteq Memory
      BY <1>2
<1> HIDE DEF rows, stale
<1>6. /\ memory' = rows
      /\ drifted' = drifted \cup stale \cup Disturbed(memory')
      /\ drifted' \subseteq Memory
      BY <1>1, <1>5, CommitFacts
<1>7. RowsStep /\ LinksStep
      BY <1>1, <1>4, <1>5, <1>6, EditedRows
<1>8. IndexStep
      <2>1. \A m \in Memory \ stale : Exact(memory[m]) => Exact(memory'[m])
            BY <1>4, <1>6
      <2>2. \A m \in Memory \ torn' : Lost(memory'[m]) \subseteq Lost(memory[m])
            BY <1>4, <1>6 DEF Edited, Lawful
      <2> QED
          BY <1>1, <1>6, <2>1, <2>2, CommitIndex
<1>9. ~Cutting(job[c])
      BY <1>1 DEF Cutting
<1> QED
    BY <1>1, <1>6, <1>7, <1>8, <1>9, TypedFacts, IdleAfter

LEMMA RenamePathTurn ==
    ASSUME Typed, NEW c \in Caller, RenamePath(c)
    PROVE  GraphTurn(c) /\ IndexTurn(c)
<1> DEFINE j == job[c]
           k == j.id
           r == memory[k]
           row == Renamed(r, j)
           stale == IF <<r.name, r.texts, r.status>> # <<j.name, j.texts, j.status>>
                      THEN {k} ELSE {}
           revived == j.status = "archived" /\ r.status = "active"
           added == r.texts \ j.texts
           spared == Words(added) \cap Terms[j.name] \subseteq Entry(j.to, j.texts)
<1>1. j.op = "rename" /\ Becomes(c, Idle) /\ clobbered' = clobbered /\ left' = left
      BY DEF RenamePath
<1>2. /\ k \in Memory /\ r \in Row /\ r.status # "new" /\ j.name \in Name
      /\ Kept(r) => r.name \in Name
      BY <1>1, HandledFacts
<1>3. j.to \in Name /\ j.texts \in SUBSET Text /\ j.status \in {"active", "archived"}
      BY <1>1, TypedFacts, RenameJob
<1>4. ~Cutting(job[c])
      BY <1>1 DEF Cutting
<1>5. CASE Named(memory, j.to) \ {k} = {}
      <2>1. /\ Commit([memory EXCEPT ![k] = row], stale)
            /\ torn' = torn \cup IF revived \/ (r.status = "active" /\ ~spared) THEN {k} ELSE {}
            BY <1>5 DEF RenamePath, Robbed
      <2>2. /\ row \in Row
            /\ row.status = r.status /\ row.metadata = r.metadata
            /\ r.status # "deleted" => row.name = j.to
            /\ ~revived /\ (r.status = "active" => spared) => Lost(row) \subseteq Lost(r)
            /\ Exact(r) /\ r.name = j.name /\ r.texts = j.texts /\ r.status = j.status
                  => Exact(row)
            <3>1. added = r.texts \ j.texts
                  OBVIOUS
            <3> HIDE DEF added
            <3> QED
                BY <1>2, <1>3, <3>1, RenamedRow
      <2> DEFINE rows == [memory EXCEPT ![k] = row]
      <2>3. stale \subseteq Memory /\ (k \notin stale /\ Exact(r) => Exact(row))
            BY <1>2, <2>2
      <2>4. /\ rows \in [Memory -> Row] /\ rows[k] = row
            /\ \A m \in Memory \ {k} : rows[m] = memory[m]
            /\ k \notin torn' => Lost(row) \subseteq Lost(r)
            BY <1>2, <2>1, <2>2, TypedFacts
      <2>5. /\ memory' = rows
            /\ drifted' = drifted \cup stale \cup Disturbed(memory')
            /\ drifted' \subseteq Memory
            BY <2>1, <2>3, CommitFacts
      <2> HIDE DEF rows, row, stale
      <2>6. StoredNamed(rows)
            BY <1>3, <2>2, <2>4, TypedFacts DEF StoredNamed, Kept
      <2>7. UniqueNames(rows)
            <3>1. \A m \in Memory \ {k} : Kept(memory[m]) => memory[m].name # j.to
                  BY <1>5 DEF Named, Kept
            <3>2. Kept(row) => row.name = j.to
                  BY <2>2 DEF Kept
            <3> QED
                BY <2>4, <3>1, <3>2, TypedFacts DEF UniqueNames
      <2>8. RowsStep
            BY <1>2, <2>2, <2>4, <2>5, <2>6, <2>7 DEF RowsStep
      <2>9. LinksStep
            BY <1>1, <2>2, <2>4, <2>5 DEF LinksStep
      <2>10. IndexStep
            <3>1. \A m \in Memory \ stale : Exact(memory[m]) => Exact(memory'[m])
                  BY <2>3, <2>4, <2>5
            <3>2. \A m \in Memory \ torn' : Lost(memory'[m]) \subseteq Lost(memory[m])
                  BY <2>4, <2>5
            <3>3. torn \subseteq torn'
                  BY <2>1
            <3> QED
                BY <2>5, <3>1, <3>2, <3>3, CommitIndex
      <2>11. torn' \subseteq Memory
            BY <1>2, <2>1, TypedFacts
      <2> QED
          BY <1>1, <1>4, <2>5, <2>8, <2>9, <2>10, <2>11, TypedFacts, IdleAfter
<1>6. CASE Named(memory, j.to) \ {k} # {}
      <2>1. Reads
            BY <1>1, <1>6 DEF RenamePath, Reads
      <2> QED
          BY <1>1, <1>4, <2>1, ReadsStep, IdleAfter
<1> QED
    BY <1>5, <1>6

LEMMA CaptureTurn ==
    ASSUME Typed, NEW c \in Caller, Capture(c)
    PROVE  GraphTurn(c) /\ IndexTurn(c)
<1>1. PICK e \in left.inputs :
        /\ Room(memory, e.name)
        /\ Begin(c, "capture", Idle)
        /\ LET m == Owner(memory, e.name)
               kept == [Told(memory[m], e.name, e.texts) EXCEPT !.status = memory[m].status]
           IN Commit([memory EXCEPT ![m] =
                         IF Stored(m) THEN kept
                         ELSE Made(memory[m], e.name, e.type, e.texts, Plain)],
                     {m} \ (Active \cup Unused(memory)))
        /\ torn' = torn /\ clobbered' = clobbered
      BY DEF Capture
<1> DEFINE n == e.name
           m == Owner(memory, n)
           told == Told(memory[m], n, e.texts)
           kept == [told EXCEPT !.status = memory[m].status]
           stale == {m} \ (Active \cup Unused(memory))
<1>2. /\ n \in Name /\ e.type \in Type /\ e.texts \in SUBSET Text /\ Plain \in Metadata
      BY InputFacts, MetadataTyped
<1>3. /\ m \in Memory
      /\ Named(memory, n) = {} => m \in Unused(memory)
      /\ Named(memory, n) # {} => m \in Named(memory, n)
      BY <1>1, OwnerOfName
<1>4. RowsStep /\ LinksStep /\ IndexStep /\ drifted' \subseteq Memory
      <2>1. CASE Stored(m)
            <3>1. Commit([memory EXCEPT ![m] = kept], stale)
                  BY <1>1, <2>1
            <3>2. m \in Named(memory, n)
                  BY <1>3, <2>1 DEF Unused, Stored
            <3>3. memory[m] \in Row /\ memory[m].name = n /\ Kept(memory[m])
                  BY <1>3, <3>2, TypedFacts DEF Named, Kept
            <3>4. /\ told \in Row
                  /\ told.status = "active" /\ told.name = memory[m].name
                  /\ told.metadata = memory[m].metadata
                  /\ told.texts = memory[m].texts \cup e.texts
                  /\ Entry(n, told.texts) \subseteq told.terms
                  /\ memory[m].name = n => Lost(told) = {}
                  /\ memory[m].name = n /\ Tidy(memory[m]) => Exact(told)
                  BY <1>2, <3>3, ToldRow
            <3>5. stale \subseteq Memory /\ (m \notin stale => memory[m].status = "active")
                  BY <1>3, <2>1 DEF Active, Unused, Stored
            <3> HIDE DEF told, stale
            <3>6. /\ kept \in Row /\ kept.status = memory[m].status /\ kept.name = told.name
                  /\ kept.metadata = told.metadata /\ kept.texts = told.texts
                  /\ kept.terms = told.terms /\ (kept.listed <=> told.listed)
                  BY <3>3, <3>4 DEF Row
            <3>7. Lost(kept) = {}
                  BY <3>3, <3>4, <3>6, NothingLost
            <3>8. m \notin stale /\ Exact(memory[m]) => Exact(kept)
                  BY <3>3, <3>4, <3>5, <3>6, ExactIsTidy DEF Exact, Says
            <3>9. Edited(memory[m], kept)
                  BY <1>2, <3>3, <3>4, <3>6, <3>7 DEF Edited, Lawful, Kept
            <3> HIDE DEF kept, m
            <3> QED
                BY <1>1, <1>3, <3>1, <3>5, <3>8, <3>9, OneRowCommit
      <2>2. CASE ~Stored(m)
            <3>1. Named(memory, n) = {} /\ m \in Unused(memory)
                  BY <1>3, <2>2 DEF Named, Stored
            <3>2. stale = {}
                  BY <3>1
            <3>3. Create(memory, n, e.type, e.texts, Plain)
                     = [memory EXCEPT ![m] = Made(memory[m], n, e.type, e.texts, Plain)]
                  BY <3>1 DEF Create
            <3>4. Commit(Create(memory, n, e.type, e.texts, Plain), {})
                  BY <1>1, <2>2, <3>2, <3>3
            <3> QED
                BY <1>1, <1>2, <3>4, LinksOfPlain, CreatingCommit
      <2> QED
          BY <2>1, <2>2
<1>5. Turn(c, Idle) /\ job'[c] = Idle /\ ~Cutting(job[c])
      BY <1>1, IdleTurn, BegunTurn
<1> QED
    BY <1>1, <1>4, <1>5, TypedFacts, IdleTurn, Combined

LEMMA RewriteObservationsTurn ==
    ASSUME Typed, NEW c \in Caller, RewriteObservations(c)
    PROVE  GraphTurn(c) /\ IndexTurn(c)
<1> DEFINE n == job[c].name
           cleared == [m \in Memory |->
                         IF m \in Named(memory, n) THEN Clear(memory[m], n, memory[m].texts)
                         ELSE memory[m]]
           rows == Create(cleared, n, job[c].type, job[c].texts, Plain)
           o == Owner(cleared, n)
<1>1. /\ job[c].op = "rewrite" /\ Room(memory, n)
      /\ Commit(rows, {})
      /\ Becomes(c, Idle) /\ torn' = torn /\ clobbered' = clobbered /\ left' = left
      BY DEF RewriteObservations
<1>2. n \in Name /\ job[c].type \in Type /\ job[c].texts \in SUBSET Text /\ Plain \in Metadata
      BY <1>1, TypedFacts, RewriteJob, MetadataTyped
<1>3. ASSUME NEW m \in Memory
      PROVE  /\ Edited(memory[m], cleared[m])
             /\ cleared[m].status = memory[m].status /\ cleared[m].name = memory[m].name
             /\ Exact(memory[m]) =>
                   \/ Exact(cleared[m])
                   \/ m \in Named(memory, n) /\ Tidy(cleared[m])
      <2>1. memory[m] \in Row /\ (Kept(memory[m]) => memory[m].name \in Name)
            BY TypedFacts DEF StoredNamed
      <2>2. CASE m \in Named(memory, n)
            <3> DEFINE u == Clear(memory[m], n, memory[m].texts)
            <3>1. memory[m].texts \in SUBSET Text
                  BY <2>1, RowFields
            <3>2. /\ u \in Row
                  /\ u.status = memory[m].status /\ u.name = memory[m].name
                  /\ u.metadata = memory[m].metadata
                  /\ u.texts = {}
                  /\ (memory[m].status = "active" =>
                         Terms[memory[m].name] \cap Words(memory[m].texts) \subseteq Terms[n])
                       => Lost(u) \subseteq Lost(memory[m])
                  /\ Exact(memory[m]) /\ memory[m].name = n /\ memory[m].texts = memory[m].texts
                        => Tidy(u)
                  BY <1>2, <2>1, <3>1, ClearedRow
            <3>3. cleared[m] = u /\ memory[m].name = n
                  BY <2>2 DEF Named
            <3> HIDE DEF u, cleared
            <3> QED
                BY <2>1, <2>2, <3>2, <3>3 DEF Edited, Lawful, Kept
      <2>3. CASE m \notin Named(memory, n)
            <3>1. cleared[m] = memory[m]
                  BY <2>3
            <3> QED
                BY <2>1, <3>1, SameIsEdited
      <2> QED
          BY <2>2, <2>3
<1>4. cleared \in [Memory -> Row] /\ Named(cleared, n) = Named(memory, n)
         /\ Unused(cleared) = Unused(memory)
      <2>1. DOMAIN cleared = Memory /\ cleared = [m \in Memory |-> cleared[m]]
            OBVIOUS
      <2> HIDE DEF cleared, n
      <2> QED
          BY <1>3, <2>1 DEF Edited, Lawful, Named, Unused
<1> HIDE DEF cleared
<1>5. UniqueNames(cleared) /\ Room(cleared, n)
      BY <1>1, <1>3, <1>4, TypedFacts DEF UniqueNames, Room, Kept
<1>6. /\ rows \in [Memory -> Row]
      /\ o \in Memory
      /\ \A m \in Memory \ {o} : rows[m] = cleared[m]
      /\ Lawful(cleared[o], rows[o])
      /\ Exact(cleared[o]) => Exact(rows[o])
      /\ Tidy(cleared[o]) /\ Named(cleared, n) # {} => Exact(rows[o])
      /\ rows[o].status = "active" /\ rows[o].name = n
      /\ Named(cleared, n) # {} =>
            Kept(cleared[o]) /\ cleared[o].name = n /\ rows[o].metadata = cleared[o].metadata
      /\ Named(cleared, n) = {} => cleared[o].status = "new" /\ rows[o].metadata = Plain
      /\ UniqueNames(rows)
      BY <1>2, <1>4, <1>5, Creation
<1>7. /\ memory' = rows
      /\ drifted' = drifted \cup {} \cup Disturbed(memory')
      /\ drifted' \subseteq Memory
      BY <1>1, CommitFacts
<1> HIDE DEF rows, o
<1>8. RowsStep
      <2>1. StoredNamed(rows)
            BY <1>3, <1>6 DEF StoredNamed, Lawful, Edited
      <2>2. \A m \in Memory : rows[m].status = "new" => memory[m].status = "new"
            BY <1>3, <1>6
      <2> QED
          BY <1>6, <1>7, <2>1, <2>2 DEF RowsStep
<1>9. LinksStep
      <2> SUFFICES ASSUME NEW m \in Memory
                   PROVE  \/ Links(rows[m].metadata) = Links(memory[m].metadata)
                          \/ memory[m].status = "new" /\ Links(rows[m].metadata) = Plain
          BY <1>1, <1>7 DEF LinksStep
      <2>1. cleared[m].metadata = memory[m].metadata /\ cleared[m].status = memory[m].status
            BY <1>3 DEF Edited
      <2> QED
          BY <1>6, <2>1, LinksOfPlain
<1>10. IndexStep
      <2>1. \A m \in Memory : Exact(memory[m]) => Exact(rows[m])
            <3> SUFFICES ASSUME NEW m \in Memory, Exact(memory[m]) PROVE Exact(rows[m])
                OBVIOUS
            <3>1. \/ Exact(cleared[m])
                  \/ m \in Named(memory, n) /\ Tidy(cleared[m])
                  BY <1>3
            <3>2. m \in Named(memory, n) => m = o
                  <4>1. m \in Named(memory, n) => Kept(cleared[m]) /\ cleared[m].name = n
                        BY <1>4 DEF Named, Kept
                  <4> QED
                      BY <1>4, <1>5, <1>6, <4>1 DEF UniqueNames
            <3> QED
                BY <1>4, <1>6, <3>1, <3>2
      <2>2. \A m \in Memory \ torn' : Lost(memory'[m]) \subseteq Lost(memory[m])
            BY <1>3, <1>6, <1>7 DEF Edited, Lawful
      <2>3. \A stale : /\ drifted' = drifted \cup stale \cup Disturbed(memory')
                       /\ \A m \in Memory \ stale : Exact(memory[m]) => Exact(memory'[m])
                       => IndexStep
            BY <1>1, <2>2, CommitIndex
      <2> QED
          BY <1>7, <2>1, <2>3
<1>11. ~Cutting(job[c])
      BY <1>1 DEF Cutting
<1> QED
    BY <1>1, <1>7, <1>8, <1>9, <1>10, <1>11, TypedFacts, IdleAfter

LEMMA WriteMetadataTurn ==
    ASSUME Typed, NEW c \in Caller, WriteMetadata(c)
    PROVE  GraphTurn(c) /\ IndexTurn(c)
<1> DEFINE found == Named(memory, job[c].name)
           write == job[c].write
           rows == [m \in Memory |-> IF m \in found THEN [memory[m] EXCEPT !.metadata = write]
                                     ELSE memory[m]]
           old == job[c].old
           j == Replaces(old)
<1>1. /\ job[c].op = "stamp" /\ memory' = rows
      /\ clobbered' = clobbered \cup {m \in found : \/ memory[m].metadata # job[c].read
                                                    \/ Links(write) # Links(job[c].read)}
      /\ Becomes(c, j)
      /\ drifted' = drifted /\ torn' = torn /\ left' = left
      BY DEF WriteMetadata
<1>2. write \in Metadata /\ old \in Name \cup {None}
      BY <1>1, TypedFacts, StampJob
<1>3. found \subseteq Memory
      BY DEF Named
<1>4. ASSUME NEW m \in Memory
      PROVE  /\ rows[m] \in Row
             /\ SameEntry(memory[m], rows[m])
             /\ m \notin found => rows[m].metadata = memory[m].metadata
             /\ m \in found => rows[m].metadata = write
      <2>1. memory[m] \in Row
            BY TypedFacts
      <2>2. CASE m \in found
            <3> DEFINE u == [memory[m] EXCEPT !.metadata = write]
            <3>1. /\ u \in Row /\ SameEntry(memory[m], u) /\ u.metadata = write
                  BY <1>2, <2>1 DEF Row, SameEntry
            <3>2. rows[m] = u
                  BY <2>2
            <3> HIDE DEF u, rows
            <3> QED
                BY <2>2, <3>1, <3>2
      <2>3. CASE m \notin found
            <3>1. rows[m] = memory[m]
                  BY <2>3
            <3> QED
                BY <2>1, <2>3, <3>1 DEF SameEntry
      <2> QED
          BY <2>2, <2>3
<1>5. rows \in [Memory -> Row]
      <2>1. DOMAIN rows = Memory /\ rows = [m \in Memory |-> rows[m]]
            OBVIOUS
      <2> HIDE DEF rows
      <2> QED
          BY <1>4, <2>1
<1> HIDE DEF rows
<1>6. RowsStep
      <2>1. StoredNamed(rows)
            BY <1>4, TypedFacts DEF SameEntry, StoredNamed, Kept
      <2>2. UniqueNames(rows)
            BY <1>4, TypedFacts DEF SameEntry, UniqueNames, Kept
      <2> QED
          BY <1>1, <1>4, <1>5, <2>1, <2>2 DEF RowsStep, SameEntry
<1>7. LinksStep
      BY <1>1, <1>4 DEF LinksStep
<1>8. IndexStep
      <2>1. \A m \in Memory : Lost(rows[m]) = Lost(memory[m]) /\ (Exact(memory[m]) => Exact(rows[m]))
            BY <1>4, SameEntryFound
      <2> QED
          BY <1>1, <1>4, <2>1 DEF IndexStep
<1>9. clobbered' \subseteq Memory
      BY <1>1, <1>3, TypedFacts
<1>10. ~Cutting(job[c])
      BY <1>1 DEF Cutting
<1>11. j \in GraphJob /\ ~Cutting(j) /\ \A m \in Handled(j) : memory'[m].status # "new"
      <2>1. CASE old = None \/ Named(memory, old) = {}
            <3>1. j = Idle
                  BY <2>1 DEF Replaces
            <3> QED
                BY <3>1, IdleTurn
      <2>2. CASE old # None /\ Named(memory, old) # {}
            <3> DEFINE k == Owner(memory, old)
            <3>1. j = [op |-> "archive", id |-> k, name |-> old]
                  BY <2>2 DEF Replaces
            <3>2. k \in Named(memory, old) /\ k \in Memory
                  <4>1. Room(memory, old)
                        BY <2>2 DEF Room
                  <4> QED
                      BY <2>2, <4>1, OwnerOfName
            <3>3. memory[k].status # "new" /\ memory'[k].status # "new"
                  BY <1>6, <3>2 DEF Named, RowsStep
            <3> HIDE DEF k, j
            <3>4. j \in GraphJob /\ ~Cutting(j) /\ Handled(j) = {k}
                  BY <1>2, <2>2, <3>1, <3>2 DEF GraphJob, Cutting, Handled
            <3> QED
                BY <3>3, <3>4
      <2> QED
          BY <2>1, <2>2
<1> HIDE DEF j
<1>12. Turn(c, j) /\ job'[c] = j
      BY <1>1, <1>11, TypedFacts, JobTurn
<1> QED
    BY <1>1, <1>6, <1>7, <1>8, <1>9, <1>10, <1>11, <1>12, TypedFacts, Combined

-----------------------------------------------------------------------------
(* The steps of a removal, the repair and a crash                            *)
LEMMA QuietRows ==
    ASSUME Typed, NEW rows, memory' = rows, rows \in [Memory -> Row], clobbered' = clobbered,
           \A m \in Memory : /\ rows[m].status = memory[m].status
                             /\ rows[m].name = memory[m].name
                             /\ rows[m].metadata = memory[m].metadata
    PROVE  RowsStep /\ LinksStep
<1>1. StoredNamed(rows)
      BY TypedFacts DEF StoredNamed, Kept
<1>2. UniqueNames(rows)
      BY TypedFacts DEF UniqueNames, Kept
<1> QED
    BY <1>1, <1>2 DEF RowsStep, LinksStep

LEMMA QuietRow ==
    ASSUME Typed, NEW k \in Memory, NEW row \in Row, memory' = [memory EXCEPT ![k] = row],
           clobbered' = clobbered, row.status = memory[k].status, row.name = memory[k].name,
           row.metadata = memory[k].metadata
    PROVE  /\ RowsStep /\ LinksStep
           /\ memory'[k] = row /\ \A m \in Memory \ {k} : memory'[m] = memory[m]
<1>1. /\ memory' \in [Memory -> Row]
      /\ memory'[k] = row /\ \A m \in Memory \ {k} : memory'[m] = memory[m]
      BY TypedFacts
<1>2. \A m \in Memory : /\ memory'[m].status = memory[m].status
                        /\ memory'[m].name = memory[m].name
                        /\ memory'[m].metadata = memory[m].metadata
      BY <1>1
<1>3. RowsStep /\ LinksStep
      BY <1>1, <1>2, QuietRows
<1> QED
    BY <1>1, <1>3

Onward(j, u, at, now) ==
    /\ u \in GraphJob /\ Handled(u) = {j.id}
    /\ u.op = "remove" /\ u.at = at /\ u.now = now
    /\ u.id = j.id /\ u.name = j.name /\ u.prev = j.prev /\ u.text = j.text
LEMMA RemovalOn ==
    ASSUME NEW j \in Job, j.op = "remove",
           NEW at \in {"unindex", "read", "insert"}, NEW now \in SUBSET Text
    PROVE  /\ Onward(j, [j EXCEPT !.at = at, !.now = now], at, now)
           /\ Onward(j, [j EXCEPT !.at = at], at, j.now)
<1> DEFINE removals == [op : {"remove"}, at : {"delete", "unindex", "read", "insert"},
                        id : Memory, name : Name, text : Text, prev : SUBSET Text,
                        now : SUBSET Text]
           u == [j EXCEPT !.at = at, !.now = now]
           v == [j EXCEPT !.at = at]
<1>1. j \in removals
      BY DEF Job, GraphJob, DreamJob, Idle
<1>2. /\ u \in removals
      /\ u.op = "remove" /\ u.at = at /\ u.now = now
      /\ u.id = j.id /\ u.name = j.name /\ u.prev = j.prev /\ u.text = j.text
      BY <1>1
<1>3. /\ v \in removals
      /\ v.op = "remove" /\ v.at = at /\ v.now = j.now
      /\ v.id = j.id /\ v.name = j.name /\ v.prev = j.prev /\ v.text = j.text
      BY <1>1
<1>4. j.id \in Memory
      BY <1>1
<1> HIDE DEF u, v
<1>5. u \in GraphJob /\ v \in GraphJob
      BY <1>2, <1>3 DEF GraphJob
<1>6. Handled(u) = {j.id} /\ Handled(v) = {j.id}
      BY <1>2, <1>3, <1>4 DEF Handled
<1>7. Onward(j, u, at, now) /\ Onward(j, v, at, j.now)
      BY <1>2, <1>3, <1>5, <1>6 DEF Onward
<1> QED
    BY <1>7 DEF u, v

(* A removal that has begun, one step on                                     *)
LEMMA RemovalTurn ==
    ASSUME Typed, NEW c \in Caller, job[c].op = "remove",
           NEW at, NEW now, NEW j, Onward(job[c], j, at, now),
           Becomes(c, j), left' \in Left, RowsStep
    PROVE  Turn(c, j) /\ job'[c] = j
<1>1. job[c].id \in Memory
      BY TypedFacts, RemoveJob
<1>2. memory[job[c].id].status # "new"
      BY HandledFacts
<1>3. \A m \in Handled(j) : memory'[m].status # "new"
      BY <1>1, <1>2 DEF RowsStep, Onward
<1> QED
    BY <1>3, JobTurn DEF Onward

LEMMA DeleteObservationTurn ==
    ASSUME Typed, NEW c \in Caller, DeleteObservation(c)
    PROVE  GraphTurn(c)
<1> DEFINE k == job[c].id
           r == memory[k]
           row == [r EXCEPT !.texts = @ \ {job[c].text}]
           stale == IF r.status # "active" \/ r.name # job[c].name \/ r.texts # job[c].prev
                      THEN {k} ELSE {}
<1>1. /\ job[c].op = "remove" /\ job[c].at = "delete"
      /\ torn' = torn /\ clobbered' = clobbered /\ left' = left
      BY DEF DeleteObservation
<1>2. k \in Memory /\ r \in Row
      BY <1>1, HandledFacts
<1>3. job[c].now \in SUBSET Text
      BY <1>1, TypedFacts, RemoveJob
<1>4. CASE job[c].text \in r.texts
      <2>1. /\ Commit([memory EXCEPT ![k] = row], stale)
            /\ Becomes(c, [job[c] EXCEPT !.at = "unindex"])
            BY <1>4 DEF DeleteObservation
      <2>2. row \in Row /\ row.status = r.status /\ row.name = r.name /\ row.metadata = r.metadata
            BY <1>2 DEF Row
      <2>3. stale \subseteq Memory
            BY <1>2
      <2> HIDE DEF k, row, stale
      <2>4. memory' = [memory EXCEPT ![k] = row] /\ drifted' \subseteq Memory
            BY <2>1, <2>3, CommitFacts
      <2>5. RowsStep /\ LinksStep
            BY <1>1, <1>2, <2>2, <2>4, QuietRow DEF k
      <2> DEFINE j == [job[c] EXCEPT !.at = "unindex"]
      <2>6. Onward(job[c], j, "unindex", job[c].now) /\ Becomes(c, j)
            BY <1>1, <1>3, <2>1, TypedFacts, RemovalOn
      <2> HIDE DEF j
      <2>7. Turn(c, j)
            BY <1>1, <2>5, <2>6, TypedFacts, RemovalTurn
      <2> QED
          BY <1>1, <2>4, <2>5, <2>7, TypedFacts DEF GraphTurn, Turn
<1>5. CASE job[c].text \notin r.texts
      <2>1. Becomes(c, Idle) /\ Reads
            BY <1>1, <1>5 DEF DeleteObservation, Reads
      <2>2. Turn(c, Idle)
            BY <1>1, <2>1, IdleTurn, TypedFacts, JobTurn
      <2> QED
          BY <2>1, <2>2, IdleTurn, ReadsStep DEF GraphTurn
<1> QED
    BY <1>4, <1>5

LEMMA RemovalStepFacts ==
    ASSUME NEW c \in Caller, NEW from, NEW rows, NEW to, RemovalStep(c, from, rows, to)
    PROVE  /\ job[c].op = "remove" /\ job[c].at = from /\ memory' = rows /\ Becomes(c, to)
           /\ drifted' = drifted /\ clobbered' = clobbered /\ left' = left
BY DEF RemovalStep

LEMMA UnindexRemovedTurn ==
    ASSUME Typed, NEW c \in Caller, UnindexRemoved(c)
    PROVE  /\ GraphTurn(c)
           /\ LET k == job[c].id  row == Unindex(memory[k], job[c].name, job[c].prev)
              IN /\ memory'[k] = row /\ \A m \in Memory \ {k} : memory'[m] = memory[m]
                 /\ job'[c].op = "remove" /\ job'[c].at = "read" /\ job'[c].id = k
                 /\ job'[c].name = job[c].name
<1> DEFINE k == job[c].id
           row == Unindex(memory[k], job[c].name, job[c].prev)
           j == [job[c] EXCEPT !.at = "read"]
<1>1. /\ job[c].op = "remove" /\ job[c].at = "unindex"
      /\ memory' = [memory EXCEPT ![k] = row] /\ Becomes(c, j)
      /\ drifted' = drifted /\ clobbered' = clobbered /\ left' = left
      /\ torn' \in {torn, torn \cup {k}}
      BY RemovalStepFacts DEF UnindexRemoved, Robbed
<1>2. k \in Memory /\ memory[k] \in Row /\ job[c].name \in Name /\ torn' \subseteq Memory
      BY <1>1, HandledFacts, TypedFacts
<1>3. job[c].prev \in SUBSET Text /\ job[c].now \in SUBSET Text
      BY <1>1, TypedFacts, RemoveJob
<1>4. row \in Row /\ row.status = memory[k].status /\ row.name = memory[k].name
         /\ row.metadata = memory[k].metadata
      <2>1. \A r \in Row, n \in Name, texts \in SUBSET Text :
              /\ Unindex(r, n, texts) \in Row
              /\ Unindex(r, n, texts).status = r.status
              /\ Unindex(r, n, texts).name = r.name
              /\ Unindex(r, n, texts).metadata = r.metadata
            BY UnindexRow
      <2> QED
          BY <1>2, <1>3, <2>1
<1>5. Onward(job[c], j, "read", job[c].now)
      BY <1>1, <1>3, TypedFacts, RemovalOn
<1>6. k = job[c].id
      OBVIOUS
<1> HIDE DEF row, j, k
<1>7. /\ RowsStep /\ LinksStep
      /\ memory'[k] = row /\ \A m \in Memory \ {k} : memory'[m] = memory[m]
      BY <1>1, <1>2, <1>4, QuietRow
<1>8. Turn(c, j) /\ job'[c] = j
      BY <1>1, <1>5, <1>7, TypedFacts, RemovalTurn
<1>9. GraphTurn(c)
      BY <1>1, <1>2, <1>7, <1>8, TypedFacts DEF GraphTurn, Turn
<1> QED
    BY <1>5, <1>6, <1>7, <1>8, <1>9 DEF row, Onward

LEMMA ReadRemainingTurn ==
    ASSUME Typed, NEW c \in Caller, ReadRemaining(c)
    PROVE  /\ GraphTurn(c)
           /\ memory' = memory
           /\ job'[c].op = "remove" /\ job'[c].at = "insert" /\ job'[c].id = job[c].id
           /\ job'[c].name = job[c].name /\ job'[c].now = memory[job[c].id].texts
<1> DEFINE now == memory[job[c].id].texts
           j == [job[c] EXCEPT !.at = "insert", !.now = now]
<1>1. /\ job[c].op = "remove" /\ job[c].at = "read" /\ memory' = memory /\ Becomes(c, j)
      /\ drifted' = drifted /\ torn' = torn /\ clobbered' = clobbered /\ left' = left
      BY RemovalStepFacts DEF ReadRemaining
<1>2. now \in SUBSET Text
      BY <1>1, HandledFacts, RowFields
<1>3. RowsStep /\ LinksStep
      BY <1>1, ReadsStep DEF Reads
<1> HIDE DEF now
<1>6. job[c] \in Job
      BY TypedFacts
<1>7. Onward(job[c], j, "insert", now)
      BY <1>1, <1>2, <1>6, RemovalOn, Zenon
<1> HIDE DEF j
<1>4. Turn(c, j) /\ job'[c] = j
      BY <1>1, <1>3, <1>7, TypedFacts, RemovalTurn
<1>5. GraphTurn(c)
      BY <1>1, <1>3, <1>4, TypedFacts DEF GraphTurn, Turn
<1> QED
    BY <1>1, <1>4, <1>5, <1>7 DEF now, Onward

LEMMA IndexRemainingTurn ==
    ASSUME Typed, NEW c \in Caller, IndexRemaining(c)
    PROVE  /\ GraphTurn(c)
           /\ job'[c] = Idle
           /\ LET k == job[c].id  row == Index(memory[k], job[c].name, job[c].now)
              IN memory'[k] = row /\ \A m \in Memory \ {k} : memory'[m] = memory[m]
<1> DEFINE k == job[c].id
           row == Index(memory[k], job[c].name, job[c].now)
<1>1. /\ job[c].op = "remove" /\ job[c].at = "insert"
      /\ memory' = [memory EXCEPT ![k] = row] /\ Becomes(c, Idle)
      /\ drifted' = drifted /\ torn' = torn /\ clobbered' = clobbered /\ left' = left
      BY RemovalStepFacts DEF IndexRemaining
<1>2. k \in Memory /\ memory[k] \in Row /\ job[c].name \in Name
      BY <1>1, HandledFacts
<1>3. job[c].now \in SUBSET Text
      BY <1>1, TypedFacts, RemoveJob
<1>4. row \in Row /\ row.status = memory[k].status /\ row.name = memory[k].name
         /\ row.metadata = memory[k].metadata
      BY <1>2, <1>3, IndexRow
<1>5. k = job[c].id
      OBVIOUS
<1> HIDE DEF row, k
<1>6. /\ RowsStep /\ LinksStep
      /\ memory'[k] = row /\ \A m \in Memory \ {k} : memory'[m] = memory[m]
      BY <1>1, <1>2, <1>4, QuietRow
<1>7. Turn(c, Idle) /\ job'[c] = Idle
      BY <1>1, IdleTurn, TypedFacts, JobTurn
<1>8. GraphTurn(c)
      BY <1>1, <1>6, <1>7, IdleTurn, TypedFacts DEF GraphTurn
<1> QED
    BY <1>5, <1>6, <1>7, <1>8 DEF row

LEMMA RebuildIndexTurn ==
    ASSUME Typed, NEW c \in Caller, RebuildIndex(c)
    PROVE  /\ GraphTurn(c)
           /\ \A m \in Memory : Exact(memory'[m]) /\ Lost(memory'[m]) = {}
           /\ ~Cutting(job[c]) /\ job'[c] = Idle
<1> DEFINE rows == [m \in Memory |-> Rebuilt(memory[m])]
<1>1. /\ Begin(c, "rebuild", Idle) /\ memory' = rows
      /\ drifted' = {m \in Memory : Removing(m)} /\ torn' = {} /\ clobbered' = clobbered
      BY DEF RebuildIndex
<1>2. ASSUME NEW m \in Memory
      PROVE  /\ rows[m] \in Row
             /\ rows[m].status = memory[m].status /\ rows[m].name = memory[m].name
             /\ rows[m].metadata = memory[m].metadata
             /\ Exact(rows[m]) /\ Lost(rows[m]) = {}
      <2>1. memory[m] \in Row /\ (Kept(memory[m]) => memory[m].name \in Name)
            BY TypedFacts DEF StoredNamed
      <2>2. LET u == Rebuilt(memory[m]) IN
            /\ u \in Row
            /\ u.status = memory[m].status /\ u.name = memory[m].name
            /\ u.metadata = memory[m].metadata
            /\ u.texts = memory[m].texts
            /\ Lost(u) = {}
            /\ Exact(u)
            BY <2>1, RebuiltRow
      <2>3. rows[m] = Rebuilt(memory[m])
            OBVIOUS
      <2> HIDE DEF rows
      <2> QED
          BY <2>2, <2>3
<1>3. rows = [m \in Memory |-> rows[m]] /\ DOMAIN rows = Memory
      OBVIOUS
<1> HIDE DEF rows
<1>4. rows \in [Memory -> Row]
      BY <1>2, <1>3
<1>5. RowsStep /\ LinksStep
      BY <1>1, <1>2, <1>4, QuietRows
<1>6. Turn(c, Idle) /\ job'[c] = Idle /\ ~Cutting(job[c])
      BY <1>1, IdleTurn, BegunTurn
<1>7. GraphTurn(c)
      BY <1>1, <1>5, <1>6, IdleTurn, TypedFacts DEF GraphTurn
<1> QED
    BY <1>1, <1>2, <1>6, <1>7

LEMMA CrashTurn ==
    ASSUME Typed, NEW c \in Caller, Crash(c)
    PROVE  /\ GraphTurn(c)
           /\ memory' = memory /\ job'[c] = Idle
           /\ drifted' = drifted \cup {m \in Memory : Cuts(c, m)}
           /\ torn' = torn \cup {m \in Memory : Cuts(c, m)}
<1>1. /\ left.crashes > 0 /\ left' = [left EXCEPT !.crashes = @ - 1]
      /\ Becomes(c, Idle) /\ memory' = memory /\ clobbered' = clobbered
      /\ drifted' = drifted \cup {m \in Memory : Cuts(c, m)}
      /\ torn' = torn \cup {m \in Memory : Cuts(c, m)}
      BY DEF Crash, Cuts, Cutting
<1>2. left' \in Left
      BY <1>1, TypedFacts DEF Left
<1>3. Turn(c, Idle) /\ job'[c] = Idle
      BY <1>1, <1>2, IdleTurn, JobTurn
<1>4. RowsStep /\ LinksStep
      BY <1>1, TypedFacts, QuietRows
<1>5. drifted' \subseteq Memory /\ torn' \subseteq Memory
      BY <1>1, TypedFacts
<1> QED
    BY <1>1, <1>3, <1>4, <1>5, IdleTurn, TypedFacts DEF GraphTurn

-----------------------------------------------------------------------------
(* The index. A step that is not part of a removal keeps both invariants     *)
LEMMA OtherJobs ==
    ASSUME Typed, NEW c \in Caller, \E j : job' = [job EXCEPT ![c] = j]
    PROVE  \A d \in Caller \ {c} : job'[d] = job[d]
BY TypedFacts

LEMMA IndexKept ==
    ASSUME Typed, IndexInv, FoundInv, NEW c \in Caller, \E j : job' = [job EXCEPT ![c] = j],
           IndexTurn(c)
    PROVE  IndexInv' /\ FoundInv'
<1>1. /\ ~Cutting(job[c]) /\ ~Cutting(job'[c]) /\ IndexStep
      /\ \A d \in Caller \ {c} : job'[d] = job[d]
      BY OtherJobs DEF IndexTurn
<1>2. \A d \in Caller, m \in Memory :
        /\ Cuts(d, m)' <=> Cuts(d, m)
        /\ Cuts(d, m) => job'[d] = job[d] /\ Removing(m)
      BY <1>1 DEF Cuts, Cutting, Removing
<1>3. ASSUME NEW m \in Memory \ drifted'
      PROVE  /\ (\A d \in Caller : ~Cuts(d, m)') => Exact(memory'[m])
             /\ \A d \in Caller : Cuts(d, m)' =>
                   /\ Halfway(memory'[m], job'[d])
                   /\ \A e \in Caller : Cuts(e, m)' => e = d
      <2>1. /\ m \notin drifted
            /\ Removing(m) => SameEntry(memory[m], memory'[m])
            /\ Exact(memory[m]) => Exact(memory'[m])
            BY <1>1 DEF IndexStep
      <2>2. /\ (\A d \in Caller : ~Cuts(d, m)) => Exact(memory[m])
            /\ \A d \in Caller : Cuts(d, m) =>
                  /\ Halfway(memory[m], job[d])
                  /\ \A e \in Caller : Cuts(e, m) => e = d
            BY <2>1 DEF IndexInv
      <2>3. ASSUME NEW d \in Caller, Cuts(d, m)
            PROVE  Halfway(memory'[m], job'[d])
            <3>1. job'[d] = job[d] /\ SameEntry(memory[m], memory'[m])
                  BY <1>2, <2>1, <2>3
            <3>2. Halfway(memory[m], job[d])
                  BY <2>2, <2>3
            <3> QED
                BY <3>1, <3>2 DEF Halfway, SameEntry
      <2> QED
          BY <1>2, <2>1, <2>2, <2>3
<1>4. IndexInv'
      BY <1>3 DEF IndexInv
<1>5. FoundInv'
      <2> SUFFICES ASSUME NEW m \in Memory \ torn', NEW x \in Lost(memory'[m])
                   PROVE  \E d \in Caller : Cuts(d, m)' /\ x \in Owed(job'[d])
          BY DEF FoundInv
      <2>1. m \notin torn /\ x \in Lost(memory[m])
            BY <1>1 DEF IndexStep
      <2>2. PICK d \in Caller : Cuts(d, m) /\ x \in Owed(job[d])
            BY <2>1 DEF FoundInv
      <2> QED
          BY <1>2, <2>2
<1> QED
    BY <1>4, <1>5

(* Who cuts what, when one caller takes a step                               *)
LEMMA OtherCuts ==
    ASSUME Typed, NEW c \in Caller, \E j : job' = [job EXCEPT ![c] = j]
    PROVE  \A d \in Caller \ {c}, m \in Memory : Cuts(d, m)' <=> Cuts(d, m)
BY OtherJobs DEF Cuts

(* The memories that a step of a removal leaves alone                        *)
LEMMA IndexElsewhere ==
    ASSUME Typed, IndexInv, NEW c \in Caller, \E j : job' = [job EXCEPT ![c] = j],
           NEW m \in Memory, m \notin drifted, memory'[m] = memory[m],
           ~Cuts(c, m), ~Cuts(c, m)'
    PROVE  /\ (\A d \in Caller : ~Cuts(d, m)') => Exact(memory'[m])
           /\ \A d \in Caller : Cuts(d, m)' =>
                 /\ Halfway(memory'[m], job'[d])
                 /\ \A e \in Caller : Cuts(e, m)' => e = d
<1>1. /\ (\A d \in Caller : ~Cuts(d, m)) => Exact(memory[m])
      /\ \A d \in Caller : Cuts(d, m) =>
            /\ Halfway(memory[m], job[d])
            /\ \A e \in Caller : Cuts(e, m) => e = d
      BY DEF IndexInv
<1>2. \A d \in Caller : Cuts(d, m)' <=> Cuts(d, m)
      BY OtherCuts
<1>3. \A d \in Caller : Cuts(d, m) => job'[d] = job[d]
      BY OtherJobs
<1> QED
    BY <1>1, <1>2, <1>3

LEMMA FoundElsewhere ==
    ASSUME Typed, FoundInv, NEW c \in Caller, \E j : job' = [job EXCEPT ![c] = j],
           NEW m \in Memory, m \notin torn, NEW x \in Lost(memory[m]),
           ~(Cuts(c, m) /\ x \in Owed(job[c]))
    PROVE  \E d \in Caller : Cuts(d, m)' /\ x \in Owed(job'[d])
<1>1. PICK d \in Caller : Cuts(d, m) /\ x \in Owed(job[d])
      BY DEF FoundInv
<1>2. d # c
      BY <1>1
<1>3. job'[d] = job[d] /\ Cuts(d, m)'
      BY <1>1, <1>2, OtherJobs, OtherCuts
<1> QED
    BY <1>1, <1>3

LEMMA DeleteObservationIndex ==
    ASSUME Typed, IndexInv, FoundInv, NEW c \in Caller, DeleteObservation(c)
    PROVE  IndexInv' /\ FoundInv'
<1>1. job[c].op = "remove" /\ job[c].at = "delete" /\ torn' = torn /\ clobbered' = clobbered
      BY DEF DeleteObservation
<1>2. PICK k \in Memory : k = job[c].id /\ memory[k] \in Row
      BY <1>1, HandledFacts
<1> DEFINE r == memory[k]
           row == [r EXCEPT !.texts = @ \ {job[c].text}]
           stale == IF r.status # "active" \/ r.name # job[c].name \/ r.texts # job[c].prev
                      THEN {k} ELSE {}
<1>3. ~Cutting(job[c])
      BY <1>1 DEF Cutting
<1>4. \E j : job' = [job EXCEPT ![c] = j]
      BY DEF DeleteObservation, Becomes
<1>5. CASE job[c].text \notin r.texts
      <2>1. Becomes(c, Idle) /\ Reads
            BY <1>1, <1>2, <1>5 DEF DeleteObservation, Reads
      <2>2. job'[c] = Idle
            BY <2>1, TypedFacts DEF Becomes
      <2>3. IndexTurn(c)
            BY <1>3, <2>1, <2>2, IdleTurn, ReadsStep DEF IndexTurn
      <2> QED
          BY <1>4, <2>3, IndexKept
<1>6. CASE job[c].text \in r.texts
      <2>1. /\ Commit([memory EXCEPT ![k] = row], stale)
            /\ Becomes(c, [job[c] EXCEPT !.at = "unindex"])
            BY <1>2, <1>6 DEF DeleteObservation
      <2>2. row \in Row /\ row.status = r.status /\ row.name = r.name
            /\ row.terms = r.terms /\ (row.listed <=> r.listed)
            /\ row.texts = r.texts \ {job[c].text}
            BY <1>2 DEF Row
      <2>3. stale \subseteq Memory
            BY <1>2
      <2> HIDE DEF row, stale
      <2>4. /\ memory' = [memory EXCEPT ![k] = row]
            /\ drifted' = drifted \cup stale \cup Disturbed(memory')
            BY <2>1, <2>3, CommitFacts
      <2>5. memory'[k] = row /\ \A m \in Memory \ {k} : memory'[m] = memory[m]
            BY <1>2, <2>4, TypedFacts
      <2> DEFINE j == [job[c] EXCEPT !.at = "unindex"]
      <2>6. job[c].now \in SUBSET Text /\ job[c] \in Job
            BY <1>1, TypedFacts, RemoveJob
      <2>7. Onward(job[c], j, "unindex", job[c].now) /\ Becomes(c, j)
            BY <1>1, <2>1, <2>6, RemovalOn
      <2> HIDE DEF j
      <2>8. /\ job'[c] = j /\ j.op = "remove" /\ j.at = "unindex" /\ j.id = k
            /\ j.name = job[c].name /\ j.prev = job[c].prev
            BY <1>2, <2>7, TypedFacts DEF Becomes, Onward
      <2>9. \A m \in Memory \ {k} : ~Cuts(c, m) /\ ~Cuts(c, m)'
            BY <1>3, <2>8 DEF Cuts
      <2>10. ASSUME k \notin drifted'
             PROVE  /\ (\A d \in Caller : ~Cuts(d, k)') => Exact(memory'[k])
                    /\ \A d \in Caller : Cuts(d, k)' =>
                          /\ Halfway(memory'[k], job'[d])
                          /\ \A e \in Caller : Cuts(e, k)' => e = d
             <3>1. k \notin drifted /\ k \notin stale /\ k \notin Disturbed(memory')
                   BY <2>4, <2>10
             <3>2. r.status = "active" /\ r.name = job[c].name /\ r.texts = job[c].prev
                   BY <3>1 DEF stale
             <3>3. row # r
                   BY <1>6, <2>2
             <3>4. \A d \in Caller : ~Cuts(d, k)
                   BY <1>2, <2>5, <3>1, <3>3 DEF Disturbed, Removing, Cuts, Cutting
             <3>5. Exact(r)
                   BY <1>2, <3>1, <3>4 DEF IndexInv
             <3>6. Halfway(row, j)
                   BY <2>2, <2>8, <3>2, <3>5 DEF Halfway, Exact, Says
             <3>7. Cuts(c, k)' /\ \A d \in Caller : Cuts(d, k)' => d = c
                   <4>1. Cuts(c, k)'
                         BY <2>8 DEF Cuts, Cutting
                   <4>2. \A d \in Caller \ {c} : ~Cuts(d, k)'
                         BY <1>2, <1>4, <3>4, OtherCuts
                   <4> QED
                       BY <4>1, <4>2
             <3> QED
                 BY <2>5, <2>8, <3>6, <3>7
      <2> HIDE DEF r
      <2>11. drifted \subseteq drifted'
             BY <2>4
      <2>12. IndexInv'
             <3> SUFFICES ASSUME NEW m \in Memory \ drifted'
                          PROVE  /\ (\A d \in Caller : ~Cuts(d, m)') => Exact(memory'[m])
                                 /\ \A d \in Caller : Cuts(d, m)' =>
                                       /\ Halfway(memory'[m], job'[d])
                                       /\ \A e \in Caller : Cuts(e, m)' => e = d
                 BY DEF IndexInv
             <3>1. CASE m = k
                   BY <2>10, <3>1
             <3>2. CASE m # k
                   <4>1. m \notin drifted /\ memory'[m] = memory[m] /\ ~Cuts(c, m) /\ ~Cuts(c, m)'
                         BY <2>5, <2>9, <2>11, <3>2
                   <4> QED
                       BY <1>4, <4>1, IndexElsewhere
             <3> QED
                 BY <3>1, <3>2
      <2>13. FoundInv'
             <3> SUFFICES ASSUME NEW m \in Memory \ torn', NEW x \in Lost(memory'[m])
                          PROVE  \E d \in Caller : Cuts(d, m)' /\ x \in Owed(job'[d])
                 BY DEF FoundInv
             <3>1. Lost(row) \subseteq Lost(r)
                   <4>1. Words(row.texts) \subseteq Words(r.texts)
                         BY <2>2, WordsFacts
                   <4> QED
                       BY <2>2, <4>1 DEF Lost
             <3>2. x \in Lost(memory[m])
                   BY <2>5, <3>1 DEF r
             <3>3. ~(Cuts(c, m) /\ x \in Owed(job[c]))
                   BY <1>3 DEF Cuts
             <3> QED
                 BY <1>1, <1>4, <3>2, <3>3, FoundElsewhere
      <2> QED
          BY <2>12, <2>13
<1> QED
    BY <1>5, <1>6

LEMMA UnindexRemovedIndex ==
    ASSUME Typed, IndexInv, FoundInv, NEW c \in Caller, UnindexRemoved(c)
    PROVE  IndexInv' /\ FoundInv'
<1> DEFINE j == [job[c] EXCEPT !.at = "read"]
<1>1. /\ job[c].op = "remove" /\ job[c].at = "unindex" /\ Becomes(c, j)
      /\ drifted' = drifted
      BY RemovalStepFacts DEF UnindexRemoved
<1>2. PICK k \in Memory : k = job[c].id /\ memory[k] \in Row /\ job[c].name \in Name
      BY <1>1, HandledFacts
<1>10. /\ torn \subseteq torn'
       /\ memory[k].status = "active" /\ k \notin torn' =>
             Terms[memory[k].name] \cap Words(job[c].prev) \subseteq Terms[job[c].name]
       BY <1>2 DEF UnindexRemoved, Robbed
<1> DEFINE row == Unindex(memory[k], job[c].name, job[c].prev)
<1>3. /\ memory'[k] = row /\ \A m \in Memory \ {k} : memory'[m] = memory[m]
      /\ job'[c].op = "remove" /\ job'[c].at = "read" /\ job'[c].id = k
      /\ job'[c].name = job[c].name
      BY <1>2, UnindexRemovedTurn
<1>4. job[c].prev \in SUBSET Text
      BY <1>1, TypedFacts, RemoveJob
<1>5. /\ row.status = memory[k].status /\ row.name = memory[k].name
      /\ row.texts = memory[k].texts
      /\ memory[k].listed => row.terms = memory[k].terms \ Entry(job[c].name, job[c].prev)
      /\ ~memory[k].listed => row.terms = memory[k].terms
      <2>1. ASSUME NEW r \in Row, NEW n \in Name, NEW texts \in SUBSET Text
            PROVE  /\ Unindex(r, n, texts).status = r.status
                   /\ Unindex(r, n, texts).name = r.name
                   /\ Unindex(r, n, texts).texts = r.texts
                   /\ r.listed => Unindex(r, n, texts).terms = r.terms \ Entry(n, texts)
                   /\ ~r.listed => Unindex(r, n, texts).terms = r.terms
            BY DEF Unindex, Row
      <2> QED
          BY <1>2, <1>4, <2>1
<1>6. \E h : job' = [job EXCEPT ![c] = h]
      BY <1>1 DEF Becomes
<1>7. /\ Cuts(c, k) /\ Cuts(c, k)'
      /\ \A m \in Memory \ {k} : ~Cuts(c, m) /\ ~Cuts(c, m)'
      BY <1>1, <1>2, <1>3 DEF Cuts, Cutting
<1> HIDE DEF row
<1>8. IndexInv'
      <2> SUFFICES ASSUME NEW m \in Memory \ drifted'
                   PROVE  /\ (\A d \in Caller : ~Cuts(d, m)') => Exact(memory'[m])
                          /\ \A d \in Caller : Cuts(d, m)' =>
                                /\ Halfway(memory'[m], job'[d])
                                /\ \A e \in Caller : Cuts(e, m)' => e = d
          BY DEF IndexInv
      <2>1. CASE m = k
            <3>1. Halfway(memory[k], job[c]) /\ \A e \in Caller : Cuts(e, k) => e = c
                  BY <1>1, <1>7, <2>1 DEF IndexInv
            <3>2. Halfway(row, job'[c])
                  <4>1. row.terms = {}
                        BY <1>1, <1>5, <3>1 DEF Halfway
                  <4> QED
                      BY <1>3, <1>5, <3>1, <4>1 DEF Halfway
            <3>3. \A d \in Caller : Cuts(d, k)' => d = c
                  BY <1>2, <1>6, <3>1, OtherCuts
            <3> QED
                BY <1>3, <1>7, <2>1, <3>2, <3>3
      <2>2. CASE m # k
            <3>1. m \notin drifted /\ memory'[m] = memory[m] /\ ~Cuts(c, m) /\ ~Cuts(c, m)'
                  BY <1>1, <1>3, <1>7, <2>2
            <3> QED
                BY <1>6, <3>1, IndexElsewhere
      <2> QED
          BY <2>1, <2>2
<1>9. FoundInv'
      <2> SUFFICES ASSUME NEW m \in Memory \ torn', NEW x \in Lost(memory'[m])
                   PROVE  \E d \in Caller : Cuts(d, m)' /\ x \in Owed(job'[d])
          BY DEF FoundInv
      <2>1. Owed(job'[c]) = Owed(job[c])
            BY <1>1, <1>3 DEF Owed
      <2>2. CASE m = k /\ x \in Owed(job'[c])
            BY <1>7, <2>2
      <2>3. CASE ~(m = k /\ x \in Owed(job'[c]))
            <3>1. x \in Lost(memory[m])
                  <4>1. CASE m # k
                        BY <1>3, <4>1
                  <4>2. CASE m = k
                        <5>1. x \in Slot /\ x \in Lost(row) /\ x \notin Owed(job'[c])
                              BY <1>3, <2>3, <4>2 DEF Lost
                        <5>2. x[1] = "name" /\ x[2] \notin Terms[job[c].name]
                              BY <1>3, <5>1 DEF Owed, Slot
                        <5>3. /\ memory[k].status = "active"
                              /\ x[2] \in Terms[memory[k].name] /\ x[2] \notin row.terms
                              BY <1>5, <5>1, <5>2 DEF Lost
                        <5>4. x[2] \notin Words(job[c].prev)
                              BY <1>10, <4>2, <5>2, <5>3
                        <5>5. x[2] \notin memory[k].terms
                              BY <1>5, <5>2, <5>3, <5>4 DEF Entry
                        <5> QED
                            BY <4>2, <5>1, <5>2, <5>3, <5>5 DEF Lost
                  <4> QED
                      BY <4>1, <4>2
            <3>2. ~(Cuts(c, m) /\ x \in Owed(job[c]))
                  BY <1>7, <2>1, <2>3
            <3> QED
                BY <1>6, <1>10, <3>1, <3>2, FoundElsewhere
      <2> QED
          BY <2>2, <2>3
<1> QED
    BY <1>8, <1>9

LEMMA ReadRemainingIndex ==
    ASSUME Typed, IndexInv, FoundInv, NEW c \in Caller, ReadRemaining(c)
    PROVE  IndexInv' /\ FoundInv'
<1>1. /\ job[c].op = "remove" /\ job[c].at = "read" /\ memory' = memory
      /\ drifted' = drifted /\ torn' = torn
      /\ \E j : job' = [job EXCEPT ![c] = j]
      BY RemovalStepFacts DEF ReadRemaining, Becomes
<1>2. PICK k \in Memory : k = job[c].id /\ memory[k] \in Row /\ job[c].name \in Name
      BY <1>1, HandledFacts
<1>3. /\ job'[c].op = "remove" /\ job'[c].at = "insert" /\ job'[c].id = k
      /\ job'[c].name = job[c].name /\ job'[c].now = memory[k].texts
      BY <1>2, ReadRemainingTurn
<1>4. /\ Cuts(c, k) /\ Cuts(c, k)'
      /\ \A m \in Memory \ {k} : ~Cuts(c, m) /\ ~Cuts(c, m)'
      BY <1>1, <1>2, <1>3 DEF Cuts, Cutting
<1>5. IndexInv'
      <2> SUFFICES ASSUME NEW m \in Memory \ drifted'
                   PROVE  /\ (\A d \in Caller : ~Cuts(d, m)') => Exact(memory'[m])
                          /\ \A d \in Caller : Cuts(d, m)' =>
                                /\ Halfway(memory'[m], job'[d])
                                /\ \A e \in Caller : Cuts(e, m)' => e = d
          BY DEF IndexInv
      <2>1. CASE m = k
            <3>1. Halfway(memory[k], job[c]) /\ \A e \in Caller : Cuts(e, k) => e = c
                  BY <1>1, <1>4, <2>1 DEF IndexInv
            <3>2. Halfway(memory'[k], job'[c])
                  BY <1>1, <1>3, <3>1 DEF Halfway
            <3>3. \A d \in Caller : Cuts(d, k)' => d = c
                  BY <1>1, <1>2, <3>1, OtherCuts
            <3> QED
                BY <1>3, <1>4, <2>1, <3>2, <3>3
      <2>2. CASE m # k
            <3>1. m \notin drifted /\ memory'[m] = memory[m] /\ ~Cuts(c, m) /\ ~Cuts(c, m)'
                  BY <1>1, <1>3, <1>4, <2>2
            <3> QED
                BY <1>1, <3>1, IndexElsewhere
      <2> QED
          BY <2>1, <2>2
<1>6. FoundInv'
      <2> SUFFICES ASSUME NEW m \in Memory \ torn', NEW x \in Lost(memory'[m])
                   PROVE  \E d \in Caller : Cuts(d, m)' /\ x \in Owed(job'[d])
          BY DEF FoundInv
      <2>1. CASE Cuts(c, m) /\ x \in Owed(job[c])
            <3>1. m = k /\ x \in Slot /\ (x[2] \in Terms[job[c].name] \/ x[1] = "text")
                  BY <1>1, <1>4, <2>1 DEF Owed
            <3>2. x[1] = "text" => x[2] \in Words(memory[k].texts)
                  BY <1>1, <3>1 DEF Lost
            <3> QED
                BY <1>3, <1>4, <3>1, <3>2 DEF Owed
      <2>2. CASE ~(Cuts(c, m) /\ x \in Owed(job[c]))
            BY <1>1, <2>2, FoundElsewhere
      <2> QED
          BY <2>1, <2>2
<1> QED
    BY <1>5, <1>6

LEMMA IndexRemainingIndex ==
    ASSUME Typed, IndexInv, FoundInv, NEW c \in Caller, IndexRemaining(c)
    PROVE  IndexInv' /\ FoundInv'
<1>1. /\ job[c].op = "remove" /\ job[c].at = "insert" /\ Becomes(c, Idle)
      /\ drifted' = drifted /\ torn' = torn
      BY RemovalStepFacts DEF IndexRemaining
<1>2. PICK k \in Memory : k = job[c].id /\ memory[k] \in Row /\ job[c].name \in Name
      BY <1>1, HandledFacts
<1> DEFINE row == Index(memory[k], job[c].name, job[c].now)
<1>3. /\ memory'[k] = row /\ \A m \in Memory \ {k} : memory'[m] = memory[m]
      /\ job'[c] = Idle
      BY <1>2, IndexRemainingTurn
<1>4. job[c].now \in SUBSET Text
      BY <1>1, TypedFacts, RemoveJob
<1>5. /\ row.status = memory[k].status /\ row.name = memory[k].name
      /\ row.texts = memory[k].texts
      /\ row.listed /\ row.terms = memory[k].terms \cup Entry(job[c].name, job[c].now)
      BY <1>2, <1>4 DEF Index, Row
<1>6. \E h : job' = [job EXCEPT ![c] = h]
      BY <1>1 DEF Becomes
<1>7. /\ Cuts(c, k) /\ \A m \in Memory : ~Cuts(c, m)'
      /\ \A m \in Memory \ {k} : ~Cuts(c, m)
      BY <1>1, <1>2, <1>3, IdleTurn DEF Cuts, Cutting
<1> HIDE DEF row
<1>8. IndexInv'
      <2> SUFFICES ASSUME NEW m \in Memory \ drifted'
                   PROVE  /\ (\A d \in Caller : ~Cuts(d, m)') => Exact(memory'[m])
                          /\ \A d \in Caller : Cuts(d, m)' =>
                                /\ Halfway(memory'[m], job'[d])
                                /\ \A e \in Caller : Cuts(e, m)' => e = d
          BY DEF IndexInv
      <2>1. CASE m = k
            <3>1. Halfway(memory[k], job[c]) /\ \A e \in Caller : Cuts(e, k) => e = c
                  BY <1>1, <1>7, <2>1 DEF IndexInv
            <3>2. Exact(row)
                  BY <1>1, <1>5, <3>1 DEF Halfway, Exact, Says
            <3>3. \A d \in Caller : ~Cuts(d, k)'
                  BY <1>2, <1>6, <1>7, <3>1, OtherCuts
            <3> QED
                BY <1>3, <2>1, <3>2, <3>3
      <2>2. CASE m # k
            <3>1. m \notin drifted /\ memory'[m] = memory[m] /\ ~Cuts(c, m) /\ ~Cuts(c, m)'
                  BY <1>1, <1>3, <1>7, <2>2
            <3> QED
                BY <1>6, <3>1, IndexElsewhere
      <2> QED
          BY <2>1, <2>2
<1>9. FoundInv'
      <2> SUFFICES ASSUME NEW m \in Memory \ torn', NEW x \in Lost(memory'[m])
                   PROVE  \E d \in Caller : Cuts(d, m)' /\ x \in Owed(job'[d])
          BY DEF FoundInv
      <2>1. x \in Lost(memory[m]) /\ (m = k => x[2] \notin Entry(job[c].name, job[c].now))
            <3>1. CASE m # k
                  BY <1>3, <3>1
            <3>2. CASE m = k
                  BY <1>3, <1>5, <3>2 DEF Lost
            <3> QED
                BY <3>1, <3>2
      <2>2. ~(Cuts(c, m) /\ x \in Owed(job[c]))
            BY <1>1, <1>7, <2>1 DEF Owed, Entry
      <2> QED
          BY <1>1, <1>6, <2>1, <2>2, FoundElsewhere
<1> QED
    BY <1>8, <1>9

LEMMA RebuildIndexIndex ==
    ASSUME Typed, IndexInv, FoundInv, NEW c \in Caller, RebuildIndex(c)
    PROVE  IndexInv' /\ FoundInv'
<1>1. /\ \A m \in Memory : Exact(memory'[m]) /\ Lost(memory'[m]) = {}
      /\ ~Cutting(job[c]) /\ job'[c] = Idle
      BY RebuildIndexTurn
<1>2. drifted' = {m \in Memory : Removing(m)} /\ \E j : job' = [job EXCEPT ![c] = j]
      BY DEF RebuildIndex, Begin, Becomes
<1>3. ASSUME NEW m \in Memory \ drifted' PROVE \A d \in Caller : ~Cuts(d, m)'
      <2>1. \A d \in Caller : ~Cuts(d, m)
            BY <1>2, <1>3 DEF Removing, Cuts, Cutting
      <2> QED
          BY <1>1, <1>2, <2>1, OtherCuts, IdleTurn DEF Cuts
<1> QED
    BY <1>1, <1>3 DEF IndexInv, FoundInv

LEMMA CrashIndex ==
    ASSUME Typed, IndexInv, FoundInv, NEW c \in Caller, Crash(c)
    PROVE  IndexInv' /\ FoundInv'
<1>1. /\ memory' = memory /\ job'[c] = Idle
      /\ drifted' = drifted \cup {m \in Memory : Cuts(c, m)}
      /\ torn' = torn \cup {m \in Memory : Cuts(c, m)}
      BY CrashTurn
<1>2. \E j : job' = [job EXCEPT ![c] = j]
      BY DEF Crash, Becomes
<1>3. \A m \in Memory : ~Cuts(c, m)'
      BY <1>1, IdleTurn DEF Cuts
<1>4. IndexInv'
      <2> SUFFICES ASSUME NEW m \in Memory \ drifted'
                   PROVE  /\ (\A d \in Caller : ~Cuts(d, m)') => Exact(memory'[m])
                          /\ \A d \in Caller : Cuts(d, m)' =>
                                /\ Halfway(memory'[m], job'[d])
                                /\ \A e \in Caller : Cuts(e, m)' => e = d
          BY DEF IndexInv
      <2>1. m \notin drifted /\ memory'[m] = memory[m] /\ ~Cuts(c, m) /\ ~Cuts(c, m)'
            BY <1>1, <1>3
      <2> QED
          BY <1>2, <2>1, IndexElsewhere
<1>5. FoundInv'
      <2> SUFFICES ASSUME NEW m \in Memory \ torn', NEW x \in Lost(memory'[m])
                   PROVE  \E d \in Caller : Cuts(d, m)' /\ x \in Owed(job'[d])
          BY DEF FoundInv
      <2>1. m \notin torn /\ x \in Lost(memory[m]) /\ ~Cuts(c, m)
            BY <1>1
      <2> QED
          BY <1>2, <2>1, FoundElsewhere
<1> QED
    BY <1>4, <1>5

LEMMA GraphStepFacts ==
    ASSUME Typed, GraphStep
    PROVE  /\ \E c \in Caller : GraphTurn(c)
           /\ IndexInv /\ FoundInv => IndexInv' /\ FoundInv'
<1>1. ASSUME NEW c \in Caller,
             \/ Remember(c) \/ ReadMetadata(c) \/ WriteMetadata(c) \/ SetPinned(c) \/ Capture(c)
             \/ RemoveObservation(c) \/ ForgetByName(c) \/ ArchiveEntity(c) \/ DeleteEntity(c)
             \/ BeginRename(c) \/ RenamePath(c)
             \/ BeginImport(c) \/ ClearEntityData(c) \/ Refill(c)
             \/ BeginRewrite(c) \/ RewriteObservations(c)
             \/ BeginCompress(c) \/ Summarise(c) \/ ArchiveBatch(c)
      PROVE  GraphTurn(c) /\ IndexTurn(c)
      BY <1>1, RememberTurn, ReadMetadataTurn, WriteMetadataTurn, SetPinnedTurn, CaptureTurn,
         RemoveObservationTurn, ForgetByNameTurn, ArchiveEntityTurn, DeleteEntityTurn,
         BeginRenameTurn, RenamePathTurn, BeginImportTurn, ClearEntityDataTurn, RefillTurn,
         BeginRewriteTurn, RewriteObservationsTurn, BeginCompressTurn, SummariseTurn,
         ArchiveBatchTurn
<1>2. ASSUME NEW c \in Caller, GraphTurn(c) /\ IndexTurn(c), IndexInv, FoundInv
      PROVE  IndexInv' /\ FoundInv'
      BY <1>2, IndexKept DEF GraphTurn, Turn
<1>3. ASSUME NEW c \in Caller,
             \/ DeleteObservation(c) \/ UnindexRemoved(c) \/ ReadRemaining(c)
             \/ IndexRemaining(c) \/ RebuildIndex(c) \/ Crash(c)
      PROVE  GraphTurn(c) /\ (IndexInv /\ FoundInv => IndexInv' /\ FoundInv')
      <2>1. GraphTurn(c)
            BY <1>3, DeleteObservationTurn, UnindexRemovedTurn, ReadRemainingTurn,
               IndexRemainingTurn, RebuildIndexTurn, CrashTurn
      <2>2. IndexInv /\ FoundInv => IndexInv' /\ FoundInv'
            BY <1>3, DeleteObservationIndex, UnindexRemovedIndex, ReadRemainingIndex,
               IndexRemainingIndex, RebuildIndexIndex, CrashIndex
      <2> QED
          BY <2>1, <2>2
<1>4. PICK c \in Caller :
        \/ Remember(c) \/ ReadMetadata(c) \/ WriteMetadata(c) \/ SetPinned(c) \/ Capture(c)
        \/ RemoveObservation(c) \/ DeleteObservation(c) \/ UnindexRemoved(c)
        \/ ReadRemaining(c) \/ IndexRemaining(c)
        \/ ForgetByName(c) \/ ArchiveEntity(c) \/ DeleteEntity(c)
        \/ BeginRename(c) \/ RenamePath(c)
        \/ BeginImport(c) \/ ClearEntityData(c) \/ Refill(c)
        \/ BeginRewrite(c) \/ RewriteObservations(c)
        \/ BeginCompress(c) \/ Summarise(c) \/ ArchiveBatch(c)
        \/ RebuildIndex(c) \/ Crash(c)
      BY DEF GraphStep
<1> QED
    BY <1>1, <1>2, <1>3, <1>4

-----------------------------------------------------------------------------
(* Proposals. A step keeps what they are made of, and may decide on some and *)
(* stage more                                                                *)
Fits(p) ==
    /\ p.kind = "product" => p.slug # None
    /\ p.kind = "guard" => \E l \in Memory : p.sources = {l}
Staging(p) ==
    /\ p.status = "pending" /\ Fits(p)
    /\ \A m \in p.sources : memory'[m].status # "new"
ProposalsStep ==
    /\ proposals' \in Seq(ProposalRow) /\ Len(proposals') <= MaxProposals
    /\ DOMAIN proposals \subseteq DOMAIN proposals'
    /\ \A i \in DOMAIN proposals :
          /\ proposals'[i].kind = proposals[i].kind
          /\ proposals'[i].sources = proposals[i].sources
          /\ proposals'[i].slug = proposals[i].slug
    /\ \A i \in DOMAIN proposals' \ DOMAIN proposals : Staging(proposals'[i])

LEMMA ProposalFacts ==
    ASSUME Typed
    PROVE  /\ proposals \in Seq(ProposalRow) /\ Len(proposals) \in Nat
           /\ Len(proposals) <= MaxProposals /\ MaxProposals \in Nat
           /\ DOMAIN proposals = 1..Len(proposals) /\ DOMAIN proposals \subseteq Ids
           /\ \A i \in DOMAIN proposals :
                 /\ proposals[i] \in ProposalRow /\ Fits(proposals[i])
                 /\ proposals[i].kind \in ProposalKind
                 /\ proposals[i].status \in {"pending", "applied", "rejected"}
                 /\ proposals[i].sources \in SUBSET Memory
                 /\ proposals[i].slug \in Slug \cup {None}
                 /\ \A m \in proposals[i].sources : memory[m].status # "new"
           /\ relations \subseteq Memory \X Memory
           /\ judged \subseteq SUBSET Memory /\ overruled \subseteq Ids
<1>1. /\ proposals \in Seq(ProposalRow) /\ Len(proposals) <= MaxProposals
      /\ relations \subseteq Memory \X Memory
      /\ judged \subseteq SUBSET Memory /\ overruled \subseteq Ids
      BY DEF Typed, TypeOK
<1>2. /\ Len(proposals) \in Nat /\ DOMAIN proposals = 1..Len(proposals)
      /\ \A i \in DOMAIN proposals : proposals[i] \in ProposalRow
      BY <1>1
<1>3. MaxProposals \in Nat
      BY NamesAssumption
<1>4. DOMAIN proposals \subseteq Ids
      BY <1>1, <1>2, <1>3 DEF Ids
<1>5. \A i \in DOMAIN proposals :
        Fits(proposals[i]) /\ \A m \in proposals[i].sources : memory[m].status # "new"
      BY DEF Typed, ProposalShapes, SourcesOld, Old, Fits
<1>6. \A p \in ProposalRow :
        /\ p.kind \in ProposalKind
        /\ p.status \in {"pending", "applied", "rejected"}
        /\ p.sources \in SUBSET Memory
        /\ p.slug \in Slug \cup {None}
      BY DEF ProposalRow
<1> QED
    BY <1>1, <1>2, <1>3, <1>4, <1>5, <1>6

LEMMA DecidedTable ==
    ASSUME NEW table \in Seq(ProposalRow), NEW ids,
           NEW status \in {"pending", "applied", "rejected"}
    PROVE  LET u == Decided(table, ids, status) IN
           /\ u \in Seq(ProposalRow) /\ Len(u) = Len(table) /\ DOMAIN u = DOMAIN table
           /\ \A i \in DOMAIN table :
                 /\ u[i].kind = table[i].kind /\ u[i].sources = table[i].sources
                 /\ u[i].slug = table[i].slug
                 /\ i \in ids => u[i].status = status
                 /\ i \notin ids => u[i] = table[i]
<1> DEFINE u == Decided(table, ids, status)
           f(i) == IF i \in ids THEN [table[i] EXCEPT !.status = status] ELSE table[i]
<1>1. u = [i \in 1..Len(table) |-> f(i)] /\ Len(table) \in Nat /\ DOMAIN table = 1..Len(table)
      BY DEF Decided
<1>2. ASSUME NEW i \in DOMAIN table
      PROVE  /\ f(i) \in ProposalRow
             /\ f(i).kind = table[i].kind /\ f(i).sources = table[i].sources
             /\ f(i).slug = table[i].slug
             /\ i \in ids => f(i).status = status
             /\ i \notin ids => f(i) = table[i]
      <2>1. table[i] \in ProposalRow
            BY <1>2
      <2>2. CASE i \in ids
            BY <2>1, <2>2 DEF ProposalRow
      <2>3. CASE i \notin ids
            BY <2>1, <2>3
      <2> QED
          BY <2>2, <2>3
<1> HIDE DEF f, u
<1>3. u \in [1..Len(table) -> ProposalRow]
      BY <1>1, <1>2
<1>4. u \in Seq(ProposalRow) /\ Len(u) = Len(table) /\ DOMAIN u = 1..Len(table)
      BY <1>1, <1>3
<1>5. \A i \in DOMAIN table : u[i] = f(i)
      BY <1>1
<1>6. \A i \in DOMAIN table :
        /\ u[i].kind = table[i].kind /\ u[i].sources = table[i].sources
        /\ u[i].slug = table[i].slug
        /\ i \in ids => u[i].status = status
        /\ i \notin ids => u[i] = table[i]
      BY <1>2, <1>5
<1> QED
    BY <1>1, <1>4, <1>6 DEF u

LEMMA AppendedTable ==
    ASSUME NEW table \in Seq(ProposalRow), NEW p \in ProposalRow
    PROVE  LET u == Append(table, p) IN
           /\ u \in Seq(ProposalRow) /\ Len(u) = Len(table) + 1
           /\ DOMAIN u = 1..(Len(table) + 1) /\ DOMAIN table = 1..Len(table)
           /\ Len(table) \in Nat
           /\ \A i \in DOMAIN table : u[i] = table[i]
           /\ u[Len(table) + 1] = p
OBVIOUS

-----------------------------------------------------------------------------
(* Runs: what a step of one does. It reads the memories, moves on with its   *)
(* job, rejects what was pending (or is known to be overruled) and stages    *)
Hand(j) ==
    /\ j \in Job /\ ~Cutting(j) /\ Old(Handled(j))
    /\ j.op \in {"apply", "dead"} => j.id \in DOMAIN proposals
    /\ j.op = "heal" => j.narrower \subseteq DOMAIN proposals
    /\ j.op = "await" =>
          \A i \in j.seen :
              /\ i \in DOMAIN proposals
              /\ i \in OfKind({"digest", "guard", "product"})
              /\ proposals[i].sources \subseteq j.cluster /\ proposals[i].sources # j.cluster
              /\ proposals[i].sources \cap j.cluster # {}
JobStep(c) ==
    /\ \E j : Hand(j) /\ job' = [job EXCEPT ![c] = j]
    /\ ~Cutting(job[c]) /\ left' \in Left
RunDecides ==
    /\ overruled \subseteq overruled'
    /\ \A i \in overruled' \ overruled : i \in DOMAIN proposals /\ i \notin Pending
    /\ \A i \in DOMAIN proposals :
          \/ proposals'[i].status = proposals[i].status
          \/ /\ proposals'[i].status = "rejected"
             /\ i \in Pending \cup overruled'
RunStages ==
    /\ judged \subseteq judged' /\ judged' \subseteq SUBSET Memory
    /\ \A i, k \in DOMAIN proposals' \ DOMAIN proposals : i = k
    /\ \A i \in DOMAIN proposals' \ DOMAIN proposals :
          proposals'[i].kind = "relation" => proposals'[i].sources \in judged' \ judged
RunTurn(c) ==
    /\ Reads /\ JobStep(c)
    /\ ProposalsStep /\ RunDecides /\ RunStages
    /\ relations' = relations

LEMMA PendingOnes ==
    /\ Pending \subseteq DOMAIN proposals /\ \A i \in Pending : proposals[i].status = "pending"
    /\ \A i \in DOMAIN proposals : proposals[i].status = "pending" => i \in Pending
    /\ \A kinds, i : i \in OfKind(kinds) <=> i \in DOMAIN proposals /\ proposals[i].kind \in kinds
BY DEF Pending, OfKind

LEMMA BegunJob ==
    ASSUME Typed, NEW c \in Caller, NEW kind, NEW j, Begin(c, kind, j), Hand(j)
    PROVE  JobStep(c)
<1>1. /\ Becomes(c, j) /\ left' = [left EXCEPT !.calls = @ - 1] /\ left.calls > 0
      /\ job[c] = Idle
      BY DEF Begin
<1>2. left' \in Left
      BY <1>1, TypedFacts DEF Left
<1>3. ~Cutting(job[c])
      BY <1>1, IdleTurn
<1>4. job' = [job EXCEPT ![c] = j]
      BY <1>1 DEF Becomes
<1> QED
    BY <1>2, <1>3, <1>4 DEF JobStep

LEMMA NextJob ==
    ASSUME Typed, NEW c \in Caller, NEW j, Becomes(c, j), Hand(j), job[c].op # "remove",
           left' = left
    PROVE  JobStep(c)
BY TypedFacts DEF JobStep, Becomes, Cutting

LEMMA SameProposals ==
    ASSUME Typed, proposals' = proposals
    PROVE  ProposalsStep
BY ProposalFacts DEF ProposalsStep

LEMMA QuietRun ==
    ASSUME Typed, NEW c \in Caller, JobStep(c), Reads, UNCHANGED dream
    PROVE  RunTurn(c)
<1>1. /\ proposals' = proposals /\ relations' = relations /\ judged' = judged
      /\ overruled' = overruled
      BY DEF dream
<1>2. ProposalsStep
      BY <1>1, SameProposals
<1>3. RunDecides /\ RunStages
      BY <1>1, ProposalFacts DEF RunDecides, RunStages
<1> QED
    BY <1>1, <1>2, <1>3 DEF RunTurn

(* A table with one more proposal                                            *)
LEMMA StagingTable ==
    ASSUME Typed, MayStage, NEW table \in Seq(ProposalRow), Len(table) = Len(proposals),
           \A i \in DOMAIN proposals :
              /\ table[i].kind = proposals[i].kind /\ table[i].sources = proposals[i].sources
              /\ table[i].slug = proposals[i].slug,
           NEW p \in ProposalRow, Staging(p), proposals' = Append(table, p)
    PROVE  /\ ProposalsStep
           /\ DOMAIN proposals' \ DOMAIN proposals = {Len(proposals) + 1}
           /\ proposals'[Len(proposals) + 1] = p
           /\ \A i \in DOMAIN proposals : proposals'[i] = table[i]
<1>1. /\ Len(proposals) \in Nat /\ DOMAIN proposals = 1..Len(proposals)
      /\ Len(proposals) < MaxProposals /\ MaxProposals \in Nat
      BY ProposalFacts DEF MayStage
<1>2. /\ proposals' \in Seq(ProposalRow) /\ Len(proposals') = Len(table) + 1
      /\ DOMAIN proposals' = 1..(Len(table) + 1) /\ DOMAIN table = 1..Len(table)
      /\ Len(table) \in Nat
      /\ \A i \in DOMAIN table : proposals'[i] = table[i]
      /\ proposals'[Len(table) + 1] = p
      BY AppendedTable
<1>3. DOMAIN proposals' \ DOMAIN proposals = {Len(proposals) + 1}
      BY <1>1, <1>2
<1>4. \A i \in DOMAIN proposals : proposals'[i] = table[i]
      BY <1>1, <1>2
<1>5. Len(proposals') <= MaxProposals /\ DOMAIN proposals \subseteq DOMAIN proposals'
      BY <1>1, <1>2
<1>6. proposals'[Len(proposals) + 1] = p
      BY <1>2
<1> QED
    BY <1>2, <1>3, <1>4, <1>5, <1>6 DEF ProposalsStep

LEMMA StagedRow ==
    ASSUME NEW kind \in ProposalKind, NEW sources \in SUBSET Memory, NEW slug \in Slug \cup {None}
    PROVE  LET p == Staged(kind, sources, slug) IN
           /\ p \in ProposalRow /\ p.kind = kind /\ p.status = "pending"
           /\ p.sources = sources /\ p.slug = slug
BY DEF Staged, ProposalRow

LEMMA StagingRun ==
    ASSUME Typed, NEW c \in Caller, JobStep(c), Reads, MayStage,
           NEW kind \in ProposalKind, NEW sources \in SUBSET Memory, NEW slug \in Slug \cup {None},
           Old(sources), kind = "product" => slug # None,
           kind = "guard" => \E l \in Memory : sources = {l},
           proposals' = Append(proposals, Staged(kind, sources, slug)),
           relations' = relations, overruled' = overruled,
           \/ judged' = judged /\ kind # "relation"
           \/ judged' = judged \cup {sources} /\ sources \notin judged
    PROVE  RunTurn(c)
<1> DEFINE p == Staged(kind, sources, slug)
<1>1. /\ p \in ProposalRow /\ p.kind = kind /\ p.status = "pending"
      /\ p.sources = sources /\ p.slug = slug
      BY StagedRow
<1> HIDE DEF p
<1>2. Staging(p)
      BY <1>1 DEF Staging, Fits, Old, Reads
<1>3. /\ ProposalsStep
      /\ DOMAIN proposals' \ DOMAIN proposals = {Len(proposals) + 1}
      /\ proposals'[Len(proposals) + 1] = p
      /\ \A i \in DOMAIN proposals : proposals'[i] = proposals[i]
      <2>1. proposals' = Append(proposals, p) /\ proposals \in Seq(ProposalRow)
            BY ProposalFacts DEF p
      <2> QED
          BY <1>1, <1>2, <2>1, StagingTable
<1>4. RunDecides
      BY <1>3 DEF RunDecides
<1>5. judged \subseteq judged' /\ judged' \subseteq SUBSET Memory
      BY ProposalFacts
<1>6. p.kind = "relation" => p.sources \in judged' \ judged
      BY <1>1
<1>7. RunStages
      BY <1>3, <1>5, <1>6 DEF RunStages
<1> QED
    BY <1>3, <1>4, <1>7 DEF RunTurn

LEMMA DreamingOf ==
    ASSUME NEW cs \in SUBSET SUBSET Memory
    PROVE  LET j == [op |-> "dream", clusters |-> cs]
           IN j \in Job /\ ~Cutting(j) /\ j.op = "dream" /\ Handled(j) \subseteq UNION cs
BY DEF Job, DreamJob, Cutting, Handled

LEMMA HealingOf ==
    ASSUME NEW cs \in SUBSET SUBSET Memory, NEW ids \in SUBSET Ids
    PROVE  LET j == [op |-> "heal", clusters |-> cs, narrower |-> ids]
           IN /\ j \in Job /\ ~Cutting(j) /\ j.op = "heal" /\ j.narrower = ids
              /\ Handled(j) \subseteq UNION cs
BY DEF Job, DreamJob, Cutting, Handled

LEMMA AwaitingOf ==
    ASSUME NEW cs \in SUBSET SUBSET Memory, NEW C \in SUBSET Memory, NEW ids \in SUBSET Ids
    PROVE  LET j == [op |-> "await", clusters |-> cs, cluster |-> C, seen |-> ids]
           IN /\ j \in Job /\ ~Cutting(j) /\ j.op = "await" /\ j.cluster = C /\ j.seen = ids
              /\ Handled(j) \subseteq C \cup UNION cs
BY DEF Job, DreamJob, Cutting, Handled

LEMMA GuardingOf ==
    ASSUME NEW lessons \in SUBSET Memory, NEW l \in Memory \cup {None}
    PROVE  LET j == Guards(lessons, l)
           IN /\ j \in Job /\ ~Cutting(j) /\ j.op \notin {"apply", "dead", "heal", "await"}
              /\ Handled(j) \subseteq (lessons \cup {l}) \cap Memory
BY IdleTurn DEF Job, DreamJob, Cutting, Handled, Guards, Idle

LEMMA StagingOf ==
    /\ \A S \in SUBSET Memory : LET j == [op |-> "mine", sources |-> S]
         IN j \in Job /\ ~Cutting(j) /\ j.op = "mine" /\ Handled(j) = S
    /\ \A slug \in Slug : LET j == [op |-> "stage", slug |-> slug]
         IN j \in Job /\ ~Cutting(j) /\ j.op = "stage" /\ Handled(j) = {}
    /\ \A pair \in SUBSET Memory : LET j == [op |-> "judge", pair |-> pair]
         IN j \in Job /\ ~Cutting(j) /\ j.op = "judge" /\ Handled(j) = pair
BY DEF Job, DreamJob, Cutting, Handled

LEMMA ReviewOf ==
    /\ \A i \in Ids, n \in Name : LET j == [op |-> "apply", id |-> i, name |-> n]
         IN j \in Job /\ ~Cutting(j) /\ j.op = "apply" /\ j.id = i /\ Handled(j) = {}
    /\ \A i \in Ids : LET j == [op |-> "dead", id |-> i]
         IN j \in Job /\ ~Cutting(j) /\ j.op = "dead" /\ j.id = i /\ Handled(j) = {}
BY DEF Job, DreamJob, Cutting, Handled

LEMMA IdleHand == Hand(Idle)
<1>1. Idle.op = "idle" /\ Idle \in Job
      BY IdleTurn DEF Idle, Job
<1> QED
    BY <1>1, IdleTurn DEF Hand, Old

(* What a call still has in hand was stored once                             *)
LEMMA DreamHandled ==
    ASSUME Typed, NEW c \in Caller, job[c].op \in {"dream", "heal", "await"}
    PROVE  /\ job[c].clusters \in SUBSET SUBSET Memory
           /\ \A C \in job[c].clusters : Old(C)
           /\ job[c].op = "await" => job[c].cluster \in SUBSET Memory /\ Old(job[c].cluster)
           /\ job[c].op = "heal" => job[c].narrower \subseteq DOMAIN proposals
<1>1. /\ job[c].clusters \in SUBSET SUBSET Memory
      /\ job[c].op = "await" => job[c].cluster \in SUBSET Memory
      BY TypedFacts, DreamingJob
<1>2. Old(Handled(job[c])) /\ (job[c].op = "heal" => job[c].narrower \subseteq DOMAIN proposals)
      BY DEF Typed, HandledOld, InHand
<1>3. \A C \in job[c].clusters : C \subseteq Handled(job[c])
      BY <1>1 DEF Handled
<1>4. job[c].op = "await" => job[c].cluster \subseteq Handled(job[c])
      BY <1>1 DEF Handled
<1> QED
    BY <1>1, <1>2, <1>3, <1>4 DEF Old

LEMMA DreamHand ==
    ASSUME NEW cs \in SUBSET SUBSET Memory, \A C \in cs : Old(C)
    PROVE  Hand([op |-> "dream", clusters |-> cs])
<1> DEFINE j == [op |-> "dream", clusters |-> cs]
<1>1. j \in Job /\ ~Cutting(j) /\ j.op = "dream" /\ Handled(j) \subseteq UNION cs
      BY DreamingOf
<1> HIDE DEF j
<1>2. Hand(j)
      BY <1>1 DEF Hand, Old
<1> QED
    BY <1>2 DEF j

LEMMA ActiveIsOld == Active \subseteq Memory /\ \A m \in Active : memory[m].status # "new"
BY DEF Active

LEMMA RunDreamerTurn ==
    ASSUME Typed, NEW c \in Caller, RunDreamer(c)
    PROVE  RunTurn(c)
<1>1. PICK cs \in SUBSET Clusters :
        Begin(c, "dream", [op |-> "dream", clusters |-> cs]) /\ Reads /\ UNCHANGED dream
      BY DEF RunDreamer
<1>2. cs \in SUBSET SUBSET Memory /\ \A C \in cs : Old(C)
      BY ActiveIsOld DEF Clusters, Compactable, Old
<1>3. Hand([op |-> "dream", clusters |-> cs])
      BY <1>2, DreamHand
<1>4. JobStep(c)
      BY <1>1, <1>3, BegunJob
<1> QED
    BY <1>1, <1>4, QuietRun

LEMMA ConsiderClusterTurn ==
    ASSUME Typed, NEW c \in Caller, ConsiderCluster(c)
    PROVE  RunTurn(c)
<1>1. job[c].op = "dream" /\ Reads /\ left' = left /\ UNCHANGED dream
      BY DEF ConsiderCluster
<1>2. PICK C \in job[c].clusters :
         LET rest == job[c].clusters \ {C}
         IN Becomes(c, IF Identical(C) # {}
                         THEN [op |-> "heal", clusters |-> rest, narrower |-> Narrower(C)]
                       ELSE IF Related(C) # Narrower(C)
                         THEN [op |-> "dream", clusters |-> rest]
                       ELSE [op |-> "await", clusters |-> rest, cluster |-> C,
                             seen |-> Related(C)])
      BY DEF ConsiderCluster
<1> DEFINE rest == job[c].clusters \ {C}
<1>3. rest \in SUBSET SUBSET Memory /\ C \in SUBSET Memory /\ Old(C) /\ \A D \in rest : Old(D)
      BY <1>1, DreamHandled
<1>4. /\ Related(C) \subseteq DOMAIN proposals /\ Narrower(C) \subseteq DOMAIN proposals
      /\ \A i \in Related(C) : /\ i \in OfKind({"digest", "guard", "product"})
                               /\ proposals[i].sources \cap C # {}
      /\ \A i \in Narrower(C) : proposals[i].sources \subseteq C /\ proposals[i].sources # C
      BY PendingOnes DEF Related, Narrower, Comparable
<1>5. DOMAIN proposals \subseteq Ids
      BY ProposalFacts
<1> HIDE DEF rest
<1>6. Hand([op |-> "dream", clusters |-> rest])
      BY <1>3, DreamHand
<1>7. Hand([op |-> "heal", clusters |-> rest, narrower |-> Narrower(C)])
      <2> DEFINE j == [op |-> "heal", clusters |-> rest, narrower |-> Narrower(C)]
      <2>1. /\ j \in Job /\ ~Cutting(j) /\ j.op = "heal" /\ j.narrower = Narrower(C)
            /\ Handled(j) \subseteq UNION rest
            BY <1>3, <1>4, <1>5, HealingOf
      <2> HIDE DEF j
      <2>2. Hand(j)
            BY <1>3, <1>4, <2>1 DEF Hand, Old
      <2> QED
          BY <2>2 DEF j
<1>8. ASSUME Related(C) = Narrower(C)
      PROVE  Hand([op |-> "await", clusters |-> rest, cluster |-> C, seen |-> Related(C)])
      <2> DEFINE j == [op |-> "await", clusters |-> rest, cluster |-> C, seen |-> Related(C)]
      <2>1. /\ j \in Job /\ ~Cutting(j) /\ j.op = "await" /\ j.cluster = C /\ j.seen = Related(C)
            /\ Handled(j) \subseteq C \cup UNION rest
            BY <1>3, <1>4, <1>5, AwaitingOf
      <2> HIDE DEF j
      <2>2. Hand(j)
            BY <1>3, <1>4, <1>8, <2>1 DEF Hand, Old
      <2> QED
          BY <2>2 DEF j
<1>9. PICK j : Becomes(c, j) /\ Hand(j)
      BY <1>2, <1>6, <1>7, <1>8 DEF rest
<1>10. JobStep(c)
      BY <1>1, <1>9, NextJob
<1> QED
    BY <1>1, <1>10, QuietRun

LEMMA HealOverlapTurn ==
    ASSUME Typed, NEW c \in Caller, HealOverlap(c)
    PROVE  RunTurn(c)
<1> DEFINE ids == job[c].narrower
<1>1. /\ job[c].op = "heal" /\ proposals' = Decided(proposals, ids, "rejected")
      /\ overruled' = overruled \cup (ids \ Pending)
      /\ Becomes(c, [op |-> "dream", clusters |-> job[c].clusters])
      /\ Reads /\ left' = left /\ relations' = relations /\ judged' = judged
      BY DEF HealOverlap
<1>2. /\ job[c].clusters \in SUBSET SUBSET Memory /\ \A C \in job[c].clusters : Old(C)
      /\ ids \subseteq DOMAIN proposals
      BY <1>1, DreamHandled
<1>3. Hand([op |-> "dream", clusters |-> job[c].clusters])
      BY <1>2, DreamHand
<1>4. JobStep(c)
      BY <1>1, <1>3, NextJob
<1> HIDE DEF ids
<1>5. /\ proposals' \in Seq(ProposalRow) /\ Len(proposals') = Len(proposals)
      /\ DOMAIN proposals' = DOMAIN proposals
      /\ \A i \in DOMAIN proposals :
            /\ proposals'[i].kind = proposals[i].kind
            /\ proposals'[i].sources = proposals[i].sources
            /\ proposals'[i].slug = proposals[i].slug
            /\ i \in ids => proposals'[i].status = "rejected"
            /\ i \notin ids => proposals'[i] = proposals[i]
      BY <1>1, ProposalFacts, DecidedTable
<1>6. ProposalsStep
      BY <1>5, ProposalFacts DEF ProposalsStep
<1>7. RunDecides
      BY <1>1, <1>2, <1>5 DEF RunDecides
<1>8. RunStages
      BY <1>1, <1>5, ProposalFacts DEF RunStages
<1> QED
    BY <1>1, <1>4, <1>6, <1>7, <1>8 DEF RunTurn

LEMMA ModelDeclinesTurn ==
    ASSUME Typed, NEW c \in Caller, ModelDeclines(c)
    PROVE  RunTurn(c)
<1>1. /\ job[c].op = "await" /\ Becomes(c, [op |-> "dream", clusters |-> job[c].clusters])
      /\ Reads /\ left' = left /\ UNCHANGED dream
      BY DEF ModelDeclines
<1>2. Hand([op |-> "dream", clusters |-> job[c].clusters])
      BY <1>1, DreamHandled, DreamHand
<1>3. JobStep(c)
      BY <1>1, <1>2, NextJob
<1> QED
    BY <1>1, <1>3, QuietRun

(* What writeProposal makes of the table                                     *)
LEMMA WriteProposalFacts ==
    ASSUME Typed, NEW c \in Caller, WriteProposal(c)
    PROVE  /\ job[c].op = "await" /\ Reads /\ left' = left
           /\ relations' = relations /\ judged' = judged /\ overruled' = overruled
           /\ job' = [job EXCEPT ![c] = [op |-> "dream", clusters |-> job[c].clusters]]
           /\ JobStep(c) /\ ProposalsStep
           /\ DOMAIN proposals' \ DOMAIN proposals = {Len(proposals) + 1}
           /\ proposals'[Len(proposals) + 1].kind = "digest"
           /\ \A i \in DOMAIN proposals :
                 IF i \in Narrower(job[c].cluster) THEN proposals'[i].status = "rejected"
                 ELSE proposals'[i] = proposals[i]
<1> DEFINE C == job[c].cluster
           table == Decided(proposals, Narrower(C), "rejected")
<1>1. PICK slug \in Slug :
        /\ MayStage /\ proposals' = Append(table, Staged("digest", C, slug))
        /\ job[c].op = "await" /\ Becomes(c, [op |-> "dream", clusters |-> job[c].clusters])
        /\ Reads /\ left' = left
        /\ relations' = relations /\ judged' = judged /\ overruled' = overruled
      BY DEF WriteProposal
<1>2. Hand([op |-> "dream", clusters |-> job[c].clusters])
      BY <1>1, DreamHandled, DreamHand
<1>3. JobStep(c)
      BY <1>1, <1>2, NextJob
<1>4. C \in SUBSET Memory /\ Old(C)
      BY <1>1, DreamHandled
<1> DEFINE p == Staged("digest", C, slug)
<1>5. /\ p \in ProposalRow /\ p.kind = "digest" /\ p.status = "pending" /\ p.sources = C
      BY <1>4, StagedRow DEF ProposalKind
<1>6. /\ table \in Seq(ProposalRow) /\ Len(table) = Len(proposals)
      /\ \A i \in DOMAIN proposals :
            /\ table[i].kind = proposals[i].kind /\ table[i].sources = proposals[i].sources
            /\ table[i].slug = proposals[i].slug
            /\ i \in Narrower(C) => table[i].status = "rejected"
            /\ i \notin Narrower(C) => table[i] = proposals[i]
      BY ProposalFacts, DecidedTable
<1> HIDE DEF p
<1>7. Staging(p)
      BY <1>1, <1>4, <1>5 DEF Staging, Fits, Old, Reads
<1>8. proposals' = Append(table, p)
      BY <1>1 DEF p
<1> HIDE DEF table, C
<1>9. /\ ProposalsStep
      /\ DOMAIN proposals' \ DOMAIN proposals = {Len(proposals) + 1}
      /\ proposals'[Len(proposals) + 1] = p
      /\ \A i \in DOMAIN proposals : proposals'[i] = table[i]
      BY <1>1, <1>5, <1>6, <1>7, <1>8, StagingTable
<1> QED
    BY <1>1, <1>3, <1>5, <1>6, <1>9 DEF Becomes, C

LEMMA WriteProposalTurn ==
    ASSUME Typed, NEW c \in Caller, WriteProposal(c)
    PROVE  RunTurn(c)
<1>1. /\ Reads /\ relations' = relations /\ judged' = judged /\ overruled' = overruled
      /\ JobStep(c) /\ ProposalsStep
      /\ DOMAIN proposals' \ DOMAIN proposals = {Len(proposals) + 1}
      /\ proposals'[Len(proposals) + 1].kind = "digest"
      /\ \A i \in DOMAIN proposals :
            IF i \in Narrower(job[c].cluster) THEN proposals'[i].status = "rejected"
            ELSE proposals'[i] = proposals[i]
      BY WriteProposalFacts
<1>2. Narrower(job[c].cluster) \subseteq Pending
      BY DEF Narrower, Related, Comparable
<1>3. RunDecides
      BY <1>1, <1>2 DEF RunDecides
<1>4. RunStages
      BY <1>1, ProposalFacts DEF RunStages
<1> QED
    BY <1>1, <1>3, <1>4 DEF RunTurn

LEMMA GuardsHand ==
    ASSUME Typed, NEW lessons \in SUBSET Memory, NEW l \in Memory \cup {None},
           \A m \in Memory : m \in lessons \/ m = l => memory[m].status # "new"
    PROVE  Hand(Guards(lessons, l))
<1> DEFINE j == Guards(lessons, l)
<1>1. /\ j \in Job /\ ~Cutting(j) /\ j.op \notin {"apply", "dead", "heal", "await"}
      /\ Handled(j) \subseteq (lessons \cup {l}) \cap Memory
      BY GuardingOf
<1> HIDE DEF j
<1>2. Hand(j)
      BY <1>1 DEF Hand, Old
<1> QED
    BY <1>2 DEF j

LEMMA GuardsHandled ==
    ASSUME Typed, NEW c \in Caller, job[c].op = "guards"
    PROVE  /\ job[c].lessons \in SUBSET Memory /\ job[c].lesson \in Memory \cup {None}
           /\ \A m \in Memory : m \in job[c].lessons \/ m = job[c].lesson => memory[m].status # "new"
<1>1. job[c].lessons \in SUBSET Memory /\ job[c].lesson \in Memory \cup {None}
      BY TypedFacts, GuardsJob
<1>2. Old(Handled(job[c]))
      BY DEF Typed, HandledOld
<1> QED
    BY <1>1, <1>2 DEF Old, Handled

LEMMA ProposeGuardsTurn ==
    ASSUME Typed, NEW c \in Caller, ProposeGuards(c)
    PROVE  RunTurn(c)
<1>1. /\ job[c].op = "dream" /\ Becomes(c, Guards(Unguarded, None))
      /\ Reads /\ left' = left /\ UNCHANGED dream
      BY DEF ProposeGuards
<1>2. Unguarded \in SUBSET Memory /\ \A m \in Unguarded : memory[m].status # "new"
      BY ActiveIsOld DEF Unguarded
<1>3. Hand(Guards(Unguarded, None))
      BY <1>2, NamesAssumption, GuardsHand
<1>4. JobStep(c)
      BY <1>1, <1>3, NextJob
<1> QED
    BY <1>1, <1>4, QuietRun

LEMMA AskForGuardTurn ==
    ASSUME Typed, NEW c \in Caller, AskForGuard(c)
    PROVE  RunTurn(c)
<1>1. /\ job[c].op = "guards" /\ job[c].lesson = None
      /\ Reads /\ left' = left /\ UNCHANGED dream
      BY DEF AskForGuard
<1>2. PICK l \in job[c].lessons : Becomes(c, Guards(job[c].lessons \ {l}, l))
      BY DEF AskForGuard
<1>3. Hand(Guards(job[c].lessons \ {l}, l))
      <2>1. /\ job[c].lessons \in SUBSET Memory
            /\ \A m \in Memory : m \in job[c].lessons => memory[m].status # "new"
            BY <1>1, GuardsHandled
      <2>2. job[c].lessons \ {l} \in SUBSET Memory /\ l \in Memory \cup {None}
            /\ \A m \in Memory : m \in job[c].lessons \ {l} \/ m = l => memory[m].status # "new"
            BY <1>2, <2>1
      <2> QED
          BY <2>2, GuardsHand
<1>4. JobStep(c)
      BY <1>1, <1>2, <1>3, NextJob
<1> QED
    BY <1>1, <1>4, QuietRun

LEMMA GuardAnswerTurn ==
    ASSUME Typed, NEW c \in Caller, GuardAnswer(c)
    PROVE  RunTurn(c)
<1> DEFINE l == job[c].lesson
<1>1. /\ job[c].op = "guards" /\ l # None /\ Becomes(c, Guards(job[c].lessons, None))
      /\ \/ proposals' = proposals
         \/ MayStage /\ proposals' = Append(proposals, Staged("guard", {l}, None))
      /\ Reads /\ left' = left
      /\ relations' = relations /\ judged' = judged /\ overruled' = overruled
      BY DEF GuardAnswer
<1>2. /\ job[c].lessons \in SUBSET Memory /\ l \in Memory
      /\ \A m \in Memory : m \in job[c].lessons \/ m = l => memory[m].status # "new"
      BY <1>1, GuardsHandled
<1>3. Hand(Guards(job[c].lessons, None))
      BY <1>2, NamesAssumption, GuardsHand
<1>4. JobStep(c)
      BY <1>1, <1>3, NextJob
<1> HIDE DEF l
<1>5. CASE proposals' = proposals
      BY <1>1, <1>4, <1>5, QuietRun DEF dream
<1>6. CASE MayStage /\ proposals' = Append(proposals, Staged("guard", {l}, None))
      <2>1. /\ {l} \in SUBSET Memory /\ Old({l}) /\ \E m \in Memory : {l} = {m}
            /\ "guard" \in ProposalKind /\ "guard" # "relation" /\ "guard" # "product"
            BY <1>2 DEF Old, ProposalKind
      <2> QED
          BY <1>1, <1>4, <1>6, <2>1, StagingRun
<1> QED
    BY <1>1, <1>5, <1>6

LEMMA StagingHand ==
    /\ \A S \in SUBSET Memory : Old(S) => Hand([op |-> "mine", sources |-> S])
    /\ \A slug \in Slug : Hand([op |-> "stage", slug |-> slug])
    /\ \A S \in SUBSET Memory : Old(S) => Hand([op |-> "judge", pair |-> S])
<1>1. ASSUME NEW j, j \in Job, ~Cutting(j), j.op \in {"mine", "stage", "judge"}, Old(Handled(j))
      PROVE  Hand(j)
      BY <1>1 DEF Hand
<1>2. ASSUME NEW S \in SUBSET Memory, Old(S) PROVE Hand([op |-> "mine", sources |-> S])
      <2> DEFINE j == [op |-> "mine", sources |-> S]
      <2>1. j \in Job /\ ~Cutting(j) /\ j.op = "mine" /\ Handled(j) = S
            BY StagingOf
      <2> HIDE DEF j
      <2>2. Hand(j)
            BY <1>1, <1>2, <2>1
      <2> QED
          BY <2>2 DEF j
<1>3. ASSUME NEW slug \in Slug PROVE Hand([op |-> "stage", slug |-> slug])
      <2> DEFINE j == [op |-> "stage", slug |-> slug]
      <2>1. j \in Job /\ ~Cutting(j) /\ j.op = "stage" /\ Handled(j) = {}
            BY StagingOf
      <2> HIDE DEF j
      <2>2. Hand(j)
            BY <1>1, <2>1 DEF Old
      <2> QED
          BY <2>2 DEF j
<1>4. ASSUME NEW S \in SUBSET Memory, Old(S) PROVE Hand([op |-> "judge", pair |-> S])
      <2> DEFINE j == [op |-> "judge", pair |-> S]
      <2>1. j \in Job /\ ~Cutting(j) /\ j.op = "judge" /\ Handled(j) = S
            BY StagingOf
      <2> HIDE DEF j
      <2>2. Hand(j)
            BY <1>1, <1>4, <2>1
      <2> QED
          BY <2>2 DEF j
<1> QED
    BY <1>2, <1>3, <1>4

LEMMA RunPatternDetectorTurn ==
    ASSUME Typed, NEW c \in Caller, RunPatternDetector(c)
    PROVE  RunTurn(c)
<1>1. PICK S \in SUBSET {m \in Active : memory[m].metadata.compacted_into = None} :
        Begin(c, "pattern", [op |-> "mine", sources |-> S]) /\ Reads /\ UNCHANGED dream
      BY DEF RunPatternDetector
<1>2. S \in SUBSET Memory /\ Old(S)
      BY ActiveIsOld DEF Old
<1>3. Hand([op |-> "mine", sources |-> S])
      BY <1>2, StagingHand
<1>4. JobStep(c)
      BY <1>1, <1>3, BegunJob
<1> QED
    BY <1>1, <1>4, QuietRun

LEMMA WritePatternProposalTurn ==
    ASSUME Typed, NEW c \in Caller, WritePatternProposal(c)
    PROVE  RunTurn(c)
<1> DEFINE S == job[c].sources
<1>1. PICK slug \in Slug :
        /\ job[c].op = "mine" /\ MayStage
        /\ proposals' = Append(proposals, Staged("pattern", S, slug))
        /\ Becomes(c, Idle) /\ Reads /\ left' = left
        /\ relations' = relations /\ judged' = judged /\ overruled' = overruled
      BY DEF WritePatternProposal
<1>2. S \in SUBSET Memory /\ Old(S)
      <2>1. S \in SUBSET Memory
            BY <1>1, TypedFacts, StagingJob
      <2>2. Old(Handled(job[c]))
            BY DEF Typed, HandledOld
      <2> QED
          BY <1>1, <2>1, <2>2 DEF Old, Handled
<1>3. JobStep(c)
      BY <1>1, IdleHand, NextJob
<1>4. /\ "pattern" \in ProposalKind /\ "pattern" \notin {"product", "guard", "relation"}
      /\ slug \in Slug \cup {None}
      BY DEF ProposalKind
<1> HIDE DEF S
<1> QED
    BY <1>1, <1>2, <1>3, <1>4, StagingRun

LEMMA StageTranscriptTurn ==
    ASSUME Typed, NEW c \in Caller, StageTranscript(c)
    PROVE  RunTurn(c)
<1>1. PICK slug \in Slug :
        Begin(c, "transcript", [op |-> "stage", slug |-> slug]) /\ Reads /\ UNCHANGED dream
      BY DEF StageTranscript
<1>2. Hand([op |-> "stage", slug |-> slug])
      BY StagingHand
<1>3. JobStep(c)
      BY <1>1, <1>2, BegunJob
<1> QED
    BY <1>1, <1>3, QuietRun

LEMMA InsertTranscriptTurn ==
    ASSUME Typed, NEW c \in Caller, InsertTranscript(c)
    PROVE  RunTurn(c)
<1> DEFINE slug == job[c].slug
<1>1. /\ job[c].op = "stage" /\ MayStage
      /\ proposals' = Append(proposals, Staged("transcript", {}, slug))
      /\ Becomes(c, Idle) /\ Reads /\ left' = left
      /\ relations' = relations /\ judged' = judged /\ overruled' = overruled
      BY DEF InsertTranscript
<1>2. slug \in Slug \cup {None}
      BY <1>1, TypedFacts, StagingJob
<1>3. JobStep(c)
      BY <1>1, IdleHand, NextJob
<1>4. /\ "transcript" \in ProposalKind /\ "transcript" \notin {"product", "guard", "relation"}
      /\ {} \in SUBSET Memory /\ Old({})
      BY DEF ProposalKind, Old
<1> HIDE DEF slug
<1> QED
    BY <1>1, <1>2, <1>3, <1>4, StagingRun

LEMMA StageProductImprovementTurn ==
    ASSUME Typed, NEW c \in Caller, StageProductImprovement(c)
    PROVE  RunTurn(c)
<1>1. PICK slug \in Slug, S \in SUBSET Active :
        /\ MayStage /\ proposals' = Append(proposals, Staged("product", S, slug))
        /\ Begin(c, "product", Idle) /\ Reads
        /\ relations' = relations /\ judged' = judged /\ overruled' = overruled
      BY DEF StageProductImprovement
<1>2. S \in SUBSET Memory /\ Old(S)
      BY ActiveIsOld DEF Old
<1>3. JobStep(c)
      BY <1>1, IdleHand, BegunJob
<1>4. /\ "product" \in ProposalKind /\ "product" \notin {"guard", "relation"}
      /\ slug \in Slug \cup {None} /\ slug # None
      BY NamesAssumption DEF ProposalKind
<1> QED
    BY <1>1, <1>2, <1>3, <1>4, StagingRun

LEMMA JudgePairTurn ==
    ASSUME Typed, NEW c \in Caller, JudgePair(c)
    PROVE  RunTurn(c)
<1>1. PICK pair \in SUBSET {m \in Active : memory[m].type \in {"note", "lesson_learned"}} :
        Begin(c, "judge", [op |-> "judge", pair |-> pair]) /\ Reads /\ UNCHANGED dream
      BY DEF JudgePair
<1>2. pair \in SUBSET Memory /\ Old(pair)
      BY ActiveIsOld DEF Old
<1>3. Hand([op |-> "judge", pair |-> pair])
      BY <1>2, StagingHand
<1>4. JobStep(c)
      BY <1>1, <1>3, BegunJob
<1> QED
    BY <1>1, <1>4, QuietRun

LEMMA RecordVerdictTurn ==
    ASSUME Typed, NEW c \in Caller, RecordVerdict(c)
    PROVE  RunTurn(c)
<1> DEFINE pair == job[c].pair
<1>1. /\ job[c].op = "judge" /\ Becomes(c, Idle) /\ Reads /\ left' = left
      /\ relations' = relations /\ overruled' = overruled
      /\ \/ proposals' = proposals /\ judged' = judged
         \/ /\ pair \notin judged /\ judged' = judged \cup {pair}
            /\ \/ proposals' = proposals
               \/ MayStage /\ proposals' = Append(proposals, Staged("relation", pair, None))
      BY DEF RecordVerdict
<1>2. pair \in SUBSET Memory /\ Old(pair)
      <2>1. pair \in SUBSET Memory
            BY <1>1, TypedFacts, StagingJob
      <2>2. Old(Handled(job[c]))
            BY DEF Typed, HandledOld
      <2> QED
          BY <1>1, <2>1, <2>2 DEF Old, Handled
<1>3. JobStep(c)
      BY <1>1, IdleHand, NextJob
<1> HIDE DEF pair
<1>4. CASE proposals' = proposals
      <2>1. ProposalsStep
            BY <1>4, SameProposals
      <2>2. RunDecides
            BY <1>1, <1>4 DEF RunDecides
      <2>3. judged \subseteq judged' /\ judged' \subseteq SUBSET Memory
            BY <1>1, <1>2, ProposalFacts
      <2>4. RunStages
            BY <1>4, <2>3 DEF RunStages
      <2> QED
          BY <1>1, <1>3, <2>1, <2>2, <2>4 DEF RunTurn
<1>5. CASE proposals' # proposals
      <2>1. /\ MayStage /\ proposals' = Append(proposals, Staged("relation", pair, None))
            /\ pair \notin judged /\ judged' = judged \cup {pair}
            BY <1>1, <1>5
      <2>2. /\ "relation" \in ProposalKind /\ "relation" \notin {"product", "guard"}
            /\ None \in Slug \cup {None}
            BY DEF ProposalKind
      <2> QED
          BY <1>1, <1>2, <1>3, <2>1, <2>2, StagingRun
<1> QED
    BY <1>4, <1>5

LEMMA RunStepFacts ==
    ASSUME Typed, RunStep
    PROVE  \E c \in Caller : RunTurn(c)
<1>1. PICK c \in Caller :
        \/ RunDreamer(c) \/ ConsiderCluster(c) \/ HealOverlap(c)
        \/ ModelDeclines(c) \/ WriteProposal(c)
        \/ ProposeGuards(c) \/ AskForGuard(c) \/ GuardAnswer(c)
        \/ RunPatternDetector(c) \/ WritePatternProposal(c)
        \/ StageTranscript(c) \/ InsertTranscript(c)
        \/ StageProductImprovement(c) \/ JudgePair(c) \/ RecordVerdict(c)
      BY DEF RunStep
<1> QED
    BY <1>1, RunDreamerTurn, ConsiderClusterTurn, HealOverlapTurn, ModelDeclinesTurn,
       WriteProposalTurn, ProposeGuardsTurn, AskForGuardTurn, GuardAnswerTurn,
       RunPatternDetectorTurn, WritePatternProposalTurn, StageTranscriptTurn,
       InsertTranscriptTurn, StageProductImprovementTurn, JudgePairTurn, RecordVerdictTurn

-----------------------------------------------------------------------------
(* Every step keeps the types                                                *)
LEMMA TypedStep ==
    ASSUME Typed, NEW c \in Caller, NEW j \in Job, job' = [job EXCEPT ![c] = j],
           \A m \in Handled(j) : memory'[m].status # "new",
           j.op \in {"apply", "dead"} => j.id \in DOMAIN proposals,
           j.op = "heal" => j.narrower \subseteq DOMAIN proposals,
           left' \in Left, RowsStep, ProposalsStep,
           drifted' \subseteq Memory, torn' \subseteq Memory, clobbered' \subseteq Memory,
           relations' \subseteq Memory \X Memory, judged' \subseteq SUBSET Memory,
           overruled' \subseteq Ids
    PROVE  Typed'
<1>1. /\ job' \in [Caller -> Job] /\ job'[c] = j
      /\ \A d \in Caller \ {c} : job'[d] = job[d]
      BY TypedFacts
<1>2. /\ memory' \in [Memory -> Row] /\ StoredNamed(memory') /\ UniqueNames(memory')
      /\ \A m \in Memory : memory'[m].status = "new" => memory[m].status = "new"
      BY DEF RowsStep
<1>3. /\ proposals' \in Seq(ProposalRow) /\ Len(proposals') <= MaxProposals
      /\ DOMAIN proposals \subseteq DOMAIN proposals'
      /\ \A i \in DOMAIN proposals :
            /\ proposals'[i].kind = proposals[i].kind
            /\ proposals'[i].sources = proposals[i].sources
            /\ proposals'[i].slug = proposals[i].slug
      /\ \A i \in DOMAIN proposals' \ DOMAIN proposals : Staging(proposals'[i])
      BY DEF ProposalsStep
<1>4. TypeOK'
      BY <1>1, <1>2, <1>3 DEF TypeOK
<1>5. StoredNamed(memory)' /\ UniqueNames(memory)'
      BY <1>2
<1>6. \A i \in DOMAIN proposals' :
        Fits(proposals'[i]) /\ \A m \in proposals'[i].sources : memory'[m].status # "new"
      <2> SUFFICES ASSUME NEW i \in DOMAIN proposals'
                   PROVE  /\ Fits(proposals'[i])
                          /\ \A m \in proposals'[i].sources : memory'[m].status # "new"
          OBVIOUS
      <2>1. CASE i \in DOMAIN proposals
            <3>1. /\ Fits(proposals[i]) /\ proposals[i].sources \in SUBSET Memory
                  /\ \A m \in proposals[i].sources : memory[m].status # "new"
                  BY <2>1, ProposalFacts
            <3>2. /\ proposals'[i].kind = proposals[i].kind
                  /\ proposals'[i].sources = proposals[i].sources
                  /\ proposals'[i].slug = proposals[i].slug
                  BY <1>3, <2>1
            <3> QED
                BY <1>2, <3>1, <3>2 DEF Fits
      <2>2. CASE i \notin DOMAIN proposals
            BY <1>3, <2>2 DEF Staging
      <2> QED
          BY <2>1, <2>2
<1>7. ProposalShapes' /\ SourcesOld'
      BY <1>6 DEF ProposalShapes, SourcesOld, Old, Fits
<1>8. InHand'
      <2> SUFFICES ASSUME NEW d \in Caller
                   PROVE  /\ job'[d].op \in {"apply", "dead"} => job'[d].id \in DOMAIN proposals'
                          /\ job'[d].op = "heal" => job'[d].narrower \subseteq DOMAIN proposals'
          BY DEF InHand
      <2>1. /\ job[d].op \in {"apply", "dead"} => job[d].id \in DOMAIN proposals
            /\ job[d].op = "heal" => job[d].narrower \subseteq DOMAIN proposals
            BY DEF Typed, InHand
      <2>2. CASE d = c
            BY <1>1, <1>3, <2>2
      <2>3. CASE d # c
            BY <1>1, <1>3, <2>1, <2>3
      <2> QED
          BY <2>2, <2>3
<1>9. HandledOld'
      <2> SUFFICES ASSUME NEW d \in Caller, NEW m \in Handled(job'[d])
                   PROVE  memory'[m].status # "new"
          BY DEF HandledOld, Old
      <2>1. CASE d = c
            BY <1>1, <2>1
      <2>2. CASE d # c
            <3>1. m \in Handled(job[d]) /\ job'[d] = job[d]
                  BY <1>1, <2>2
            <3>2. m \in Memory
                  BY DEF Handled
            <3>3. memory[m].status # "new"
                  BY <3>1 DEF Typed, HandledOld, Old
            <3> QED
                BY <1>2, <3>2, <3>3
      <2> QED
          BY <2>1, <2>2
<1> QED
    BY <1>4, <1>5, <1>7, <1>8, <1>9 DEF Typed

LEMMA GraphTyped ==
    ASSUME Typed, NEW c \in Caller, GraphTurn(c), relations' \subseteq relations,
           proposals' = proposals, judged' = judged, overruled' = overruled
    PROVE  Typed'
<1>1. PICK j \in GraphJob : Turn(c, j)
      BY DEF GraphTurn
<1>2. j \in Job /\ j.op \notin {"apply", "dead", "heal"}
      BY DEF Job, GraphJob, Idle
<1>3. ProposalsStep
      BY SameProposals
<1>4. /\ relations' \subseteq Memory \X Memory /\ judged' \subseteq SUBSET Memory
      /\ overruled' \subseteq Ids
      BY ProposalFacts
<1> QED
    BY <1>1, <1>2, <1>3, <1>4, TypedStep DEF Turn, GraphTurn

LEMMA DreamTyped ==
    ASSUME Typed, NEW c \in Caller, JobStep(c), RowsStep, ProposalsStep,
           drifted' \subseteq Memory, torn' \subseteq Memory, clobbered' \subseteq Memory,
           relations' \subseteq Memory \X Memory, judged' \subseteq SUBSET Memory,
           overruled' \subseteq Ids
    PROVE  Typed'
<1>1. PICK j : Hand(j) /\ job' = [job EXCEPT ![c] = j]
      BY DEF JobStep
<1>2. /\ j \in Job /\ Old(Handled(j)) /\ left' \in Left
      /\ j.op \in {"apply", "dead"} => j.id \in DOMAIN proposals
      /\ j.op = "heal" => j.narrower \subseteq DOMAIN proposals
      BY <1>1 DEF Hand, JobStep
<1>3. \A m \in Handled(j) : memory'[m].status # "new"
      BY <1>2 DEF Old, RowsStep, Handled
<1> QED
    BY <1>1, <1>2, <1>3, TypedStep

LEMMA RunTyped ==
    ASSUME Typed, NEW c \in Caller, RunTurn(c)
    PROVE  Typed'
<1>1. /\ Reads /\ JobStep(c) /\ ProposalsStep /\ relations' = relations
      /\ judged' \subseteq SUBSET Memory /\ overruled' \subseteq overruled \cup DOMAIN proposals
      BY DEF RunTurn, RunDecides, RunStages
<1>2. /\ RowsStep
      /\ drifted' \subseteq Memory /\ torn' \subseteq Memory /\ clobbered' \subseteq Memory
      BY <1>1, ReadsStep
<1>3. relations' \subseteq Memory \X Memory /\ overruled' \subseteq Ids
      BY <1>1, ProposalFacts
<1> QED
    BY <1>1, <1>2, <1>3, DreamTyped

(* A step of a run or of a review is not part of a removal                   *)
LEMMA DreamIndex ==
    ASSUME Typed, IndexInv, FoundInv, NEW c \in Caller, JobStep(c), IndexStep
    PROVE  IndexInv' /\ FoundInv'
<1>1. PICK j : Hand(j) /\ job' = [job EXCEPT ![c] = j]
      BY DEF JobStep
<1>2. job'[c] = j /\ ~Cutting(j) /\ ~Cutting(job[c])
      BY <1>1, TypedFacts DEF Hand, JobStep
<1>3. IndexTurn(c)
      BY <1>2 DEF IndexTurn
<1> QED
    BY <1>1, <1>3, IndexKept

-----------------------------------------------------------------------------
(* Reviews: what a step of one does. It decides on one proposal at most, and *)
(* marks one memory at most as its effect                                    *)
SameTrace(r, s) ==
    s.metadata.proposal_id = r.metadata.proposal_id /\ s.metadata.guard = r.metadata.guard
Marks(m, i) ==
    \/ /\ memory'[m].metadata.proposal_id = i /\ memory'[m].metadata.guard = None
       /\ proposals[i].kind # "guard"
    \/ /\ memory'[m].metadata.guard = i
       /\ memory'[m].metadata.proposal_id = memory[m].metadata.proposal_id
       /\ proposals[i].kind = "guard" /\ m \in proposals[i].sources
Decides(i) ==
    /\ i \in DOMAIN proposals /\ DOMAIN proposals' = DOMAIN proposals
    /\ \A k \in DOMAIN proposals \ {i} : proposals'[k].status = proposals[k].status
    /\ \/ proposals'[i].status = proposals[i].status
       \/ i \in Pending
       \/ proposals[i].kind = "transcript" /\ proposals'[i].status = "applied"
Gains(i) ==
    \A m \in Memory :
        \/ SameTrace(memory[m], memory'[m])
        \/ /\ Marks(m, i)
           /\ proposals'[i].status = "applied"
           /\ i \in Pending \/ proposals[i].kind = "transcript"
           /\ \A k \in Memory : SameTrace(memory[k], memory'[k]) \/ k = m
(* ... and the digest it makes takes the sources that no other took          *)
Takes ==
    \E d \in Memory, taken \in SUBSET Memory :
        /\ relations' = relations \cup {<<d, s>> : s \in taken}
        /\ \A s \in taken : /\ memory[s].status # "new"
                            /\ memory[s].metadata.compacted_into = None
                            /\ memory'[s].metadata.compacted_into = d
        /\ \A m \in Memory \ taken :
              memory[m].status # "new" =>
                memory'[m].metadata.compacted_into = memory[m].metadata.compacted_into
TakesNone ==
    /\ relations' = relations
    /\ \A m \in Memory :
          memory[m].status # "new" =>
            memory'[m].metadata.compacted_into = memory[m].metadata.compacted_into
ReviewTurn(c) ==
    /\ JobStep(c) /\ job[c].op # "await"
    /\ RowsStep /\ IndexStep /\ ProposalsStep
    /\ drifted' \subseteq Memory /\ torn' = torn /\ clobbered' = clobbered
    /\ judged' = judged /\ overruled' = overruled
    /\ \E i : Decides(i) /\ Gains(i)
    /\ Takes \/ TakesNone

LEMMA StillReview ==
    ASSUME Typed, NEW c \in Caller, JobStep(c), job[c].op # "await", Reads,
           relations' = relations, judged' = judged, overruled' = overruled,
           ProposalsStep, NEW i, Decides(i)
    PROVE  ReviewTurn(c)
<1>1. memory' = memory /\ torn' = torn /\ clobbered' = clobbered
      BY DEF Reads
<1>2. RowsStep /\ IndexStep /\ drifted' \subseteq Memory
      BY ReadsStep
<1>3. Gains(i) /\ TakesNone
      BY <1>1 DEF Gains, SameTrace, TakesNone
<1> QED
    BY <1>1, <1>2, <1>3 DEF ReviewTurn

LEMMA UndecidedReview ==
    ASSUME Typed, NEW c \in Caller, JobStep(c), job[c].op # "await", Reads,
           UNCHANGED dream, NEW i \in DOMAIN proposals
    PROVE  ReviewTurn(c)
<1>1. /\ proposals' = proposals /\ relations' = relations /\ judged' = judged
      /\ overruled' = overruled
      BY DEF dream
<1>2. ProposalsStep /\ Decides(i)
      BY <1>1, SameProposals DEF Decides
<1> QED
    BY <1>1, <1>2, StillReview

(* A decision on one proposal                                                *)
LEMMA DecidedStep ==
    ASSUME Typed, NEW i \in DOMAIN proposals, NEW ids \in SUBSET {i},
           NEW status \in {"applied", "rejected"},
           proposals' = Decided(proposals, ids, status)
    PROVE  /\ ProposalsStep /\ DOMAIN proposals' = DOMAIN proposals
           /\ \A k \in DOMAIN proposals \ ids : proposals'[k].status = proposals[k].status
           /\ \A k \in ids : proposals'[k].status = status
<1>1. /\ proposals' \in Seq(ProposalRow) /\ Len(proposals') = Len(proposals)
      /\ DOMAIN proposals' = DOMAIN proposals
      /\ \A k \in DOMAIN proposals :
            /\ proposals'[k].kind = proposals[k].kind
            /\ proposals'[k].sources = proposals[k].sources
            /\ proposals'[k].slug = proposals[k].slug
            /\ k \in ids => proposals'[k].status = status
            /\ k \notin ids => proposals'[k] = proposals[k]
      BY ProposalFacts, DecidedTable
<1>2. ProposalsStep
      BY <1>1, ProposalFacts DEF ProposalsStep
<1> QED
    BY <1>1, <1>2

LEMMA NameOfProposal ==
    ASSUME Typed, NEW i \in DOMAIN proposals
    PROVE  NameOf(i) \in Name
<1> DEFINE p == proposals[i]
<1>1. /\ i \in 1..MaxProposals /\ MaxProposals \in Nat
      /\ p.slug \in Slug \cup {None}
      /\ p.kind = "product" => p.slug # None
      BY ProposalFacts DEF Ids, Fits
<1>2. /\ \A slug \in Slug, n \in 0..MaxProposals : Suffixed(slug, n) \in Name
      /\ \A slug \in Slug : Bare(slug) \in Name
      BY <1>1, NamesAssumption DEF Suffixed, Bare
<1>3. Cycle(i) \in 0..MaxProposals
      <2> DEFINE S == {k \in OfKind({"product"}) : k < i /\ proposals[k].slug = proposals[i].slug}
      <2>1. S \subseteq 1..MaxProposals
            BY PendingOnes, ProposalFacts DEF Ids
      <2>2. IsFiniteSet(1..MaxProposals) /\ Cardinality(1..MaxProposals) = MaxProposals
            BY <1>1, FS_Interval
      <2> HIDE DEF S
      <2>3. Cardinality(S) \in Nat /\ Cardinality(S) <= MaxProposals
            BY <2>1, <2>2, FS_Subset, FS_CardinalityType
      <2>4. Cycle(i) = Cardinality(S)
            BY DEF Cycle, S
      <2> QED
          BY <1>1, <2>3, <2>4
<1>7. (p.slug # None => p.slug \in Slug) /\ i \in 0..MaxProposals
      BY <1>1
<1>4. CASE p.slug = None
      <2>1. p.kind # "product"
            BY <1>1, <1>4
      <2>2. NameOf(i) = Summary
            BY <1>4, <2>1 DEF NameOf
      <2> QED
          BY <2>2, NamesAssumption
<1>5. CASE p.slug # None /\ p.kind = "product"
      <2>1. NameOf(i) = Suffixed(p.slug, Cycle(i))
            BY <1>5 DEF NameOf
      <2> QED
          BY <1>2, <1>3, <1>5, <1>7, <2>1, Zenon
<1>6. CASE p.slug # None /\ p.kind # "product"
      <2>1. NameOf(i) = CollisionSafe(p.slug, i)
            BY <1>6 DEF NameOf
      <2>2. Bare(p.slug) \in Name /\ Suffixed(p.slug, i) \in Name
            BY <1>2, <1>6, <1>7, Zenon
      <2> QED
          BY <2>1, <2>2 DEF CollisionSafe
<1> QED
    BY <1>4, <1>5, <1>6

LEMMA ApplyingFacts ==
    ASSUME Typed, NEW c \in Caller, job[c].op \in {"apply", "dead"}
    PROVE  /\ job[c].id \in DOMAIN proposals
           /\ job[c].op = "apply" => job[c].name \in Name
           /\ job[c].id \in Ids
           /\ Hand([op |-> "dead", id |-> job[c].id])
<1>1. job[c].id \in DOMAIN proposals
      BY DEF Typed, InHand
<1>2. job[c].op = "apply" => job[c].name \in Name
      BY TypedFacts, ReviewJob
<1>3. job[c].id \in Ids
      BY <1>1, ProposalFacts
<1> DEFINE j == [op |-> "dead", id |-> job[c].id]
<1>4. j \in Job /\ ~Cutting(j) /\ j.op = "dead" /\ j.id = job[c].id /\ Handled(j) = {}
      BY <1>3, ReviewOf
<1> HIDE DEF j
<1>5. Hand(j)
      BY <1>1, <1>4 DEF Hand, Old
<1> QED
    BY <1>1, <1>2, <1>3, <1>5 DEF j

LEMMA ApplyProposalTurn ==
    ASSUME Typed, NEW c \in Caller, ApplyProposal(c)
    PROVE  ReviewTurn(c)
<1>1. PICK i \in Pending :
        /\ Begin(c, "apply", [op |-> "apply", id |-> i, name |-> NameOf(i)])
        /\ Reads /\ UNCHANGED dream
      BY DEF ApplyProposal
<1>2. i \in DOMAIN proposals /\ i \in Ids /\ NameOf(i) \in Name
      BY PendingOnes, ProposalFacts, NameOfProposal
<1> DEFINE j == [op |-> "apply", id |-> i, name |-> NameOf(i)]
<1>3. j \in Job /\ ~Cutting(j) /\ j.op = "apply" /\ j.id = i /\ Handled(j) = {}
      BY <1>2, ReviewOf
<1> HIDE DEF j
<1>4. Hand(j)
      BY <1>2, <1>3 DEF Hand, Old
<1>5. JobStep(c)
      BY <1>1, <1>4, BegunJob DEF j
<1>6. job[c].op # "await"
      BY <1>1 DEF Begin, Idle
<1> QED
    BY <1>1, <1>2, <1>5, <1>6, UndecidedReview

LEMMA GivesUpTurn ==
    ASSUME Typed, NEW c \in Caller, job[c].op = "apply", NEW j, Hand(j), GivesUp(c, j)
    PROVE  ReviewTurn(c)
<1>1. Becomes(c, j) /\ Reads /\ left' = left /\ UNCHANGED dream
      BY DEF GivesUp, Reads
<1>2. JobStep(c)
      BY <1>1, NextJob
<1>3. job[c].id \in DOMAIN proposals
      BY ApplyingFacts
<1> QED
    BY <1>1, <1>2, <1>3, UndecidedReview

LEMMA RejectDeadTurn ==
    ASSUME Typed, NEW c \in Caller, RejectDead(c)
    PROVE  ReviewTurn(c)
<1> DEFINE i == job[c].id
<1>1. /\ job[c].op = "dead" /\ proposals' = Rejected(i) /\ Becomes(c, Idle)
      /\ Reads /\ left' = left /\ relations' = relations /\ judged' = judged
      /\ overruled' = overruled
      BY DEF RejectDead
<1>2. i \in DOMAIN proposals
      BY <1>1, ApplyingFacts
<1>3. JobStep(c)
      BY <1>1, IdleHand, NextJob
<1> HIDE DEF i
<1> DEFINE ids == {i} \cap Pending
<1>4. ids \in SUBSET {i} /\ proposals' = Decided(proposals, ids, "rejected")
      BY <1>1 DEF Rejected
<1> HIDE DEF ids
<1>5. /\ ProposalsStep /\ DOMAIN proposals' = DOMAIN proposals
      /\ \A k \in DOMAIN proposals \ ids : proposals'[k].status = proposals[k].status
      BY <1>2, <1>4, DecidedStep
<1>6. Decides(i)
      BY <1>2, <1>5 DEF Decides, ids
<1> QED
    BY <1>1, <1>3, <1>5, <1>6, StillReview

LEMMA RejectProposalTurn ==
    ASSUME Typed, NEW c \in Caller, RejectProposal(c)
    PROVE  ReviewTurn(c)
<1>1. PICK i \in Pending :
        /\ Begin(c, "reject", Idle) /\ proposals' = Rejected(i)
        /\ Reads /\ relations' = relations /\ judged' = judged /\ overruled' = overruled
      BY DEF RejectProposal
<1>2. i \in DOMAIN proposals
      BY PendingOnes
<1>3. JobStep(c) /\ job[c].op # "await"
      BY <1>1, IdleHand, BegunJob DEF Begin, Idle
<1> DEFINE ids == {i} \cap Pending
<1>4. ids \in SUBSET {i} /\ proposals' = Decided(proposals, ids, "rejected")
      BY <1>1 DEF Rejected
<1> HIDE DEF ids
<1>5. /\ ProposalsStep /\ DOMAIN proposals' = DOMAIN proposals
      /\ \A k \in DOMAIN proposals \ ids : proposals'[k].status = proposals[k].status
      BY <1>2, <1>4, DecidedStep
<1>6. Decides(i)
      BY <1>2, <1>5 DEF Decides, ids
<1> QED
    BY <1>1, <1>3, <1>5, <1>6, StillReview

(* An acceptance, whatever it makes                                          *)
LEMMA AcceptFacts ==
    ASSUME Typed, NEW c \in Caller, job[c].op = "apply", Accept(c), left' = left,
           job[c].id \in Pending \/ proposals[job[c].id].kind = "transcript"
    PROVE  /\ JobStep(c) /\ job[c].op # "await" /\ ProposalsStep
           /\ Decides(job[c].id) /\ proposals'[job[c].id].status = "applied"
<1> DEFINE i == job[c].id
<1>1. proposals' = Decided(proposals, {i}, "applied") /\ Becomes(c, Idle)
      BY DEF Accept
<1>2. i \in DOMAIN proposals
      BY ApplyingFacts
<1>3. JobStep(c) /\ job[c].op # "await"
      BY <1>1, IdleHand, NextJob
<1>4. i \in Pending \/ proposals[i].kind = "transcript"
      OBVIOUS
<1>5. i = job[c].id
      OBVIOUS
<1> HIDE DEF i
<1>6. /\ ProposalsStep /\ DOMAIN proposals' = DOMAIN proposals
      /\ \A k \in DOMAIN proposals \ {i} : proposals'[k].status = proposals[k].status
      /\ \A k \in {i} : proposals'[k].status = "applied"
      BY <1>1, <1>2, DecidedStep
<1>7. Decides(i)
      BY <1>2, <1>4, <1>6 DEF Decides
<1> QED
    BY <1>3, <1>5, <1>6, <1>7

LEMMA PlainOf ==
    ASSUME NEW i \in Ids
    PROVE  LET meta == [Plain EXCEPT !.proposal_id = i]
           IN /\ meta \in Metadata /\ meta.proposal_id = i /\ meta.guard = None
              /\ meta.compacted_into = None
BY NamesAssumption DEF Plain, Metadata

(* The memory that a proposal makes                                          *)
LEMMA MadeTurn ==
    ASSUME Typed, NEW c \in Caller, NEW type \in Type, job[c].op = "apply",
           proposals[job[c].id].kind # "guard", Room(memory, job[c].name),
           job[c].id \in Pending \/ proposals[job[c].id].kind = "transcript",
           Commit(MadeFrom(c, type), {}), Accept(c),
           torn' = torn, clobbered' = clobbered, left' = left,
           relations' = relations, judged' = judged, overruled' = overruled
    PROVE  ReviewTurn(c)
<1> DEFINE i == job[c].id
           n == job[c].name
           o == Owner(memory, n)
           meta == [Plain EXCEPT !.proposal_id = i]
<1>1. /\ JobStep(c) /\ job[c].op # "await" /\ ProposalsStep
      /\ Decides(i) /\ proposals'[i].status = "applied"
      BY AcceptFacts
<1>2. i \in Ids /\ n \in Name
      BY ApplyingFacts
<1>3. meta \in Metadata /\ meta.proposal_id = i /\ meta.guard = None
      BY <1>2, PlainOf
<1>4. /\ Commit(Create(memory, n, type, {}, meta), {}) /\ Room(memory, n)
      /\ {} \in SUBSET Text
      BY DEF MadeFrom
<1>5. i \in Pending \/ proposals[i].kind = "transcript"
      OBVIOUS
<1>6. proposals[i].kind # "guard"
      OBVIOUS
<1> HIDE DEF i, n, meta
<1>7. /\ RowsStep /\ IndexStep /\ drifted' \subseteq Memory
      /\ o \in Memory /\ memory'[o].status = "active"
      /\ \A m \in Memory \ {o} : memory'[m] = memory[m]
      /\ Named(memory, n) # {} => memory'[o].metadata = memory[o].metadata
      /\ Named(memory, n) = {} => memory[o].status = "new" /\ memory'[o].metadata = meta
      BY <1>2, <1>3, <1>4, CreatedCommit
<1> HIDE DEF o
<1>8. TakesNone
      BY <1>7 DEF TakesNone
<1>9. Gains(i)
      <2>1. \A m \in Memory \ {o} : SameTrace(memory[m], memory'[m])
            BY <1>7 DEF SameTrace
      <2>2. SameTrace(memory[o], memory'[o]) \/ Marks(o, i)
            BY <1>3, <1>6, <1>7 DEF SameTrace, Marks
      <2> QED
          BY <1>1, <1>5, <2>1, <2>2 DEF Gains
<1> QED
    BY <1>1, <1>7, <1>8, <1>9 DEF ReviewTurn

LEMMA ApplyPatternTurn ==
    ASSUME Typed, NEW c \in Caller, ApplyPattern(c)
    PROVE  ReviewTurn(c)
<1>1. /\ job[c].op = "apply" /\ proposals[job[c].id].kind = "pattern"
      /\ Room(memory, job[c].name)
      BY DEF ApplyPattern, Applying
<1>2. Hand([op |-> "dead", id |-> job[c].id]) /\ Hand(Idle)
      BY <1>1, ApplyingFacts, IdleHand
<1>3. \/ GivesUp(c, [op |-> "dead", id |-> job[c].id])
      \/ GivesUp(c, Idle)
      \/ /\ StillPending(c) /\ Commit(MadeFrom(c, "note"), {}) /\ Accept(c)
         /\ torn' = torn /\ clobbered' = clobbered /\ left' = left
         /\ relations' = relations /\ judged' = judged /\ overruled' = overruled
      BY DEF ApplyPattern
<1>4. CASE GivesUp(c, [op |-> "dead", id |-> job[c].id]) \/ GivesUp(c, Idle)
      BY <1>1, <1>2, <1>4, GivesUpTurn
<1>5. CASE /\ StillPending(c) /\ Commit(MadeFrom(c, "note"), {}) /\ Accept(c)
           /\ torn' = torn /\ clobbered' = clobbered /\ left' = left
           /\ relations' = relations /\ judged' = judged /\ overruled' = overruled
      <2>1. job[c].id \in Pending /\ "note" \in Type
            BY <1>5 DEF StillPending, Type
      <2> QED
          BY <1>1, <1>5, <2>1, MadeTurn
<1> QED
    BY <1>3, <1>4, <1>5

LEMMA ApplyProductImprovementTurn ==
    ASSUME Typed, NEW c \in Caller, ApplyProductImprovement(c)
    PROVE  ReviewTurn(c)
<1>1. /\ job[c].op = "apply" /\ proposals[job[c].id].kind = "product"
      /\ Room(memory, job[c].name)
      BY DEF ApplyProductImprovement, Applying
<1>2. \/ GivesUp(c, Idle)
      \/ /\ StillPending(c) /\ Commit(MadeFrom(c, "note"), {}) /\ Accept(c)
         /\ torn' = torn /\ clobbered' = clobbered /\ left' = left
         /\ relations' = relations /\ judged' = judged /\ overruled' = overruled
      BY DEF ApplyProductImprovement
<1>3. CASE GivesUp(c, Idle)
      BY <1>1, <1>3, IdleHand, GivesUpTurn
<1>4. CASE /\ StillPending(c) /\ Commit(MadeFrom(c, "note"), {}) /\ Accept(c)
           /\ torn' = torn /\ clobbered' = clobbered /\ left' = left
           /\ relations' = relations /\ judged' = judged /\ overruled' = overruled
      <2>1. job[c].id \in Pending /\ "note" \in Type
            BY <1>4 DEF StillPending, Type
      <2> QED
          BY <1>1, <1>4, <2>1, MadeTurn
<1> QED
    BY <1>2, <1>3, <1>4

LEMMA ApplyTranscriptTurn ==
    ASSUME Typed, NEW c \in Caller, ApplyTranscript(c)
    PROVE  ReviewTurn(c)
<1>1. /\ job[c].op = "apply" /\ proposals[job[c].id].kind = "transcript"
      /\ Room(memory, job[c].name) /\ Commit(MadeFrom(c, "note"), {}) /\ Accept(c)
      /\ torn' = torn /\ clobbered' = clobbered /\ left' = left
      /\ relations' = relations /\ judged' = judged /\ overruled' = overruled
      /\ "note" \in Type
      BY DEF ApplyTranscript, Applying, Type
<1> QED
    BY <1>1, MadeTurn

LEMMA ApplyRelationTurn ==
    ASSUME Typed, NEW c \in Caller, ApplyRelation(c)
    PROVE  ReviewTurn(c)
<1>1. /\ job[c].op = "apply" /\ proposals[job[c].id].kind = "relation"
      /\ \/ GivesUp(c, Idle)
         \/ /\ StillPending(c) /\ Accept(c) /\ Reads /\ left' = left
            /\ relations' = relations /\ judged' = judged /\ overruled' = overruled
      BY DEF ApplyRelation, Applying
<1>2. CASE GivesUp(c, Idle)
      BY <1>1, <1>2, IdleHand, GivesUpTurn
<1>3. CASE /\ StillPending(c) /\ Accept(c) /\ Reads /\ left' = left
           /\ relations' = relations /\ judged' = judged /\ overruled' = overruled
      <2>1. JobStep(c) /\ job[c].op # "await" /\ ProposalsStep /\ Decides(job[c].id)
            BY <1>1, <1>3, AcceptFacts DEF StillPending
      <2> QED
          BY <1>3, <2>1, StillReview
<1> QED
    BY <1>1, <1>2, <1>3

LEMMA MarkedRow ==
    ASSUME NEW r \in Row
    PROVE  /\ \A i \in Ids : LET u == [r EXCEPT !.metadata.guard = i] IN
                /\ u \in Row /\ SameEntry(r, u) /\ u.type = r.type
                /\ u.metadata.guard = i
                /\ u.metadata.proposal_id = r.metadata.proposal_id
                /\ u.metadata.compacted_into = r.metadata.compacted_into
           /\ \A d \in Memory : LET u == [r EXCEPT !.metadata.compacted_into = d] IN
                /\ u \in Row /\ SameEntry(r, u) /\ u.type = r.type
                /\ u.metadata.compacted_into = d /\ SameTrace(r, u)
BY NamesAssumption DEF Row, Metadata, SameEntry, SameTrace

LEMMA SameEntries ==
    ASSUME Typed, memory' \in [Memory -> Row], drifted' = drifted, torn' = torn,
           \A m \in Memory : SameEntry(memory[m], memory'[m])
    PROVE  RowsStep /\ IndexStep
<1>1. \A m \in Memory : /\ memory'[m].status = memory[m].status
                        /\ memory'[m].name = memory[m].name
      BY DEF SameEntry
<1>2. StoredNamed(memory') /\ UniqueNames(memory')
      BY <1>1, TypedFacts DEF StoredNamed, UniqueNames, Kept
<1>3. \A m \in Memory : Says(memory'[m]) = Says(memory[m])
      BY DEF SameEntry, Says
<1>4. IndexStep
      BY <1>3 DEF IndexStep, SameEntry, Exact, Lost
<1> QED
    BY <1>1, <1>2, <1>4 DEF RowsStep

LEMMA ApplyGuardTurn ==
    ASSUME Typed, NEW c \in Caller, ApplyGuard(c)
    PROVE  ReviewTurn(c)
<1> DEFINE i == job[c].id
           S == proposals[i].sources
<1>1. /\ job[c].op = "apply" /\ proposals[i].kind = "guard"
      /\ \/ GivesUp(c, Idle)
         \/ /\ StillPending(c) /\ Accept(c)
            /\ memory' = [m \in Memory |-> IF m \in S THEN [memory[m] EXCEPT !.metadata.guard = i]
                                           ELSE memory[m]]
            /\ drifted' = drifted /\ torn' = torn /\ clobbered' = clobbered /\ left' = left
            /\ relations' = relations /\ judged' = judged /\ overruled' = overruled
      BY DEF ApplyGuard, Applying
<1>2. CASE GivesUp(c, Idle)
      BY <1>1, <1>2, IdleHand, GivesUpTurn
<1>3. CASE /\ StillPending(c) /\ Accept(c)
           /\ memory' = [m \in Memory |-> IF m \in S THEN [memory[m] EXCEPT !.metadata.guard = i]
                                          ELSE memory[m]]
           /\ drifted' = drifted /\ torn' = torn /\ clobbered' = clobbered /\ left' = left
           /\ relations' = relations /\ judged' = judged /\ overruled' = overruled
      <2>1. /\ JobStep(c) /\ job[c].op # "await" /\ ProposalsStep
            /\ Decides(i) /\ proposals'[i].status = "applied" /\ i \in Pending
            BY <1>1, <1>3, AcceptFacts DEF StillPending
      <2>2. i \in DOMAIN proposals /\ i \in Ids
            BY <1>1, ApplyingFacts
      <2>3. PICK l \in Memory : S = {l}
            BY <1>1, <2>2, ProposalFacts DEF Fits
      <2> HIDE DEF i, S
      <2> DEFINE u == [memory[l] EXCEPT !.metadata.guard = i]
      <2>4. /\ u \in Row /\ SameEntry(memory[l], u)
            /\ u.metadata.guard = i /\ u.metadata.proposal_id = memory[l].metadata.proposal_id
            /\ u.metadata.compacted_into = memory[l].metadata.compacted_into
            BY <2>2, TypedFacts, MarkedRow
      <2>5. memory'[l] = u /\ \A m \in Memory \ {l} : memory'[m] = memory[m]
            BY <1>3, <2>3
      <2>6. memory' = [m \in Memory |-> memory'[m]]
            BY <1>3
      <2> HIDE DEF u
      <2>7. \A m \in Memory : memory'[m] \in Row
            BY <2>4, <2>5, TypedFacts
      <2>8. memory' \in [Memory -> Row]
            BY <2>6, <2>7
      <2>9. \A m \in Memory : SameEntry(memory[m], memory'[m])
            BY <2>4, <2>5 DEF SameEntry
      <2>10. RowsStep /\ IndexStep
             BY <1>3, <2>8, <2>9, SameEntries
      <2>11. TakesNone
             BY <1>3, <2>4, <2>5 DEF TakesNone
      <2>12. Gains(i)
             <3>1. \A m \in Memory \ {l} : SameTrace(memory[m], memory'[m])
                   BY <2>5 DEF SameTrace
             <3>2. Marks(l, i)
                   BY <1>1, <2>3, <2>4, <2>5 DEF Marks, S
             <3> QED
                 BY <2>1, <3>1, <3>2 DEF Gains
      <2> QED
          BY <1>3, <2>1, <2>10, <2>11, <2>12, TypedFacts DEF ReviewTurn
<1> QED
    BY <1>1, <1>2, <1>3

LEMMA TakenRow ==
    ASSUME NEW r \in Row, NEW d \in Memory, r.status \notin {"new", "deleted"}
    PROVE  LET u == Archive([r EXCEPT !.metadata.compacted_into = d], r.name) IN
           /\ u \in Row /\ u.status = "archived" /\ u.name = r.name
           /\ Lost(u) = {}
           /\ Exact(r) => Exact(u)
           /\ u.metadata.compacted_into = d /\ SameTrace(r, u)
<1> DEFINE v == [r EXCEPT !.metadata.compacted_into = d]
           u == Archive(v, r.name)
<1>1. /\ v \in Row /\ SameEntry(r, v) /\ v.metadata.compacted_into = d /\ SameTrace(r, v)
      BY MarkedRow
<1> HIDE DEF v
<1>2. /\ u \in Row
      /\ u.status \in {"archived", "deleted"}
      /\ u.status = "deleted" <=> v.status = "deleted"
      /\ u.name = v.name /\ u.texts = v.texts /\ u.metadata = v.metadata
      /\ Lost(u) = {}
      /\ Exact(v) /\ (v.status = "active" => v.name = r.name) => Exact(u)
      BY <1>1, ArchivedRow
<1> HIDE DEF u
<1>3. Exact(r) => Exact(v)
      BY <1>1 DEF Exact, SameEntry, Says
<1>4. /\ u \in Row /\ u.status = "archived" /\ u.name = r.name
      /\ Lost(u) = {}
      /\ Exact(r) => Exact(u)
      /\ u.metadata.compacted_into = d /\ SameTrace(r, u)
      BY <1>1, <1>2, <1>3 DEF SameEntry, SameTrace
<1> QED
    BY <1>4 DEF u, v

LEMMA ApplyDigestTurn ==
    ASSUME Typed, NEW c \in Caller, ApplyDigest(c)
    PROVE  ReviewTurn(c)
<1> DEFINE i == job[c].id
           n == job[c].name
           made == MadeFrom(c, "digest")
           d == Owner(made, n)
           taken == Free(made, i)
           rows == [m \in Memory |->
                      IF m \in taken
                        THEN Archive([made[m] EXCEPT !.metadata.compacted_into = d], made[m].name)
                        ELSE made[m]]
           o == Owner(memory, n)
           meta == [Plain EXCEPT !.proposal_id = i]
<1>1. job[c].op = "apply" /\ proposals[i].kind = "digest" /\ Room(memory, n)
      BY DEF ApplyDigest, Applying
<1>2. \/ GivesUp(c, [op |-> "dead", id |-> i])
      \/ GivesUp(c, Idle)
      \/ /\ StillPending(c) /\ Commit(rows, {})
         /\ relations' = relations \cup {<<d, s>> : s \in taken}
         /\ Accept(c)
         /\ torn' = torn /\ clobbered' = clobbered /\ left' = left
         /\ judged' = judged /\ overruled' = overruled
      BY DEF ApplyDigest
<1>3. CASE GivesUp(c, [op |-> "dead", id |-> i]) \/ GivesUp(c, Idle)
      BY <1>1, <1>3, ApplyingFacts, IdleHand, GivesUpTurn
<1>4. CASE /\ StillPending(c) /\ Commit(rows, {})
           /\ relations' = relations \cup {<<d, s>> : s \in taken}
           /\ Accept(c)
           /\ torn' = torn /\ clobbered' = clobbered /\ left' = left
           /\ judged' = judged /\ overruled' = overruled
      <2>1. /\ JobStep(c) /\ job[c].op # "await" /\ ProposalsStep
            /\ Decides(i) /\ proposals'[i].status = "applied" /\ i \in Pending
            BY <1>1, <1>4, AcceptFacts DEF StillPending
      <2>2. i \in DOMAIN proposals /\ i \in Ids /\ n \in Name
            BY <1>1, ApplyingFacts
      <2>3. /\ meta \in Metadata /\ meta.proposal_id = i /\ meta.guard = None
            /\ {} \in SUBSET Text /\ "digest" \in Type
            BY <2>2, PlainOf DEF Type
      <2>4. /\ memory' = rows
            /\ drifted' = drifted \cup {} \cup Disturbed(memory')
            /\ drifted' \subseteq Memory
            BY <1>4, CommitFacts
      <2>5. made = Create(memory, n, "digest", {}, meta)
            BY DEF MadeFrom
      <2>6. taken = {s \in proposals[i].sources :
                        made[s].status # "deleted" /\ made[s].metadata.compacted_into = None}
            BY DEF Free
      <2>7. /\ \A m \in taken :
                  rows[m] = Archive([made[m] EXCEPT !.metadata.compacted_into = d], made[m].name)
            /\ \A m \in Memory \ taken : rows[m] = made[m]
            /\ rows = [m \in Memory |-> rows[m]]
            BY <2>2, <2>6, ProposalFacts
      <2>8. d = Owner(made, n)
            OBVIOUS
      <2> HIDE DEF i, n, made, taken, rows, d, meta
      <2>9. /\ made \in [Memory -> Row]
            /\ o \in Memory
            /\ \A m \in Memory \ {o} : made[m] = memory[m]
            /\ Lawful(memory[o], made[o])
            /\ Exact(memory[o]) => Exact(made[o])
            /\ Tidy(memory[o]) /\ Named(memory, n) # {} => Exact(made[o])
            /\ made[o].status = "active" /\ made[o].name = n
            /\ Named(memory, n) # {} =>
                  Kept(memory[o]) /\ memory[o].name = n /\ made[o].metadata = memory[o].metadata
            /\ Named(memory, n) = {} =>
                  memory[o].status = "new" /\ made[o].metadata = meta
            /\ UniqueNames(made)
            BY <1>1, <2>2, <2>3, <2>5, TypedFacts, Creation
      <2> HIDE DEF o
      <2>10. d \in Memory
             <3>1. o \in Named(made, n)
                   BY <2>9 DEF Named
             <3> QED
                 BY <2>8, <3>1, OwnerOfName DEF Room
      <2>11. ASSUME NEW s \in taken
             PROVE  /\ s \in Memory /\ memory[s].status # "new"
                    /\ made[s].status \notin {"new", "deleted"}
                    /\ made[s].metadata = memory[s].metadata
                    /\ memory[s].metadata.compacted_into = None
             <3>1. /\ s \in Memory /\ memory[s].status # "new"
                   /\ made[s].status # "deleted" /\ made[s].metadata.compacted_into = None
                   BY <2>2, <2>6, ProposalFacts
             <3>2. made[s].metadata = memory[s].metadata
                   BY <2>9, <3>1
             <3>3. made[s].status # "new"
                   BY <2>9, <3>1
             <3> QED
                 BY <3>1, <3>2, <3>3
      <2>12. ASSUME NEW m \in taken
             PROVE  /\ rows[m] \in Row /\ rows[m].status = "archived"
                    /\ rows[m].name = made[m].name /\ Lost(rows[m]) = {}
                    /\ Exact(made[m]) => Exact(rows[m])
                    /\ rows[m].metadata.compacted_into = d /\ SameTrace(made[m], rows[m])
             <3>1. made[m] \in Row /\ made[m].status \notin {"new", "deleted"}
                   BY <2>9, <2>11
             <3> DEFINE shelf(r) == Archive([r EXCEPT !.metadata.compacted_into = d], r.name)
             <3>2. \A r \in Row : r.status \notin {"new", "deleted"} =>
                      /\ shelf(r) \in Row /\ shelf(r).status = "archived"
                      /\ shelf(r).name = r.name /\ Lost(shelf(r)) = {}
                      /\ Exact(r) => Exact(shelf(r))
                      /\ shelf(r).metadata.compacted_into = d /\ SameTrace(r, shelf(r))
                   BY <2>10, TakenRow
             <3>3. rows[m] = shelf(made[m])
                   BY <2>7
             <3> HIDE DEF shelf
             <3> QED
                 BY <3>1, <3>2, <3>3
      <2>13. ASSUME NEW m \in Memory
             PROVE  /\ rows[m] \in Row
                    /\ Kept(rows[m]) => Kept(made[m]) /\ rows[m].name = made[m].name
                    /\ Kept(made[m]) => made[m].name \in Name
                    /\ rows[m].status = "new" => memory[m].status = "new"
                    /\ Exact(memory[m]) => Exact(rows[m])
                    /\ Lost(rows[m]) \subseteq Lost(memory[m])
                    /\ SameTrace(made[m], rows[m])
             <3>1. /\ made[m] \in Row /\ (Kept(made[m]) => made[m].name \in Name)
                   /\ made[m].status = "new" => memory[m].status = "new"
                   /\ Exact(memory[m]) => Exact(made[m])
                   /\ Lost(made[m]) \subseteq Lost(memory[m])
                   BY <2>9, TypedFacts DEF Lawful, StoredNamed
             <3>2. CASE m \in taken
                   BY <2>11, <2>12, <3>1, <3>2, RowFields DEF Kept
             <3>3. CASE m \notin taken
                   BY <2>7, <3>1, <3>3 DEF SameTrace
             <3> QED
                 BY <3>2, <3>3
      <2>14. RowsStep
             <3>1. rows \in [Memory -> Row]
                   BY <2>7, <2>13
             <3>2. StoredNamed(rows) /\ UniqueNames(rows)
                   BY <2>9, <2>13 DEF StoredNamed, UniqueNames
             <3> QED
                 BY <2>4, <2>13, <3>1, <3>2 DEF RowsStep
      <2>15. IndexStep
             <3>1. \A stale : /\ drifted' = drifted \cup stale \cup Disturbed(memory')
                              /\ \A m \in Memory \ stale : Exact(memory[m]) => Exact(memory'[m])
                              => IndexStep
                   BY <1>4, <2>4, <2>13, CommitIndex
             <3> QED
                 BY <2>4, <2>13, <3>1
      <2>16. Takes
             <3>1. taken \in SUBSET Memory
                   BY <2>11
             <3>2. \A s \in taken : /\ memory[s].status # "new"
                                    /\ memory[s].metadata.compacted_into = None
                                    /\ memory'[s].metadata.compacted_into = d
                   BY <2>4, <2>11, <2>12
             <3>3. \A m \in Memory \ taken :
                     memory[m].status # "new" =>
                       memory'[m].metadata.compacted_into = memory[m].metadata.compacted_into
                   BY <2>4, <2>7, <2>9
             <3> QED
                 BY <1>4, <2>10, <3>1, <3>2, <3>3 DEF Takes
      <2>17. Gains(i)
             <3>1. \A m \in Memory \ {o} : SameTrace(memory[m], memory'[m])
                   BY <2>4, <2>9, <2>13
             <3>2. SameTrace(memory[o], memory'[o]) \/ Marks(o, i)
                   BY <1>1, <2>3, <2>4, <2>9, <2>13 DEF SameTrace, Marks, i
             <3> QED
                 BY <2>1, <3>1, <3>2 DEF Gains
      <2> QED
          BY <1>4, <2>1, <2>4, <2>14, <2>15, <2>16, <2>17 DEF ReviewTurn
<1> QED
    BY <1>2, <1>3, <1>4

LEMMA ReviewStepFacts ==
    ASSUME Typed, ReviewStep
    PROVE  \E c \in Caller : ReviewTurn(c)
<1>1. PICK c \in Caller :
        \/ ApplyProposal(c) \/ ApplyDigest(c) \/ RejectDead(c)
        \/ ApplyPattern(c) \/ ApplyProductImprovement(c) \/ ApplyTranscript(c)
        \/ ApplyGuard(c) \/ ApplyRelation(c) \/ RejectProposal(c)
      BY DEF ReviewStep
<1> QED
    BY <1>1, ApplyProposalTurn, ApplyDigestTurn, RejectDeadTurn, ApplyPatternTurn,
       ApplyProductImprovementTurn, ApplyTranscriptTurn, ApplyGuardTurn, ApplyRelationTurn,
       RejectProposalTurn

-----------------------------------------------------------------------------
(* Digests and what they summarise                                           *)
LEMMA LinkFields ==
    ASSUME NEW a \in Metadata, NEW b \in Metadata
    PROVE  /\ Links(a) = Links(b) =>
                /\ a.compacted_into = b.compacted_into /\ a.proposal_id = b.proposal_id
                /\ a.guard = b.guard
           /\ Links(a) = Plain => a.proposal_id = None /\ a.guard = None
<1>1. /\ Links(a).compacted_into = a.compacted_into /\ Links(a).proposal_id = a.proposal_id
      /\ Links(a).guard = a.guard
      /\ Links(b).compacted_into = b.compacted_into /\ Links(b).proposal_id = b.proposal_id
      /\ Links(b).guard = b.guard
      BY DEF Links, Metadata
<1>2. Plain.proposal_id = None /\ Plain.guard = None
      BY DEF Plain
<1> QED
    BY <1>1, <1>2

LEMMA LinksKept ==
    ASSUME Typed, NEW m \in Memory, memory'[m] \in Row, LinksStep, m \notin clobbered'
    PROVE  /\ m \notin clobbered
           /\ \/ /\ memory'[m].metadata.compacted_into = memory[m].metadata.compacted_into
                 /\ SameTrace(memory[m], memory'[m])
              \/ /\ memory[m].status = "new"
                 /\ memory'[m].metadata.proposal_id = None /\ memory'[m].metadata.guard = None
<1>1. memory[m].metadata \in Metadata /\ memory'[m].metadata \in Metadata
      BY TypedFacts, RowFields
<1>2. /\ m \notin clobbered
      /\ \/ Links(memory'[m].metadata) = Links(memory[m].metadata)
         \/ memory[m].status = "new" /\ Links(memory'[m].metadata) = Plain
      BY DEF LinksStep
<1> QED
    BY <1>1, <1>2, LinkFields DEF SameTrace

LEMMA RelationFacts ==
    ASSUME Typed, NEW e \in relations
    PROVE  e[1] \in Memory /\ e[2] \in Memory
BY ProposalFacts

LEMMA GraphDigest ==
    ASSUME Typed, DigestInv, NEW c \in Caller, GraphTurn(c), relations' \subseteq relations
    PROVE  DigestInv'
<1>1. RowsStep /\ LinksStep /\ memory' \in [Memory -> Row]
      BY DEF GraphTurn, RowsStep
<1> SUFFICES ASSUME NEW e \in relations'
             PROVE  /\ memory'[e[2]].status # "new"
                    /\ e[2] \notin clobbered' => memory'[e[2]].metadata.compacted_into = e[1]
    BY DEF DigestInv
<1>2. /\ e[2] \in Memory /\ memory[e[2]].status # "new"
      /\ e[2] \notin clobbered => memory[e[2]].metadata.compacted_into = e[1]
      BY RelationFacts DEF DigestInv
<1>3. memory'[e[2]].status # "new"
      BY <1>1, <1>2 DEF RowsStep
<1>4. ASSUME e[2] \notin clobbered' PROVE memory'[e[2]].metadata.compacted_into = e[1]
      BY <1>1, <1>2, <1>4, LinksKept
<1> QED
    BY <1>3, <1>4

LEMMA RunDigest ==
    ASSUME Typed, DigestInv, NEW c \in Caller, RunTurn(c)
    PROVE  DigestInv'
BY DEF RunTurn, Reads, DigestInv

LEMMA ReviewDigest ==
    ASSUME Typed, DigestInv, NEW c \in Caller, ReviewTurn(c)
    PROVE  DigestInv' /\ relations' \subseteq Memory \X Memory
<1>1. RowsStep /\ clobbered' = clobbered /\ (Takes \/ TakesNone)
      BY DEF ReviewTurn
<1>2. ASSUME NEW e \in relations
      PROVE  /\ e[2] \in Memory /\ memory[e[2]].status # "new" /\ memory'[e[2]].status # "new"
             /\ e[2] \notin clobbered => memory[e[2]].metadata.compacted_into = e[1]
             /\ e[1] \in Memory
      BY <1>1, <1>2, RelationFacts DEF DigestInv, RowsStep
<1>3. CASE TakesNone
      BY <1>1, <1>2, <1>3, ProposalFacts DEF TakesNone, DigestInv
<1>4. CASE Takes
      <2>1. PICK d \in Memory, taken \in SUBSET Memory :
              /\ relations' = relations \cup {<<d, s>> : s \in taken}
              /\ \A s \in taken : /\ memory[s].status # "new"
                                  /\ memory[s].metadata.compacted_into = None
                                  /\ memory'[s].metadata.compacted_into = d
              /\ \A m \in Memory \ taken :
                    memory[m].status # "new" =>
                      memory'[m].metadata.compacted_into = memory[m].metadata.compacted_into
            BY <1>4 DEF Takes
      <2>2. ASSUME NEW e \in relations, e[2] \notin clobbered
            PROVE  memory'[e[2]].metadata.compacted_into = e[1]
            <3>1. e[2] \notin taken
                  BY <1>2, <2>1, <2>2, NamesAssumption
            <3> QED
                BY <1>2, <2>1, <2>2, <3>1
      <2>3. ASSUME NEW s \in taken
            PROVE  memory'[s].status # "new" /\ memory'[s].metadata.compacted_into = d
            BY <1>1, <2>1, <2>3 DEF RowsStep
      <2>4. ASSUME NEW e \in relations'
            PROVE  /\ memory'[e[2]].status # "new"
                   /\ e[2] \notin clobbered' => memory'[e[2]].metadata.compacted_into = e[1]
            <3>1. CASE e \in relations
                  BY <1>1, <1>2, <2>2, <3>1
            <3>2. CASE e \notin relations
                  <4>1. PICK s \in taken : e = <<d, s>>
                        BY <2>1, <3>2
                  <4>2. e[1] = d /\ e[2] = s
                        BY <4>1
                  <4> QED
                      BY <2>3, <4>2
            <3> QED
                BY <3>1, <3>2
      <2> QED
          BY <2>1, <2>4, ProposalFacts DEF DigestInv
<1> QED
    BY <1>1, <1>3, <1>4

LEMMA ReviewTyped ==
    ASSUME Typed, DigestInv, NEW c \in Caller, ReviewTurn(c)
    PROVE  Typed'
<1>1. /\ JobStep(c) /\ RowsStep /\ ProposalsStep
      /\ drifted' \subseteq Memory /\ torn' = torn /\ clobbered' = clobbered
      /\ judged' = judged /\ overruled' = overruled
      BY DEF ReviewTurn
<1>2. /\ torn' \subseteq Memory /\ clobbered' \subseteq Memory
      /\ judged' \subseteq SUBSET Memory /\ overruled' \subseteq Ids
      BY <1>1, TypedFacts, ProposalFacts
<1> QED
    BY <1>1, <1>2, ReviewDigest, DreamTyped

-----------------------------------------------------------------------------
(* What proposals made. What was applied stays so, or is known to be overruled *)
Settles ==
    \A i \in DOMAIN proposals :
        proposals[i].status = "applied" \/ i \in overruled =>
            proposals'[i].status = "applied" \/ i \in overruled'

(* The traces of a memory that a step leaves alone                           *)
LEMMA TraceCarried ==
    ASSUME NEW m \in Memory, Traced(m), ProposalsStep, Settles,
           SameTrace(memory[m], memory'[m])
    PROVE  Traced(m)'
<1> DEFINE p == memory[m].metadata.proposal_id
           g == memory[m].metadata.guard
<1>1. memory'[m].metadata.proposal_id = p /\ memory'[m].metadata.guard = g
      BY DEF SameTrace
<1>2. /\ {p, g} \ {None} \subseteq DOMAIN proposals
      /\ g # None => proposals[g].kind = "guard" /\ m \in proposals[g].sources
      /\ p # None => proposals[p].kind # "guard"
      /\ \A i \in {p, g} \ {None} : proposals[i].status = "applied" \/ i \in overruled
      BY DEF Traced, Traces
<1>3. PICK q, h : q = p /\ h = g
      OBVIOUS
<1>4. memory'[m].metadata.proposal_id = q /\ memory'[m].metadata.guard = h
      BY <1>1, <1>3
<1> HIDE DEF p, g
<1>5. ASSUME NEW i \in {q, h} \ {None}
      PROVE  /\ i \in DOMAIN proposals'
             /\ proposals'[i].kind = proposals[i].kind
             /\ proposals'[i].sources = proposals[i].sources
             /\ proposals'[i].status = "applied" \/ i \in overruled'
      BY <1>2, <1>3, <1>5 DEF ProposalsStep, Settles
<1>6. /\ h # None => proposals'[h].kind = "guard" /\ m \in proposals'[h].sources
      /\ q # None => proposals'[q].kind # "guard"
      BY <1>2, <1>3, <1>5
<1> QED
    BY <1>4, <1>5, <1>6 DEF Traced, Traces

(* The traces of a memory that has none                                      *)
LEMMA NoTrace ==
    ASSUME NEW m \in Memory,
           memory'[m].metadata.proposal_id = None, memory'[m].metadata.guard = None
    PROVE  Traced(m)'
BY DEF Traced, Traces

LEMMA EffectCarried ==
    ASSUME EffectsTraced, MadeOnce, ProposalsStep, Settles,
           \A m \in Memory \ clobbered' :
              /\ m \notin clobbered
              /\ \/ SameTrace(memory[m], memory'[m])
                 \/ /\ memory'[m].metadata.proposal_id = None
                    /\ memory'[m].metadata.guard = None
    PROVE  EffectsTraced' /\ MadeOnce'
<1>1. ASSUME NEW m \in Memory \ clobbered' PROVE Traced(m)'
      <2>1. m \notin clobbered /\ Traced(m)
            BY <1>1 DEF EffectsTraced
      <2> QED
          BY <1>1, <2>1, TraceCarried, NoTrace
<1>2. ASSUME NEW m \in Memory \ clobbered', NEW k \in Memory \ clobbered',
             memory'[m].metadata.proposal_id = memory'[k].metadata.proposal_id,
             memory'[m].metadata.proposal_id # None
      PROVE  m = k \/ proposals'[memory'[m].metadata.proposal_id].kind = "transcript"
      <2>1. /\ m \notin clobbered /\ k \notin clobbered
            /\ memory'[m].metadata.proposal_id = memory[m].metadata.proposal_id
            /\ memory'[k].metadata.proposal_id = memory[k].metadata.proposal_id
            BY <1>2 DEF SameTrace
      <2>2. m = k \/ proposals[memory[m].metadata.proposal_id].kind = "transcript"
            BY <1>2, <2>1 DEF MadeOnce
      <2>3. memory[m].metadata.proposal_id \in DOMAIN proposals
            BY <1>2, <2>1 DEF EffectsTraced, Traced, Traces
      <2> QED
          BY <2>1, <2>2, <2>3 DEF ProposalsStep
<1> QED
    BY <1>1, <1>2 DEF EffectsTraced, MadeOnce

(* ... of a writer: the proposals are the same                               *)
LEMMA GraphEffect ==
    ASSUME Typed, EffectInv, NEW c \in Caller, GraphTurn(c),
           proposals' = proposals, judged' = judged, overruled' = overruled
    PROVE  EffectInv'
<1>1. LinksStep /\ \A m \in Memory : memory'[m] \in Row
      BY DEF GraphTurn, RowsStep
<1>2. \A m \in Memory \ clobbered' :
        /\ m \notin clobbered
        /\ \/ SameTrace(memory[m], memory'[m])
           \/ /\ memory'[m].metadata.proposal_id = None
              /\ memory'[m].metadata.guard = None
      BY <1>1, LinksKept
<1>3. ProposalsStep /\ Settles
      BY SameProposals DEF Settles
<1>4. EffectsTraced' /\ MadeOnce'
      BY <1>2, <1>3, EffectCarried DEF EffectInv
<1>5. OverruledDecided' /\ RelationsJudged'
      BY DEF EffectInv, OverruledDecided, RelationsJudged, OfKind
<1> QED
    BY <1>4, <1>5 DEF EffectInv

(* ... of a run: the memories are the same                                   *)
LEMMA RunEffect ==
    ASSUME Typed, EffectInv, NEW c \in Caller, RunTurn(c)
    PROVE  EffectInv'
<1>1. /\ memory' = memory /\ clobbered' = clobbered
      /\ ProposalsStep /\ RunDecides /\ RunStages
      BY DEF RunTurn, Reads
<1>2. \A i \in overruled : i \in DOMAIN proposals /\ i \notin Pending
      BY PendingOnes DEF EffectInv, OverruledDecided
<1>3. Settles
      BY <1>1, <1>2, PendingOnes DEF Settles, RunDecides
<1>4. \A m \in Memory : SameTrace(memory[m], memory'[m])
      BY <1>1 DEF SameTrace
<1>5. EffectsTraced' /\ MadeOnce'
      BY <1>1, <1>3, <1>4, EffectCarried DEF EffectInv
<1>6. OverruledDecided'
      <2> SUFFICES ASSUME NEW i \in overruled'
                   PROVE  i \in DOMAIN proposals' /\ proposals'[i].status # "pending"
          BY DEF OverruledDecided
      <2>1. i \in DOMAIN proposals /\ proposals[i].status # "pending"
            BY <1>1, <1>2, PendingOnes DEF RunDecides
      <2> QED
          BY <1>1, <2>1 DEF RunDecides, ProposalsStep
<1>7. RelationsJudged'
      <2> DEFINE New == DOMAIN proposals' \ DOMAIN proposals
      <2>1. \A i \in DOMAIN proposals' : proposals'[i].kind = "relation" =>
              IF i \in New THEN proposals'[i].sources \in judged' \ judged
              ELSE /\ proposals'[i].sources = proposals[i].sources /\ i \in DOMAIN proposals
                   /\ proposals[i].kind = "relation" /\ proposals[i].sources \in judged
            BY <1>1, PendingOnes DEF RunStages, ProposalsStep, EffectInv, RelationsJudged
      <2>2. \A i, k \in New : i = k
            BY <1>1 DEF RunStages
      <2>3. judged \subseteq judged'
            BY <1>1 DEF RunStages
      <2> HIDE DEF New
      <2>4. \A i \in DOMAIN proposals' :
              proposals'[i].kind = "relation" => proposals'[i].sources \in judged'
            BY <2>1, <2>3
      <2>5. ASSUME NEW i \in DOMAIN proposals', NEW k \in DOMAIN proposals',
                   proposals'[i].kind = "relation", proposals'[k].kind = "relation",
                   proposals'[i].sources = proposals'[k].sources
            PROVE  i = k
            <3>1. CASE i \in New
                  BY <2>1, <2>2, <2>5, <3>1
            <3>2. CASE i \notin New
                  <4>1. k \notin New
                        BY <2>1, <2>5, <3>2
                  <4>2. /\ i \in DOMAIN proposals /\ k \in DOMAIN proposals
                        /\ proposals[i].kind = "relation" /\ proposals[k].kind = "relation"
                        /\ proposals[i].sources = proposals[k].sources
                        BY <2>1, <2>5, <3>2, <4>1
                  <4> QED
                      BY <4>2, PendingOnes DEF EffectInv, RelationsJudged
            <3> QED
                BY <3>1, <3>2
      <2> QED
          BY <2>4, <2>5 DEF RelationsJudged, OfKind
<1> QED
    BY <1>5, <1>6, <1>7 DEF EffectInv

(* ... of a review: it decides on a pending proposal, which made nothing yet *)
LEMMA ReviewEffect ==
    ASSUME Typed, EffectInv, NEW c \in Caller, ReviewTurn(c)
    PROVE  EffectInv'
<1>1. PICK i : Decides(i) /\ Gains(i)
      BY DEF ReviewTurn
<1>2. /\ clobbered' = clobbered /\ overruled' = overruled /\ judged' = judged
      /\ ProposalsStep /\ i \in DOMAIN proposals /\ DOMAIN proposals' = DOMAIN proposals
      BY <1>1 DEF ReviewTurn, Decides
<1>3. \A k \in overruled : k \in DOMAIN proposals /\ k \notin Pending
      BY PendingOnes DEF EffectInv, OverruledDecided
<1>4. Settles
      BY <1>1, <1>2, <1>3, PendingOnes DEF Settles, Decides
<1>5. OverruledDecided'
      <2> SUFFICES ASSUME NEW k \in overruled PROVE proposals'[k].status # "pending"
          BY <1>2, <1>3 DEF OverruledDecided
      <2>1. proposals[k].status # "pending"
            BY DEF EffectInv, OverruledDecided
      <2> QED
          BY <1>1, <1>3, <2>1 DEF Decides
<1>6. RelationsJudged'
      BY <1>2 DEF EffectInv, RelationsJudged, OfKind, ProposalsStep
<1>7. CASE \A m \in Memory : SameTrace(memory[m], memory'[m])
      <2>1. EffectsTraced' /\ MadeOnce'
            BY <1>2, <1>4, <1>7, EffectCarried DEF EffectInv
      <2> QED
          BY <1>5, <1>6, <2>1 DEF EffectInv
<1>8. CASE \E m \in Memory : ~SameTrace(memory[m], memory'[m])
      <2>1. PICK m \in Memory : ~SameTrace(memory[m], memory'[m])
            BY <1>8
      <2>2. /\ Marks(m, i) /\ proposals'[i].status = "applied"
            /\ i \in Pending \/ proposals[i].kind = "transcript"
            /\ \A k \in Memory \ {m} : SameTrace(memory[k], memory'[k])
            BY <1>1, <2>1 DEF Gains
      <2>3. /\ proposals'[i].kind = proposals[i].kind
            /\ proposals'[i].sources = proposals[i].sources
            BY <1>2 DEF ProposalsStep
      <2>4. ASSUME m \notin clobbered PROVE Traced(m)'
            <3>1. CASE /\ memory'[m].metadata.proposal_id = i
                       /\ memory'[m].metadata.guard = None
                       /\ proposals[i].kind # "guard"
                  BY <1>2, <2>2, <2>3, <3>1 DEF Traced, Traces
            <3>2. CASE /\ memory'[m].metadata.guard = i
                       /\ memory'[m].metadata.proposal_id = memory[m].metadata.proposal_id
                       /\ proposals[i].kind = "guard" /\ m \in proposals[i].sources
                  <4>1. PICK q : q = memory[m].metadata.proposal_id
                        OBVIOUS
                  <4>2. q # None => /\ q \in DOMAIN proposals /\ proposals[q].kind # "guard"
                                    /\ proposals[q].status = "applied" \/ q \in overruled
                        BY <2>4, <4>1 DEF EffectInv, EffectsTraced, Traced, Traces
                  <4>3. q # None => /\ q \in DOMAIN proposals' /\ proposals'[q].kind # "guard"
                                    /\ proposals'[q].status = "applied" \/ q \in overruled'
                        BY <1>2, <1>4, <4>2 DEF Settles, ProposalsStep
                  <4> QED
                      BY <1>2, <2>2, <2>3, <3>2, <4>1, <4>3 DEF Traced, Traces
            <3> QED
                BY <2>2, <3>1, <3>2 DEF Marks
      <2>5. EffectsTraced'
            BY <1>2, <1>4, <2>2, <2>4, TraceCarried DEF EffectInv, EffectsTraced
      <2>6. ASSUME NEW k \in Memory \ clobbered, k # m,
                   memory'[m].metadata.proposal_id = memory'[k].metadata.proposal_id,
                   memory'[m].metadata.proposal_id # None, m \notin clobbered
            PROVE  proposals'[memory'[m].metadata.proposal_id].kind = "transcript"
            <3>1. memory'[k].metadata.proposal_id = memory[k].metadata.proposal_id
                  BY <2>2, <2>6 DEF SameTrace
            <3>2. CASE /\ memory'[m].metadata.proposal_id = i
                  <4>1. proposals[i].status = "applied" \/ i \in overruled
                        BY <2>6, <3>1, <3>2 DEF EffectInv, EffectsTraced, Traced, Traces
                  <4>2. i \notin Pending
                        BY <1>3, <4>1, PendingOnes
                  <4> QED
                      BY <2>2, <2>3, <3>2, <4>2
            <3>3. CASE memory'[m].metadata.proposal_id = memory[m].metadata.proposal_id
                  <4>1. PICK q : q = memory[m].metadata.proposal_id
                        OBVIOUS
                  <4>2. /\ q \in DOMAIN proposals /\ proposals[q].kind = "transcript"
                        BY <2>6, <3>1, <3>3, <4>1 DEF EffectInv, EffectsTraced, MadeOnce, Traced, Traces
                  <4> QED
                      BY <1>2, <3>3, <4>1, <4>2 DEF ProposalsStep
            <3> QED
                BY <2>2, <3>2, <3>3 DEF Marks
      <2>7. ASSUME NEW j \in Memory \ clobbered, NEW k \in Memory \ clobbered,
                   j # k, j # m, k # m,
                   memory'[j].metadata.proposal_id = memory'[k].metadata.proposal_id,
                   memory'[j].metadata.proposal_id # None
            PROVE  proposals'[memory'[j].metadata.proposal_id].kind = "transcript"
            <3>1. PICK q : q = memory[j].metadata.proposal_id
                  OBVIOUS
            <3>2. /\ memory'[j].metadata.proposal_id = q
                  /\ memory[k].metadata.proposal_id = q
                  BY <2>2, <2>7, <3>1 DEF SameTrace
            <3>3. q \in DOMAIN proposals /\ proposals[q].kind = "transcript"
                  BY <2>7, <3>1, <3>2 DEF EffectInv, EffectsTraced, MadeOnce, Traced, Traces
            <3> QED
                BY <3>2, <3>3, <1>2 DEF ProposalsStep
      <2>8. MadeOnce'
            <3> SUFFICES ASSUME NEW j \in Memory \ clobbered, NEW k \in Memory \ clobbered,
                                memory'[j].metadata.proposal_id = memory'[k].metadata.proposal_id,
                                memory'[j].metadata.proposal_id # None, j # k
                         PROVE  proposals'[memory'[j].metadata.proposal_id].kind = "transcript"
                BY <1>2 DEF MadeOnce
            <3>1. CASE j = m
                  BY <2>6, <3>1
            <3>2. CASE k = m
                  <4>1. proposals'[memory'[k].metadata.proposal_id].kind = "transcript"
                        BY <2>6, <3>2
                  <4> QED
                      BY <4>1
            <3>3. CASE j # m /\ k # m
                  BY <2>7, <3>3
            <3> QED
                BY <3>1, <3>2, <3>3
      <2> QED
          BY <1>5, <1>6, <2>5, <2>8 DEF EffectInv
<1> QED
    BY <1>7, <1>8

-----------------------------------------------------------------------------
(* What a run saw stays what it is, whatever is decided on it                *)
LEMMA SeenElsewhere ==
    ASSUME SeenWithin, ProposalsStep, NEW d \in Caller, job'[d] = job[d], job[d].op = "await",
           NEW i \in job[d].seen
    PROVE  /\ i \in DOMAIN proposals' /\ proposals'[i].kind \in {"digest", "guard", "product"}
           /\ proposals'[i].sources \subseteq job'[d].cluster
           /\ proposals'[i].sources # job'[d].cluster
           /\ proposals'[i].sources \cap job'[d].cluster # {}
<1>1. /\ i \in DOMAIN proposals /\ proposals[i].kind \in {"digest", "guard", "product"}
      /\ proposals[i].sources \subseteq job[d].cluster /\ proposals[i].sources # job[d].cluster
      /\ proposals[i].sources \cap job[d].cluster # {}
      BY PendingOnes DEF SeenWithin
<1>2. /\ i \in DOMAIN proposals' /\ proposals'[i].kind = proposals[i].kind
      /\ proposals'[i].sources = proposals[i].sources
      BY <1>1 DEF ProposalsStep
<1> QED
    BY <1>1, <1>2

LEMMA SeenStep ==
    ASSUME Typed, SeenWithin, ProposalsStep, NEW c \in Caller, NEW j,
           job' = [job EXCEPT ![c] = j],
           j.op = "await" =>
              \A i \in j.seen :
                 /\ i \in DOMAIN proposals
                 /\ i \in OfKind({"digest", "guard", "product"})
                 /\ proposals[i].sources \subseteq j.cluster /\ proposals[i].sources # j.cluster
                 /\ proposals[i].sources \cap j.cluster # {}
    PROVE  SeenWithin'
<1>1. job'[c] = j /\ \A d \in Caller \ {c} : job'[d] = job[d]
      BY TypedFacts
<1>2. ASSUME NEW d \in Caller, job'[d].op = "await", NEW i \in job'[d].seen
      PROVE  /\ i \in DOMAIN proposals' /\ proposals'[i].kind \in {"digest", "guard", "product"}
             /\ proposals'[i].sources \subseteq job'[d].cluster
             /\ proposals'[i].sources # job'[d].cluster
             /\ proposals'[i].sources \cap job'[d].cluster # {}
      <2>1. CASE d = c
            <3>1. /\ i \in DOMAIN proposals /\ proposals[i].kind \in {"digest", "guard", "product"}
                  /\ proposals[i].sources \subseteq j.cluster /\ proposals[i].sources # j.cluster
                  /\ proposals[i].sources \cap j.cluster # {}
                  BY <1>1, <1>2, <2>1, PendingOnes
            <3>2. /\ i \in DOMAIN proposals' /\ proposals'[i].kind = proposals[i].kind
                  /\ proposals'[i].sources = proposals[i].sources
                  BY <3>1 DEF ProposalsStep
            <3> QED
                BY <1>1, <2>1, <3>1, <3>2
      <2>2. CASE d # c
            BY <1>1, <1>2, <2>2, SeenElsewhere
      <2> QED
          BY <2>1, <2>2
<1> QED
    BY <1>2 DEF SeenWithin, OfKind

LEMMA GraphSeen ==
    ASSUME Typed, SeenWithin, NEW c \in Caller, GraphTurn(c), proposals' = proposals
    PROVE  SeenWithin'
<1>1. PICK j \in GraphJob : job' = [job EXCEPT ![c] = j]
      BY DEF GraphTurn, Turn
<1>2. j.op # "await"
      BY DEF GraphJob, Idle
<1> QED
    BY <1>1, <1>2, SameProposals, SeenStep

LEMMA DreamSeen ==
    ASSUME Typed, SeenWithin, NEW c \in Caller, JobStep(c), ProposalsStep
    PROVE  SeenWithin'
<1>1. PICK j : Hand(j) /\ job' = [job EXCEPT ![c] = j]
      BY DEF JobStep
<1> QED
    BY <1>1, SeenStep DEF Hand

-----------------------------------------------------------------------------
(* The invariant: all of it, and that it holds from the start                *)
Inv == Typed /\ IndexInv /\ FoundInv /\ DigestInv /\ EffectInv /\ SeenWithin

LEMMA SoundRows ==
    ASSUME NEW rows \in [Memory -> Row], Sound(rows)
    PROVE  /\ StoredNamed(rows) /\ UniqueNames(rows)
           /\ \A m \in Memory : /\ Exact(rows[m])
                                /\ rows[m].metadata.proposal_id = None
                                /\ rows[m].metadata.guard = None
<1>1. \A m \in Memory : /\ rows[m].terms = Says(rows[m])
                        /\ rows[m].listed <=> rows[m].status = "active"
                        /\ Kept(rows[m]) => rows[m].name # None
                        /\ rows[m].metadata.proposal_id = None
                        /\ rows[m].metadata.guard = None
      BY DEF Sound, Kept
<1>2. StoredNamed(rows)
      <2> SUFFICES ASSUME NEW m \in Memory, Kept(rows[m]) PROVE rows[m].name \in Name
          BY DEF StoredNamed
      <2>1. rows[m] \in Row
            OBVIOUS
      <2> QED
          BY <1>1, <2>1, RowFields
<1>3. ASSUME NEW m \in Memory, NEW k \in Memory, Kept(rows[m]), Kept(rows[k]),
             rows[m].name = rows[k].name
      PROVE  m = k
      <2>1. PICK n \in Name : n = rows[m].name
            BY <1>2, <1>3 DEF StoredNamed
      <2>2. m \in Named(rows, n) /\ k \in Named(rows, n)
            BY <1>3, <2>1 DEF Named, Kept
      <2> QED
          BY <2>2 DEF Sound
<1> QED
    BY <1>1, <1>2, <1>3 DEF UniqueNames, Exact

LEMMA InitTyped ==
    ASSUME Init
    PROVE  /\ Typed
           /\ \A m \in Memory : /\ Exact(memory[m])
                                /\ memory[m].metadata.proposal_id = None
                                /\ memory[m].metadata.guard = None
<1>1. /\ \E s \in Scenarios : memory = s.memory /\ left = s.left
      /\ job = [c \in Caller |-> Idle]
      /\ drifted = {} /\ torn = {} /\ clobbered = {}
      /\ proposals = <<>> /\ relations = {} /\ judged = {} /\ overruled = {}
      BY DEF Init
<1>2. memory \in [Memory -> Row] /\ left \in Left /\ Sound(memory)
      BY <1>1, BoundsAssumption, ScenariosAssumption
<1>3. /\ StoredNamed(memory) /\ UniqueNames(memory)
      /\ \A m \in Memory : /\ Exact(memory[m])
                           /\ memory[m].metadata.proposal_id = None
                           /\ memory[m].metadata.guard = None
      BY <1>2, SoundRows
<1>4. job \in [Caller -> Job] /\ \A c \in Caller : job[c] = Idle
      BY <1>1 DEF Job, GraphJob
<1>5. proposals \in Seq(ProposalRow) /\ DOMAIN proposals = {} /\ Len(proposals) <= MaxProposals
      BY <1>1, NamesAssumption
<1>6. TypeOK
      BY <1>1, <1>2, <1>4, <1>5 DEF TypeOK
<1>7. InHand /\ HandledOld
      BY <1>4, IdleTurn DEF InHand, HandledOld, Old, Idle
<1>8. ProposalShapes /\ SourcesOld
      BY <1>5 DEF ProposalShapes, SourcesOld
<1> QED
    BY <1>3, <1>6, <1>7, <1>8 DEF Typed

LEMMA InitInv ==
    ASSUME Init
    PROVE  Inv
<1>1. /\ Typed
      /\ \A m \in Memory : /\ Exact(memory[m])
                           /\ memory[m].metadata.proposal_id = None
                           /\ memory[m].metadata.guard = None
      BY InitTyped
<1>2. /\ job = [c \in Caller |-> Idle]
      /\ proposals = <<>> /\ relations = {} /\ judged = {} /\ overruled = {}
      BY DEF Init
<1>3. \A c \in Caller : job[c].op = "idle"
      BY <1>2 DEF Idle
<1>4. IndexInv
      BY <1>1, <1>3 DEF IndexInv, Cuts, Cutting
<1>5. FoundInv
      BY <1>1, ExactIsFound DEF FoundInv
<1>6. DigestInv
      BY <1>2 DEF DigestInv
<1>7. DOMAIN proposals = {}
      BY <1>2
<1>8. EffectInv
      BY <1>1, <1>2, <1>7 DEF EffectInv, EffectsTraced, Traced, Traces, MadeOnce,
         OverruledDecided, RelationsJudged, OfKind
<1>9. SeenWithin
      BY <1>3 DEF SeenWithin
<1> QED
    BY <1>1, <1>4, <1>5, <1>6, <1>8, <1>9 DEF Inv

LEMMA StutterInv ==
    ASSUME Inv, UNCHANGED vars
    PROVE  Inv'
<1>1. /\ memory' = memory /\ job' = job /\ drifted' = drifted /\ torn' = torn
      /\ clobbered' = clobbered /\ left' = left
      /\ proposals' = proposals /\ relations' = relations /\ judged' = judged
      /\ overruled' = overruled
      BY DEF vars, graph, dream
<1>2. Typed'
      BY <1>1 DEF Inv, Typed, TypeOK, StoredNamed, UniqueNames, ProposalShapes, InHand,
         HandledOld, SourcesOld, Old
<1>3. IndexInv' /\ FoundInv'
      BY <1>1 DEF Inv, IndexInv, FoundInv, Cuts
<1>4. DigestInv' /\ SeenWithin'
      BY <1>1 DEF Inv, DigestInv, SeenWithin, OfKind
<1>5. EffectInv'
      BY <1>1 DEF Inv, EffectInv, EffectsTraced, Traced, Traces, MadeOnce, OverruledDecided,
         RelationsJudged, OfKind
<1> QED
    BY <1>2, <1>3, <1>4, <1>5 DEF Inv

LEMMA NextInv ==
    ASSUME Inv, Next
    PROVE  Inv'
<1>1. Typed /\ IndexInv /\ FoundInv /\ DigestInv /\ EffectInv /\ SeenWithin
      BY DEF Inv
<1>2. CASE /\ GraphStep /\ relations' \subseteq relations
           /\ proposals' = proposals /\ judged' = judged /\ overruled' = overruled
      <2>1. /\ \E c \in Caller : GraphTurn(c)
            /\ IndexInv' /\ FoundInv'
            BY <1>1, <1>2, GraphStepFacts
      <2>2. PICK c \in Caller : GraphTurn(c)
            BY <2>1
      <2> QED
          BY <1>1, <1>2, <2>1, <2>2, GraphTyped, GraphDigest, GraphEffect, GraphSeen DEF Inv
<1>3. CASE RunStep
      <2>1. PICK c \in Caller : RunTurn(c)
            BY <1>1, <1>3, RunStepFacts
      <2>2. Reads /\ JobStep(c) /\ ProposalsStep
            BY <2>1 DEF RunTurn
      <2>3. IndexInv' /\ FoundInv'
            BY <1>1, <2>2, ReadsStep, DreamIndex
      <2> QED
          BY <1>1, <2>1, <2>2, <2>3, RunTyped, RunDigest, RunEffect, DreamSeen DEF Inv
<1>4. CASE ReviewStep
      <2>1. PICK c \in Caller : ReviewTurn(c)
            BY <1>1, <1>4, ReviewStepFacts
      <2>2. JobStep(c) /\ IndexStep /\ ProposalsStep
            BY <2>1 DEF ReviewTurn
      <2>3. IndexInv' /\ FoundInv'
            BY <1>1, <2>2, DreamIndex
      <2> QED
          BY <1>1, <2>1, <2>2, <2>3, ReviewTyped, ReviewDigest, ReviewEffect, DreamSeen DEF Inv
<1> QED
    BY <1>2, <1>3, <1>4 DEF Next

LEMMA Invariance == Spec => []Inv
<1>1. Inv /\ [Next]_vars => Inv'
      BY NextInv, StutterInv
<1> QED
    BY <1>1, InitInv, PTL DEF Spec

-----------------------------------------------------------------------------
(* What the invariant says                                                   *)
LEMMA RemovingIsCutting ==
    ASSUME NEW m PROVE Removing(m) <=> \E c \in Caller : Cuts(c, m)
BY DEF Removing, Cuts, Cutting

LEMMA ExactIndex ==
    ASSUME IndexInv PROVE IndexIsExact
BY RemovingIsCutting DEF IndexInv, IndexIsExact, Exact

LEMMA FoundMemories ==
    ASSUME Typed, FoundInv PROVE ActiveIsFound
<1> SUFFICES ASSUME NEW m \in Active, m \notin torn, ~Removing(m)
             PROVE  Says(memory[m]) \subseteq memory[m].terms
    BY DEF ActiveIsFound
<1>1. m \in Memory /\ memory[m] \in Row /\ memory[m].name \in Name
      BY TypedFacts DEF Active, StoredNamed, Kept
<1>2. \A x \in Lost(memory[m]) : FALSE
      BY <1>1, RemovingIsCutting DEF FoundInv
<1> QED
    BY <1>1, <1>2, AllFound

(* Of a proposal that is no transcript, at most one memory bears a trace     *)
LEMMA OneTrace ==
    ASSUME Typed, EffectInv, NEW i \in DOMAIN proposals, proposals[i].kind # "transcript",
           NEW m \in Effects(i), NEW k \in Effects(i)
    PROVE  m = k
<1>1. i # None /\ Fits(proposals[i])
      BY ProposalFacts, NamesAssumption
<1>2. /\ m \in Memory \ clobbered /\ k \in Memory \ clobbered
      /\ i \in {memory[m].metadata.proposal_id, memory[m].metadata.guard}
      /\ i \in {memory[k].metadata.proposal_id, memory[k].metadata.guard}
      BY DEF Effects
<1>3. Traced(m) /\ Traced(k)
      BY <1>2 DEF EffectInv, EffectsTraced
<1>4. CASE proposals[i].kind = "guard"
      <2>1. PICK l \in Memory : proposals[i].sources = {l}
            BY <1>1, <1>4 DEF Fits
      <2>2. memory[m].metadata.guard = i /\ memory[k].metadata.guard = i
            BY <1>1, <1>2, <1>3, <1>4 DEF Traced
      <2>3. m \in proposals[i].sources /\ k \in proposals[i].sources
            BY <1>1, <1>3, <2>2 DEF Traced
      <2> QED
          BY <2>1, <2>3
<1>5. CASE proposals[i].kind # "guard"
      <2>1. memory[m].metadata.guard # i /\ memory[k].metadata.guard # i
            BY <1>1, <1>3, <1>5 DEF Traced
      <2>2. memory[m].metadata.proposal_id = i /\ memory[k].metadata.proposal_id = i
            BY <1>2, <2>1
      <2> QED
          BY <1>1, <1>2, <2>2 DEF EffectInv, MadeOnce
<1> QED
    BY <1>4, <1>5

LEMMA OneEffect ==
    ASSUME Typed, EffectInv PROVE OneEffectPerProposal
<1> SUFFICES ASSUME NEW i \in DOMAIN proposals
             PROVE  /\ Effects(i) # {} => proposals[i].status = "applied" \/ i \in overruled
                    /\ Cardinality(Effects(i)) > 1 => proposals[i].kind = "transcript"
                    /\ proposals[i].kind = "relation" =>
                          \A k \in OfKind({"relation"}) :
                             proposals[k].sources = proposals[i].sources => k = i
    BY DEF OneEffectPerProposal
<1>1. ASSUME NEW m \in Effects(i) PROVE proposals[i].status = "applied" \/ i \in overruled
      <2>1. /\ m \in Memory \ clobbered /\ i # None
            /\ i \in {memory[m].metadata.proposal_id, memory[m].metadata.guard}
            BY ProposalFacts, NamesAssumption DEF Effects
      <2> QED
          BY <2>1 DEF EffectInv, EffectsTraced, Traced, Traces
<1>2. ASSUME proposals[i].kind # "transcript" PROVE ~(Cardinality(Effects(i)) > 1)
      <2>1. CASE Effects(i) = {}
            BY <2>1, FS_EmptySet
      <2>2. CASE Effects(i) # {}
            <3>1. PICK m : Effects(i) = {m}
                  BY <1>2, <2>2, OneTrace
            <3> QED
                BY <3>1, FS_Singleton
      <2> QED
          BY <2>1, <2>2
<1>3. proposals[i].kind = "relation" =>
        \A k \in OfKind({"relation"}) : proposals[k].sources = proposals[i].sources => k = i
      BY PendingOnes DEF EffectInv, RelationsJudged
<1> QED
    BY <1>1, <1>2, <1>3

(* What a step may not do                                                    *)
Decision ==
    \A i \in DOMAIN proposals :
        proposals[i].status # "pending" =>
            \/ proposals'[i].status = proposals[i].status
            \/ proposals[i].kind = "transcript"
            \/ i \in overruled'

LEMMA DecisionStep ==
    ASSUME Inv, Next
    PROVE  Decision
<1>1. Typed
      BY DEF Inv
<1>2. CASE GraphStep /\ proposals' = proposals
      BY <1>2 DEF Decision
<1>3. CASE RunStep
      <2>1. RunDecides
            BY <1>1, <1>3, RunStepFacts DEF RunTurn
      <2> QED
          BY <2>1, PendingOnes DEF Decision, RunDecides
<1>4. CASE ReviewStep
      <2>1. PICK i : Decides(i)
            BY <1>1, <1>4, ReviewStepFacts DEF ReviewTurn
      <2> QED
          BY <2>1, PendingOnes DEF Decision, Decides
<1> QED
    BY <1>2, <1>3, <1>4 DEF Next

Replaced(c) ==
    job[c].op = "await" /\ job'[c] # job[c] /\ proposals' # proposals =>
        \A i \in job[c].seen : proposals'[i].status # "pending"

LEMMA WriteReplaces ==
    ASSUME Typed, SeenWithin, NEW c \in Caller, WriteProposal(c), NEW i \in job[c].seen
    PROVE  proposals'[i].status # "pending"
<1>1. /\ job[c].op = "await"
      /\ \A k \in DOMAIN proposals :
            IF k \in Narrower(job[c].cluster) THEN proposals'[k].status = "rejected"
            ELSE proposals'[k] = proposals[k]
      BY WriteProposalFacts
<1>2. /\ i \in DOMAIN proposals /\ i \in OfKind({"digest", "guard", "product"})
      /\ proposals[i].sources \subseteq job[c].cluster
      /\ proposals[i].sources # job[c].cluster
      /\ proposals[i].sources \cap job[c].cluster # {}
      BY <1>1 DEF SeenWithin
<1>3. i \in Pending => i \in Narrower(job[c].cluster)
      BY <1>2 DEF Narrower, Related, Comparable
<1>4. CASE i \in Narrower(job[c].cluster)
      BY <1>1, <1>2, <1>4
<1>5. CASE i \notin Narrower(job[c].cluster)
      <2>1. proposals'[i] = proposals[i] /\ proposals[i].status # "pending"
            BY <1>1, <1>2, <1>3, <1>5, PendingOnes
      <2> QED
          BY <2>1
<1> QED
    BY <1>4, <1>5

LEMMA RunReplaces ==
    ASSUME Typed, SeenWithin, RunStep, NEW c \in Caller
    PROVE  Replaced(c)
<1>1. PICK d \in Caller :
        \/ RunDreamer(d) \/ ConsiderCluster(d) \/ HealOverlap(d)
        \/ ModelDeclines(d) \/ WriteProposal(d)
        \/ ProposeGuards(d) \/ AskForGuard(d) \/ GuardAnswer(d)
        \/ RunPatternDetector(d) \/ WritePatternProposal(d)
        \/ StageTranscript(d) \/ InsertTranscript(d)
        \/ StageProductImprovement(d) \/ JudgePair(d) \/ RecordVerdict(d)
      BY DEF RunStep
<1>2. RunTurn(d)
      BY <1>1, RunDreamerTurn, ConsiderClusterTurn, HealOverlapTurn, ModelDeclinesTurn,
         WriteProposalTurn, ProposeGuardsTurn, AskForGuardTurn, GuardAnswerTurn,
         RunPatternDetectorTurn, WritePatternProposalTurn, StageTranscriptTurn,
         InsertTranscriptTurn, StageProductImprovementTurn, JudgePairTurn, RecordVerdictTurn
<1>3. CASE c # d
      <2>1. job'[c] = job[c]
            BY <1>2, <1>3, OtherJobs DEF RunTurn, JobStep
      <2> QED
          BY <2>1 DEF Replaced
<1>4. CASE WriteProposal(d) /\ c = d
      BY <1>4, WriteReplaces DEF Replaced
<1>5. CASE ModelDeclines(d)
      BY <1>5 DEF Replaced, ModelDeclines, dream
<1>6. CASE \/ RunDreamer(d) \/ RunPatternDetector(d) \/ StageTranscript(d)
           \/ StageProductImprovement(d) \/ JudgePair(d)
      <2>1. job[d] = Idle
            BY <1>6 DEF RunDreamer, RunPatternDetector, StageTranscript,
               StageProductImprovement, JudgePair, Begin
      <2>2. job[d].op # "await"
            BY <2>1 DEF Idle
      <2> QED
          BY <1>3, <2>2 DEF Replaced
<1>7. CASE \/ ConsiderCluster(d) \/ HealOverlap(d) \/ ProposeGuards(d) \/ AskForGuard(d)
           \/ GuardAnswer(d) \/ WritePatternProposal(d) \/ InsertTranscript(d)
           \/ RecordVerdict(d)
      <2>1. job[d].op # "await"
            BY <1>7 DEF ConsiderCluster, HealOverlap, ProposeGuards, AskForGuard, GuardAnswer,
               WritePatternProposal, InsertTranscript, RecordVerdict
      <2> QED
          BY <1>3, <2>1 DEF Replaced
<1> QED
    BY <1>1, <1>3, <1>4, <1>5, <1>6, <1>7

LEMMA ReplacedStep ==
    ASSUME Inv, Next, NEW c \in Caller
    PROVE  Replaced(c)
<1>1. Typed /\ SeenWithin
      BY DEF Inv
<1>2. CASE GraphStep /\ proposals' = proposals
      BY <1>2 DEF Replaced
<1>3. CASE RunStep
      BY <1>1, <1>3, RunReplaces
<1>4. CASE ReviewStep
      <2>1. PICK d \in Caller : JobStep(d) /\ job[d].op # "await"
            BY <1>1, <1>4, ReviewStepFacts DEF ReviewTurn
      <2>2. CASE c = d
            BY <2>1, <2>2 DEF Replaced
      <2>3. CASE c # d
            <3>1. job'[c] = job[c]
                  BY <1>1, <2>1, <2>3, OtherJobs DEF JobStep
            <3> QED
                BY <3>1 DEF Replaced
      <2> QED
          BY <2>2, <2>3
<1> QED
    BY <1>2, <1>3, <1>4 DEF Next

-----------------------------------------------------------------------------
(* Rows, jobs, proposals and the history keep their types and the proposals  *)
(* stay within their bound, whatever jobs that read them earlier write       *)
(* (knowledge-graph.ts, dreamer.ts).                                         *)
THEOREM DreamerTyped == Spec => []TypeOK
<1>1. Inv => TypeOK
      BY DEF Inv, Typed
<1> QED
    BY <1>1, Invariance, PTL

(* The entry of a memory in the contentless index is what the memory says,   *)
(* whatever writers interleave, for as long as none of them disturbed a      *)
(* removal under way or worked from a stale name or text (fts-index.ts,      *)
(* knowledge-graph.ts:1149).                                                 *)
THEOREM IndexSaysWhatMemoriesSay == Spec => []IndexIsExact
<1>1. Inv => IndexIsExact
      BY ExactIndex DEF Inv
<1> QED
    BY <1>1, Invariance, PTL

(* An active memory is found by every word of its name and its text, also    *)
(* where these share words and its writers overlapped: a removal under way   *)
(* owes what is missing, or a writer that worked from what it had read       *)
(* before took it, in one of the four ways of ActiveIsFound.                 *)
THEOREM MemoriesAreFound == Spec => []ActiveIsFound
<1>1. Inv => ActiveIsFound
      BY FoundMemories DEF Inv
<1> QED
    BY <1>1, Invariance, PTL

(* A memory that a digest summarises points back to it and so to no other,   *)
(* however many overlapping digests are staged and accepted                  *)
(* (dreamer.ts:1742).                                                        *)
THEOREM DigestsShareNoSource == Spec => []OneDigestPerSource
<1>1. Inv => OneDigestPerSource
      BY DEF Inv, DigestInv, OneDigestPerSource
<1> QED
    BY <1>1, Invariance, PTL

(* What a proposal made was accepted and is its only effect, but for         *)
(* transcripts, and a pair of memories has one relation proposal             *)
(* (dreamer.ts:1537, conflict-judge.ts:333).                                 *)
THEOREM ProposalsActOnce == Spec => []OneEffectPerProposal
<1>1. Inv => OneEffectPerProposal
      BY OneEffect DEF Inv
<1> QED
    BY <1>1, Invariance, PTL

(* No reviewer turns a decision round, whoever read the proposal while it    *)
(* was pending (dreamer.ts, applyProposal and rejectProposal).               *)
THEOREM DecisionsStand == Spec => DecidedForGood
<1>1. Inv /\ [Next]_vars => [Decision]_vars
      BY DecisionStep
<1> QED
    BY <1>1, Invariance, PTL DEF Spec, DecidedForGood, Decision

(* A run that stages a digest retires every overlapping proposal it saw      *)
(* before it asked the model (dreamer.ts:398).                               *)
THEOREM RivalsAreRetired == Spec => RivalsAreUnseen
<1>1. Inv /\ [Next]_vars => [\A c \in Caller : Replaced(c)]_vars
      BY ReplacedStep
<1> QED
    BY <1>1, Invariance, PTL DEF Spec, RivalsAreUnseen, Replaced
=============================================================================
