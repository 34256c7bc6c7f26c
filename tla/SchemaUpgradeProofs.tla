------------------------- MODULE SchemaUpgradeProofs -------------------------
(* Proofs about SchemaUpgrade: whatever an earlier release left, however     *)
(* many processes open the file and whatever is written meanwhile, a marker  *)
(* is set only over finished work and the indexes say what they should.      *)
EXTENDS SchemaUpgrade, SequenceTheorems, TLAPS

Opening == [pc : {"closed", "checking", "due", "read", "broken", "open"},
            at : Nat, seen : SUBSET Entity, stale : BOOLEAN]

(* A process in the middle of opening is at one of its passes                *)
Positions ==
    \A p \in Process :
        opening[p].pc \notin {"closed", "open"} => opening[p].at \in 1..Len(PassesOf(p))

(* A work list is of a back-fill, and while nobody has committed since it    *)
(* was read it is what that back-fill has to do                              *)
WorkLists ==
    \A p \in Process : opening[p].pc = "read" =>
        /\ CurrentPass(p) \in Backfill
        /\ ~opening[p].stale => opening[p].seen = Having(row, CurrentPass(p))

IInv == TypeOK /\ Positions /\ WorkLists /\ IndexesAreTrue

(* The split of lesson buckets comes before the pass over archived vectors,  *)
(* unless it has been put off                                                *)
Beyond(p) == opening[p].pc \notin {"closed", "open"} /\ opening[p].at > 6
InOrder ==
    /\ "archived_vec" \in stamped /\ "fused" \notin stamped => deferred
    /\ attempt["fused"] # "none" => deferred
    /\ \A p \in Process \ Hooks : Beyond(p) => "fused" \in stamped \/ deferred

(* What IndexesAreTrue says of the keyword index                             *)
EntriesTrue == \A e \in Entity \ drifted : Exact(row[e]) \/ Relisted(e)

-----------------------------------------------------------------------------
(* Rows and passes                                                           *)

LEMMA LargerRange ==
    ASSUME NEW S, NEW T, S \subseteq T, NEW s \in Seq(S)
    PROVE  s \in Seq(T) /\ \A i \in 1..Len(s) : s[i] \in S
OBVIOUS

LEMMA KeywordSequence == KeywordPasses \in Seq(Pass) /\ Len(KeywordPasses) = 9
<1>1. /\ "unscored" \in Pass /\ "untitled" \in Pass /\ "untrusted" \in Pass
      /\ "repeats" \in Pass /\ "claims" \in Pass /\ "fused" \in Pass
      /\ "hits" \in Pass /\ "segmented" \in Pass /\ "archived_fts" \in Pass
  BY DEF Pass, Flaw, Backfill, Repair, IndexPass
<1>2. Len(KeywordPasses) = 9
  BY DEF KeywordPasses
<1>3. KeywordPasses \in Seq({"unscored", "untitled", "untrusted", "repeats",
          "claims", "fused", "hits", "segmented", "archived_fts"})
  BY DEF KeywordPasses
<1>4. {"unscored", "untitled", "untrusted", "repeats", "claims", "fused", "hits",
       "segmented", "archived_fts"} \subseteq Pass
  BY <1>1
<1>. QED  BY <1>2, <1>3, <1>4, LargerRange

LEMMA PassSequences ==
    ASSUME NEW p \in Process
    PROVE  PassesOf(p) \in Seq(Pass) /\ Len(PassesOf(p)) > 0
<1>1. KeywordPasses \in Seq(Pass) /\ Len(KeywordPasses) = 9
  BY KeywordSequence
<1>2. <<"segmented">> \in Seq(Pass) /\ Len(<<"segmented">>) = 1
  BY DEF Pass, IndexPass
<1>3. "archived_vec" \in Pass
  BY DEF Pass, IndexPass
<1>4. ASSUME NEW s \in Seq(Pass), NEW k \in Pass
      PROVE  Append(s, k) \in Seq(Pass) /\ Len(Append(s, k)) = Len(s) + 1
  BY AppendProperties
<1>. QED  BY <1>1, <1>2, <1>3, <1>4 DEF PassesOf

(* Where PassesOf puts the two passes that depend on each other              *)
LEMMA Places ==
    ASSUME NEW p \in Process, NEW i \in 1..Len(PassesOf(p))
    PROVE  /\ p \notin Hooks /\ i = 6 => PassesOf(p)[i] = "fused"
           /\ PassesOf(p)[i] = "archived_vec" => i > 6 /\ p \notin Hooks
<1>1. CASE p \in Hooks
  BY <1>1 DEF PassesOf
<1>2. CASE p \notin Hooks
  <2>1. /\ KeywordPasses[1] = "unscored" /\ KeywordPasses[2] = "untitled"
        /\ KeywordPasses[3] = "untrusted" /\ KeywordPasses[4] = "repeats"
        /\ KeywordPasses[5] = "claims" /\ KeywordPasses[6] = "fused"
    BY DEF KeywordPasses
  <2>2. KeywordPasses \in Seq(Pass) /\ Len(KeywordPasses) = 9 /\ "archived_vec" \in Pass
    BY KeywordSequence DEF Pass, IndexPass
  <2>3. /\ Len(PassesOf(p)) \in {9, 10}
        /\ \A j \in 1..9 : PassesOf(p)[j] = KeywordPasses[j]
    <3>1. PassesOf(p) \in {KeywordPasses, Append(KeywordPasses, "archived_vec")}
      BY <1>2 DEF PassesOf
    <3>2. ASSUME NEW s \in Seq(Pass), Len(s) = 9, NEW k \in Pass
          PROVE  Len(Append(s, k)) = 10 /\ \A j \in 1..9 : Append(s, k)[j] = s[j]
      <4>1. /\ Len(Append(s, k)) = Len(s) + 1
            /\ \A j \in 1..Len(s) : Append(s, k)[j] = s[j]
        BY AppendProperties
      <4>. QED  BY <3>2, <4>1
    <3>. QED  BY <2>2, <3>1, <3>2
  <2>4. i \in 1..6 \/ i > 6
    BY <2>3
  <2>5. ASSUME i \in 1..6 PROVE PassesOf(p)[i] # "archived_vec"
    BY <2>1, <2>3, <2>5
  <2>. QED  BY <1>2, <2>1, <2>3, <2>4, <2>5
<1>. QED  BY <1>1, <1>2

(* What the index operations keep of a row, and what they make of its entry  *)
Same(r, s) ==
    /\ s \in Row
    /\ s.status = r.status /\ s.flaws = r.flaws /\ s.titled = r.titled
    /\ s.vector = r.vector
Stays(r, s) ==
    /\ Exact(r) => Exact(s)
    /\ r.terms \subseteq Entry(r) => s.terms \subseteq Entry(s)

LEMMA Rebuilding ==
    ASSUME NEW r \in Row
    PROVE  Same(r, Rebuilt(r)) /\ Exact(Rebuilt(r))
<1>1. Entry(r) \in SUBSET Term /\ {} \in SUBSET Term
  BY DEF Entry, Term
<1>2. Same(r, Rebuilt(r))
  BY <1>1 DEF Row, Same, Rebuilt
<1>3. Entry(Rebuilt(r)) = Entry(r)
  BY <1>2 DEF Same, Entry
<1>. QED  BY <1>2, <1>3 DEF Row, Same, Rebuilt, Exact

LEMMA Unindexing ==
    ASSUME NEW r \in Row, NEW u \in Unindexed(r)
    PROVE  /\ Same(r, u)
           /\ Exact(r) => u.terms = {} /\ ~u.listed
           /\ u.terms \subseteq r.terms
<1>1. CASE ~r.listed
  BY <1>1 DEF Row, Same, Unindexed, Exact
<1>2. CASE u = [r EXCEPT !.listed = FALSE, !.terms = @ \ Entry(r)]
  <2>1. Same(r, u) /\ ~u.listed /\ u.terms = r.terms \ Entry(r)
        /\ r.terms \subseteq Term
    BY <1>2 DEF Row, Same
  <2>. QED  BY <2>1 DEF Exact
<1>3. CASE u = r /\ ~(Entry(r) \subseteq r.terms)
  BY <1>3 DEF Same, Exact, Row
<1>. QED  BY <1>1, <1>2, <1>3 DEF Unindexed

LEMMA Indexing ==
    ASSUME NEW r \in Row
    PROVE  /\ Same(r, Indexed(r))
           /\ r.terms \subseteq Entry(r) => Indexed(r).terms = Entry(Indexed(r))
           /\ r.status = "active" /\ r.terms \subseteq Entry(r) => Exact(Indexed(r))
<1>1. Entry(r) \subseteq Term
  BY DEF Entry, Term
<1>2. /\ Same(r, Indexed(r)) /\ Indexed(r).listed
      /\ Indexed(r).terms = r.terms \cup Entry(r)
  BY <1>1 DEF Row, Same, Indexed
<1>3. Entry(Indexed(r)) = Entry(r)
  BY <1>2 DEF Same, Entry
<1>. QED  BY <1>2, <1>3 DEF Same, Exact

(* A row that is given a title has no fewer words                            *)
LEMMA LongerEntry ==
    ASSUME NEW r \in Row, NEW s \in Row, r.titled => s.titled
    PROVE  {} \subseteq Entry(s) /\ Entry(r) \subseteq Entry(s)
BY DEF Entry

LEMMA StillStays ==
    ASSUME NEW r \in Row, NEW s \in Row, s.status = r.status, s.titled = r.titled,
           s.listed = r.listed, s.terms = r.terms
    PROVE  Stays(r, s)
BY DEF Stays, Exact, Entry

LEMMA Filling ==
    ASSUME NEW r \in Row, NEW k \in Backfill, NEW s \in Filled(r, k)
    PROVE  /\ s \in Row
           /\ s.status = r.status /\ s.vector = r.vector
           /\ s.flaws = r.flaws \ {k}
           /\ Stays(r, s)
<1>1. CASE k # "untitled"
  <2>1. s = [r EXCEPT !.flaws = @ \ {k}]
    BY <1>1 DEF Filled
  <2>2. s \in Row /\ s.status = r.status /\ s.vector = r.vector /\ s.titled = r.titled
        /\ s.listed = r.listed /\ s.terms = r.terms /\ s.flaws = r.flaws \ {k}
    BY <2>1 DEF Row
  <2>. QED  BY <2>2, StillStays
<1>2. CASE k = "untitled" /\ r.status # "active"
  <2>1. s = [r EXCEPT !.titled = TRUE, !.flaws = @ \ {"untitled"}]
    BY <1>2 DEF Filled, Titled
  <2>2. s \in Row /\ s.status = r.status /\ s.vector = r.vector /\ s.titled
        /\ s.listed = r.listed /\ s.terms = r.terms /\ s.flaws = r.flaws \ {k}
    BY <1>2, <2>1 DEF Row
  <2>3. Entry(r) \subseteq Entry(s)
    BY <2>2, LongerEntry
  <2>. QED  BY <1>2, <2>2, <2>3 DEF Stays, Exact
<1>3. CASE k = "untitled" /\ r.status = "active"
  <2> DEFINE Given(u) == [u EXCEPT !.titled = TRUE, !.flaws = @ \ {"untitled"}]
  <2>1. PICK u \in Unindexed(r) : s = Indexed(Given(u))
    BY <1>3 DEF Filled, Titled
  <2>2. Same(r, u) /\ u.terms \subseteq r.terms
    BY <2>1, Unindexing
  <2>3. /\ Given(u) \in Row
        /\ Given(u).status = r.status /\ Given(u).vector = r.vector
        /\ Given(u).flaws = r.flaws \ {k}
        /\ Given(u).terms = u.terms /\ Given(u).titled
    BY <2>2, <1>3 DEF Same, Row
  <2> HIDE DEF Given
  <2>4. Entry(r) \subseteq Entry(Given(u))
    BY <2>3, LongerEntry
  <2>5. /\ Same(Given(u), s)
        /\ Given(u).terms \subseteq Entry(Given(u)) => s.terms = Entry(s) /\ Exact(s)
    BY <2>1, <2>3, <1>3, Indexing
  <2>6. Exact(r) => r.terms = Entry(r)
    BY <1>3 DEF Exact
  <2>7. Stays(r, s)
    BY <2>2, <2>3, <2>4, <2>5, <2>6 DEF Stays
  <2>. QED  BY <2>3, <2>5, <2>7 DEF Same
<1>. QED  BY <1>1, <1>2, <1>3

(* Moving to the next pass, or beyond the last one                           *)
LEMMA Advancing ==
    ASSUME TypeOK, Positions, NEW p \in Process,
           opening[p].pc \notin {"closed", "open"}
    PROVE  /\ Advanced(p) \in Opening
           /\ Advanced(p).pc \in {"checking", "open"}
           /\ Advanced(p).pc = "checking" => Advanced(p).at \in 1..Len(PassesOf(p))
           /\ CurrentPass(p) \in Pass
<1>1. opening[p].at \in 1..Len(PassesOf(p)) /\ Len(PassesOf(p)) \in Nat
  BY PassSequences DEF Positions
<1>2. PassesOf(p) \in Seq(Pass)
  BY PassSequences
<1>3. CurrentPass(p) \in Pass
  BY <1>1, <1>2, LargerRange DEF CurrentPass
<1>4. CASE opening[p].at = Len(PassesOf(p))
  BY <1>3, <1>4 DEF Advanced, Closed, Opened, Opening
<1>5. CASE opening[p].at # Len(PassesOf(p))
  <2>1. opening[p].at + 1 \in 1..Len(PassesOf(p)) /\ opening[p].at + 1 \in Nat
    BY <1>1, <1>5
  <2>2. Advanced(p) = [pc |-> "checking", at |-> opening[p].at + 1, seen |-> {},
                       stale |-> FALSE]
    BY <1>5 DEF Advanced, Closed
  <2>. QED  BY <1>3, <2>1, <2>2 DEF Opening
<1>. QED  BY <1>4, <1>5

-----------------------------------------------------------------------------
(* The two ways a step can move the processes                                *)

(* A record a process may hold: where it stands and what it has read         *)
Sound(p, o, rows) ==
    /\ o \in Opening
    /\ o.pc \notin {"closed", "open"} => o.at \in 1..Len(PassesOf(p))
    /\ o.pc = "read" =>
          /\ PassesOf(p)[o.at] \in Backfill
          /\ ~o.stale => o.seen = Having(rows, PassesOf(p)[o.at])

LEMMA AllSound ==
    ASSUME opening \in [Process -> Opening]
    PROVE  Positions /\ WorkLists <=> \A p \in Process : Sound(p, opening[p], row)
BY DEF Positions, WorkLists, Sound, CurrentPass

LEMMA AllSoundNext ==
    ASSUME opening' \in [Process -> Opening]
    PROVE  Positions' /\ WorkLists' <=> \A p \in Process : Sound(p, opening'[p], row')
BY DEF Positions, WorkLists, Sound, CurrentPass, Having

(* One process moves and the database stays as it is                         *)
LEMMA Moving ==
    ASSUME IInv, NEW p \in Process, NEW next, Sound(p, next, row), Step(p, next),
           UNCHANGED data,
           attempt' \in [Pass -> {"none", "recent", "past"}], deferred' \in BOOLEAN,
           left' \in [Event -> Nat]
    PROVE  IInv'
<1>1. opening' \in [Process -> Opening]
  BY DEF IInv, TypeOK, Opening, Step, Sound
<1>2. TypeOK'
  BY <1>1 DEF IInv, TypeOK, Opening, data
<1>3. \A q \in Process : Sound(q, opening'[q], row')
  <2>1. \A q \in Process : Sound(q, opening[q], row)
    BY AllSound DEF IInv, TypeOK, Opening
  <2>. QED  BY <2>1 DEF Step, IInv, TypeOK, data
<1>4. IndexesAreTrue'
  BY DEF IInv, IndexesAreTrue, Relisted, Archived, data
<1>. QED  BY <1>1, <1>2, <1>3, <1>4, AllSoundNext DEF IInv

(* Somebody commits, and what the others have read is stale                  *)
LEMMA StaleIsSound ==
    ASSUME NEW p \in Process, NEW rows, NEW after, NEW o, Sound(p, o, rows)
    PROVE  Sound(p, Staled(o), after)
BY DEF Sound, Staled, Opening

(* What TypeOK says of everything but the processes                          *)
Tables ==
    /\ row \in [Entity -> Row]
    /\ stamped \subseteq Pass
    /\ attempt \in [Pass -> {"none", "recent", "past"}]
    /\ owed \in BOOLEAN /\ waived \in BOOLEAN
    /\ drifted \subseteq Entity /\ relisted \subseteq Entity /\ deferred \in BOOLEAN
    /\ kept \in [Entity -> {"no", "split", "elsewhere"}]
    /\ left \in [Event -> Nat]

LEMMA Committing ==
    ASSUME IInv, opening' = [q \in Process |-> opening'[q]],
           \A q \in Process :
               \/ opening'[q] = Staled(opening[q])
               \/ Sound(q, opening'[q], row) /\ opening'[q].pc # "read",
           Tables', IndexesAreTrue'
    PROVE  IInv'
<1>1. \A q \in Process : Sound(q, opening[q], row)
  BY AllSound DEF IInv, TypeOK, Opening
<1>2. \A q \in Process : Sound(q, opening'[q], row')
  <2> SUFFICES ASSUME NEW q \in Process PROVE Sound(q, opening'[q], row')
    OBVIOUS
  <2>1. CASE opening'[q] = Staled(opening[q])
    BY <1>1, <2>1, StaleIsSound
  <2>2. CASE Sound(q, opening'[q], row) /\ opening'[q].pc # "read"
    BY <2>2 DEF Sound
  <2>. QED  BY <2>1, <2>2
<1>3. opening' \in [Process -> Opening]
  <2>1. \A q \in Process : opening'[q] \in Opening
    BY <1>2 DEF Sound
  <2>. QED  BY <2>1
<1>4. TypeOK'
  BY <1>3 DEF Tables, TypeOK, Opening
<1>. QED  BY <1>2, <1>3, <1>4, AllSoundNext DEF IInv

(* A process that commits and goes on                                        *)
LEMMA CommitsAndMoves ==
    ASSUME IInv, NEW p \in Process, NEW next, Sound(p, next, row), next.pc # "read",
           Commit(p, next), Tables', IndexesAreTrue'
    PROVE  IInv'
BY Committing DEF Commit

LEMMA OnwardIsSound ==
    ASSUME IInv, NEW p \in Process, opening[p].pc \notin {"closed", "open"}
    PROVE  /\ Sound(p, Advanced(p), row) /\ Advanced(p).pc # "read"
           /\ CurrentPass(p) \in Pass
BY Advancing DEF IInv, Sound

LEMMA ClosedIsSound ==
    ASSUME NEW p \in Process
    PROVE  Sound(p, Closed, row)
BY DEF Sound, Closed, Opening

(* An entry of this release for every memory leaves none inexact             *)
LEMMA RebuildingAll ==
    ASSUME NEW rows \in [Entity -> Row]
    PROVE  /\ RebuildAll(rows) \in [Entity -> Row]
           /\ \A e \in Entity : Same(rows[e], RebuildAll(rows)[e])
           /\ Inexact(RebuildAll(rows)) = {}
<1>1. \A e \in Entity : Same(rows[e], Rebuilt(rows[e])) /\ Exact(Rebuilt(rows[e]))
  BY Rebuilding
<1>2. \A e \in Entity : RebuildAll(rows)[e] = Rebuilt(rows[e])
  BY DEF RebuildAll
<1>3. RebuildAll(rows) \in [Entity -> Row]
  BY <1>1 DEF RebuildAll, Same
<1>4. Inexact(RebuildAll(rows)) = {}
  BY <1>1, <1>2 DEF Inexact
<1>. QED  BY <1>1, <1>2, <1>3, <1>4

-----------------------------------------------------------------------------
(* What a repair leaves behind                                               *)

Repaired(k) ==
    /\ row' \in [Entity -> Row]
    /\ owed' \in BOOLEAN /\ waived' \in BOOLEAN
    /\ drifted' \subseteq Entity /\ relisted' \subseteq Entity
    /\ kept' \in [Entity -> {"no", "split", "elsewhere"}]
    /\ Clean(k, row')
    /\ IndexesAreTrue'

(* A repair that changes neither statuses nor vectors nor the notice, and    *)
(* leaves every entry exact or the index as it was                           *)
LEMMA OnlyEntries ==
    ASSUME IInv, NEW k \in Pass, k # "archived_vec", stamped' = stamped \cup {k},
           UNCHANGED <<owed, kept, waived>>,
           \A e \in Entity : row'[e].status = row[e].status /\ row'[e].vector = row[e].vector,
           EntriesTrue'
    PROVE  IndexesAreTrue'
BY DEF IInv, IndexesAreTrue, EntriesTrue, Archived

LEMMA RebuiltIsTrue ==
    ASSUME Inexact(row') = {}
    PROVE  EntriesTrue'
BY DEF EntriesTrue, Inexact

LEMMA EntriesStand ==
    ASSUME IInv, UNCHANGED <<drifted, relisted>>,
           \A e \in Entity : row'[e].status = row[e].status /\ Stays(row[e], row'[e])
    PROVE  EntriesTrue'
BY DEF IInv, IndexesAreTrue, EntriesTrue, Relisted, Stays

(* Changing what a row needs, or its vector, leaves its entry alone          *)
LEMMA NeedsStand ==
    ASSUME NEW r \in Row, NEW flaws \in SUBSET Flaw
    PROVE  /\ [r EXCEPT !.flaws = flaws] \in Row
           /\ Stays(r, [r EXCEPT !.flaws = flaws])
BY StillStays DEF Row

LEMMA VectorStands ==
    ASSUME NEW r \in Row, NEW vector \in BOOLEAN
    PROVE  /\ [r EXCEPT !.vector = vector] \in Row
           /\ [r EXCEPT !.vector = vector].status = r.status
           /\ Stays(r, [r EXCEPT !.vector = vector])
BY StillStays DEF Row

LEMMA Mending ==
    ASSUME IInv, NEW k \in {"repeats", "claims"}, Mend(k), stamped' = stamped \cup {k}
    PROVE  Repaired(k)
<1>0. k \in Flaw /\ k \in Pass /\ k # "archived_vec"
  BY DEF Pass, Flaw, Repair
<1> DEFINE mended == [e \in Entity |-> [row[e] EXCEPT !.flaws = @ \ {k}]]
<1>1. CASE Having(row, k) = {}
  <2>1. row' = row /\ drifted' = drifted /\ relisted' = relisted
    BY <1>1 DEF Mend
  <2>2. EntriesTrue'
    BY <2>1, EntriesStand DEF Stays
  <2>3. UNCHANGED <<owed, kept, waived>>
    BY DEF Mend
  <2>. QED  BY <1>0, <1>1, <2>1, <2>2, <2>3, OnlyEntries DEF Repaired, IInv, TypeOK, Clean
<1>2. CASE Having(row, k) # {}
  <2>1. /\ row' = RebuildAll(mended) /\ drifted' = {} /\ relisted' = {}
        /\ UNCHANGED <<owed, kept, waived>>
    BY <1>2 DEF Mend
  <2>2. /\ mended \in [Entity -> Row]
        /\ \A e \in Entity : /\ mended[e].status = row[e].status
                             /\ mended[e].vector = row[e].vector
                             /\ mended[e].flaws = row[e].flaws \ {k}
    <3>1. \A e \in Entity : row[e] \in Row
      BY DEF IInv, TypeOK
    <3>2. \A e \in Entity : /\ mended[e] \in Row
                            /\ mended[e].status = row[e].status
                            /\ mended[e].vector = row[e].vector
                            /\ mended[e].flaws = row[e].flaws \ {k}
      BY <3>1 DEF Row
    <3>. QED  BY <3>2
  <2>3. /\ row' \in [Entity -> Row] /\ Inexact(row') = {}
        /\ \A e \in Entity : /\ row'[e].status = row[e].status
                             /\ row'[e].vector = row[e].vector
                             /\ row'[e].flaws = row[e].flaws \ {k}
    <3> HIDE DEF mended
    <3>. QED  BY <2>1, <2>2, RebuildingAll DEF Same
  <2>4. Having(row', k) = {}
    BY <2>3 DEF Having
  <2>5. IndexesAreTrue'
    BY <1>0, <2>1, <2>3, RebuiltIsTrue, OnlyEntries
  <2>. QED  BY <1>0, <2>1, <2>3, <2>4, <2>5 DEF Repaired, IInv, TypeOK, Clean
<1>. QED  BY <1>1, <1>2

LEMMA Rebuilds ==
    ASSUME IInv, NEW k \in {"segmented", "archived_fts"}, Rebuild,
           stamped' = stamped \cup {k}
    PROVE  Repaired(k)
<1>0. k \in Pass /\ k # "archived_vec" /\ k \notin Flaw
  BY DEF Pass, IndexPass, Flaw, Repair, Backfill
<1>1. row \in [Entity -> Row]
  BY DEF IInv, TypeOK
<1>2. /\ row' = RebuildAll(row) /\ drifted' = {} /\ relisted' = {}
      /\ UNCHANGED <<owed, kept, waived>>
  BY DEF Rebuild
<1>3. /\ row' \in [Entity -> Row] /\ Inexact(row') = {}
      /\ \A e \in Entity : row'[e].status = row[e].status /\ row'[e].vector = row[e].vector
  BY <1>1, <1>2, RebuildingAll DEF Same
<1>4. IndexesAreTrue'
  BY <1>0, <1>2, <1>3, RebuiltIsTrue, OnlyEntries
<1>. QED  BY <1>0, <1>2, <1>3, <1>4 DEF Repaired, IInv, TypeOK, Clean

LEMMA Retiring ==
    ASSUME IInv, RetireHistory, stamped' = stamped \cup {"hits"}
    PROVE  Repaired("hits")
<1>0. "hits" \in Pass /\ "hits" \in Flaw
  BY DEF Pass, Flaw, Repair
<1>1. /\ row' = [e \in Entity |-> [row[e] EXCEPT !.flaws = @ \ {"hits"}]]
      /\ UNCHANGED <<owed, drifted, relisted, kept, waived>>
  BY DEF RetireHistory
<1>2. /\ row' \in [Entity -> Row]
      /\ \A e \in Entity : /\ row'[e].status = row[e].status
                           /\ row'[e].vector = row[e].vector
                           /\ row'[e].flaws = row[e].flaws \ {"hits"}
                           /\ Stays(row[e], row'[e])
  <2>1. \A e \in Entity : row[e] \in Row /\ row[e].flaws \in SUBSET Flaw
    BY DEF IInv, TypeOK, Row
  <2>2. \A e \in Entity : row'[e] = [row[e] EXCEPT !.flaws = row[e].flaws \ {"hits"}]
    BY <1>1
  <2>3. \A e \in Entity : row'[e] \in Row /\ Stays(row[e], row'[e])
    <3> SUFFICES ASSUME NEW e \in Entity
                 PROVE  row'[e] \in Row /\ Stays(row[e], row'[e])
      OBVIOUS
    <3>1. row[e].flaws \ {"hits"} \in SUBSET Flaw
      BY <2>1
    <3>2. \A f \in SUBSET Flaw :
              /\ [row[e] EXCEPT !.flaws = f] \in Row
              /\ Stays(row[e], [row[e] EXCEPT !.flaws = f])
      BY <2>1, NeedsStand
    <3>3. row'[e] = [row[e] EXCEPT !.flaws = row[e].flaws \ {"hits"}]
      BY <2>2
    <3>. QED  BY <3>1, <3>2, <3>3
  <2>4. \A e \in Entity : /\ row'[e].status = row[e].status
                          /\ row'[e].vector = row[e].vector
                          /\ row'[e].flaws = row[e].flaws \ {"hits"}
    BY <2>1, <2>2 DEF Row
  <2>5. row' \in [Entity -> Row]
    BY <1>1, <2>3
  <2>. QED  BY <2>3, <2>4, <2>5
<1>3. Having(row', "hits") = {}
  BY <1>2 DEF Having
<1>4. EntriesTrue'
  BY <1>1, <1>2, EntriesStand
<1>. QED  BY <1>0, <1>1, <1>2, <1>3, <1>4, OnlyEntries DEF Repaired, IInv, TypeOK, Clean

LEMMA Dropping ==
    ASSUME IInv, DropVectors, stamped' = stamped \cup {"archived_vec"}
    PROVE  Repaired("archived_vec")
<1>1. /\ row' = [e \in Entity |->
             IF row[e].status = "archived" THEN [row[e] EXCEPT !.vector = FALSE] ELSE row[e]]
      /\ UNCHANGED <<owed, drifted, relisted, kept, waived>>
  BY DEF DropVectors
<1>2. /\ row' \in [Entity -> Row]
      /\ \A e \in Entity : /\ row'[e].status = "archived" => ~row'[e].vector
                           /\ row'[e].status = row[e].status
                           /\ Stays(row[e], row'[e])
  <2>1. \A e \in Entity : row[e] \in Row
    BY DEF IInv, TypeOK
  <2>2. \A e \in Entity :
            row'[e] = IF row[e].status = "archived" THEN [row[e] EXCEPT !.vector = FALSE]
                                                    ELSE row[e]
    BY <1>1
  <2>3. \A e \in Entity : /\ row'[e] \in Row /\ row'[e].status = row[e].status
                          /\ Stays(row[e], row'[e])
    BY <2>1, <2>2, VectorStands, StillStays
  <2>4. \A e \in Entity : row'[e].status = "archived" => ~row'[e].vector
    BY <2>1, <2>2 DEF Row
  <2>5. row' \in [Entity -> Row]
    BY <1>1, <2>3
  <2>. QED  BY <2>3, <2>4, <2>5
<1>3. EntriesTrue'
  BY <1>1, <1>2, EntriesStand
<1>4. Clean("archived_vec", row') /\ IndexesAreTrue'
  BY <1>2, <1>3 DEF Clean, IndexesAreTrue, EntriesTrue, Archived, Flaw, Backfill, Repair
<1>. QED  BY <1>1, <1>2, <1>4 DEF Repaired, IInv, TypeOK

LEMMA Splitting ==
    ASSUME IInv, InOrder, "fused" \notin stamped, SplitLessons,
           stamped' = stamped \cup {"fused"}
    PROVE  Repaired("fused")
<1>0. "fused" \in Pass /\ "fused" \in Flaw /\ "archived_vec" # "fused"
  BY DEF Pass, Flaw, Repair
<1> DEFINE fused == Having(row, "fused")
<1>1. CASE fused = {} /\ UNCHANGED <<row, owed, drifted, relisted, kept, waived>>
  <2>2. EntriesTrue'
    BY <1>1, EntriesStand DEF Stays
  <2>. QED  BY <1>0, <1>1, <2>2, OnlyEntries DEF Repaired, IInv, TypeOK, Clean
<1>2. ASSUME NEW emptied \in SUBSET fused, NEW to \in SUBSET (Entity \ fused),
             NEW titled \in BOOLEAN, Emptied(emptied, to, titled)
      PROVE  Repaired("fused")
  <2> DEFINE split == [e \in Entity |->
                   IF e \in emptied THEN Shell(row[e])
                   ELSE IF e \in fused THEN [row[e] EXCEPT !.flaws = @ \ {"fused"}]
                   ELSE IF e \in to THEN Lesson(row[e], titled)
                   ELSE row[e]]
  <2>1. /\ row' = RebuildAll(split) /\ owed' = TRUE /\ waived' = FALSE
        /\ drifted' = {} /\ relisted' = {}
        /\ kept' = [e \in Entity |->
               IF e \in emptied /\ kept[e] = "no" /\ Late THEN "split"
               ELSE IF e \in to THEN "no" ELSE kept[e]]
    BY <1>2 DEF Emptied
  <2>2. ASSUME NEW e \in Entity
        PROVE  /\ split[e] \in Row
               /\ "fused" \notin split[e].flaws
               /\ split[e].status = "archived" =>
                      e \in emptied \/ (e \notin to /\ row[e].status = "archived")
               /\ split[e].vector = row[e].vector
    <3>1. row[e] \in Row /\ (e \in fused <=> "fused" \in row[e].flaws)
      BY DEF IInv, TypeOK, Having
    <3>2. CASE e \in emptied
      <4>1. split[e] = Shell(row[e])
        BY <3>2
      <4>. QED  BY <3>1, <3>2, <4>1 DEF Shell, Row
    <3>3. CASE e \in fused \ emptied
      <4>1. split[e] = [row[e] EXCEPT !.flaws = @ \ {"fused"}] /\ e \notin to
        BY <3>3
      <4>. QED  BY <3>1, <3>3, <4>1 DEF Row
    <3>4. CASE e \in to
      <4>1. split[e] = Lesson(row[e], titled) /\ e \notin fused
        BY <3>4
      <4>. QED  BY <3>1, <3>4, <4>1 DEF Lesson, Row
    <3>5. CASE e \notin fused \cup to
      <4>1. split[e] = row[e]
        BY <3>5
      <4>. QED  BY <3>1, <3>5, <4>1
    <3>. QED  BY <3>2, <3>3, <3>4, <3>5
  <2>3. split \in [Entity -> Row]
    BY <2>2
  <2>4. /\ row' \in [Entity -> Row] /\ Inexact(row') = {}
        /\ \A e \in Entity : Same(split[e], row'[e])
    <3> HIDE DEF split
    <3>. QED  BY <2>1, <2>3, RebuildingAll
  <2>5. Having(row', "fused") = {}
    BY <2>2, <2>4 DEF Having, Same
  <2>6. kept' \in [Entity -> {"no", "split", "elsewhere"}]
    BY <2>1 DEF IInv, TypeOK
  <2>7. IndexesAreTrue'
    <3> SUFFICES ASSUME "archived_vec" \in stamped', NEW e \in Entity,
                        row'[e].status = "archived", row'[e].vector
                 PROVE  kept'[e] = "elsewhere" \/ (kept'[e] = "split" /\ owed')
      BY <2>4, RebuiltIsTrue DEF IndexesAreTrue, EntriesTrue, Archived
    <3>1. "archived_vec" \in stamped /\ Late
      BY <1>0 DEF InOrder, Late
    <3>2. e \in emptied \/ (e \notin to /\ row[e].status = "archived" /\ row[e].vector)
      BY <2>2, <2>4 DEF Same
    <3>3. CASE e \in emptied
      BY <2>1, <3>1, <3>3 DEF IInv, TypeOK
    <3>4. CASE e \notin emptied
      <4>1. kept[e] \in {"elsewhere", "split"} /\ e \notin to
        BY <3>1, <3>2, <3>4 DEF IInv, IndexesAreTrue, Archived
      <4>. QED  BY <2>1, <3>4, <4>1
    <3>. QED  BY <3>3, <3>4
  <2>. QED  BY <1>0, <2>1, <2>4, <2>5, <2>6, <2>7 DEF Repaired, Clean
<1>. QED  BY <1>1, <1>2 DEF SplitLessons

(* Every pass under a lock                                                   *)
LEMMA Repairing ==
    ASSUME IInv, InOrder, NEW k, k \notin stamped, Migrate(k),
           stamped' = stamped \cup {k}
    PROVE  Repaired(k)
BY Mending, Rebuilds, Retiring, Dropping, Splitting DEF Migrate

-----------------------------------------------------------------------------
(* The steps of opening the file                                             *)

LEMMA TablesStand ==
    ASSUME IInv
    PROVE  /\ Tables
           /\ \A p \in Process : Sound(p, opening[p], row) /\ opening[p] \in Opening
BY AllSound DEF IInv, TypeOK, Tables, Opening

LEMMA SpendTypes ==
    ASSUME IInv, NEW event \in Event, Spend(event)
    PROVE  left' \in [Event -> Nat]
BY DEF IInv, TypeOK, Spend

LEMMA OpenHolds == ASSUME IInv, NEW p \in Process, Open(p) PROVE IInv'
<1> DEFINE next == [Closed EXCEPT !.pc = "checking", !.at = 1]
<1>1. Sound(p, next, row)
  <2>1. PassesOf(p) \in Seq(Pass) /\ Len(PassesOf(p)) > 0
    BY PassSequences
  <2>2. Len(PassesOf(p)) \in Nat
    BY <2>1
  <2>3. next \in Opening /\ next.pc = "checking" /\ next.at = 1
    BY DEF Opening, Closed
  <2>. QED  BY <2>1, <2>2, <2>3 DEF Sound
<1>. QED  BY <1>1, Moving DEF Open, IInv, TypeOK, tries

LEMMA CloseHolds == ASSUME IInv, NEW p \in Process, Close(p) PROVE IInv'
BY ClosedIsSound, Moving DEF Close, IInv, TypeOK, tries

LEMMA CheckHolds == ASSUME IInv, NEW p \in Process, Check(p) PROVE IInv'
<1>0. opening[p].pc = "checking" /\ UNCHANGED <<data, tries, left>>
  BY DEF Check
<1>1. CASE Step(p, Advanced(p))
  BY <1>0, <1>1, OnwardIsSound, Moving DEF IInv, TypeOK, tries
<1>2. CASE Step(p, [opening[p] EXCEPT !.pc = "due"])
  <2>1. Sound(p, [opening[p] EXCEPT !.pc = "due"], row)
    BY <1>0, TablesStand DEF Sound, Opening
  <2>. QED  BY <1>0, <1>2, <2>1, Moving DEF IInv, TypeOK, tries
<1>. QED  BY <1>1, <1>2 DEF Check

LEMMA SnapshotHolds == ASSUME IInv, NEW p \in Process, Snapshot(p) PROVE IInv'
<1> DEFINE k == CurrentPass(p)
           next == [opening[p] EXCEPT !.pc = "read", !.seen = Having(row, k)]
<1>0. /\ opening[p].pc = "due" /\ UNCHANGED <<data, tries, left>>
      /\ k \in Backfill
  BY DEF Snapshot
<1>1. CASE Step(p, Advanced(p))
  BY <1>0, <1>1, OnwardIsSound, Moving DEF IInv, TypeOK, tries
<1>2. CASE Step(p, next)
  <2>1. Sound(p, next, row)
    <3>1. opening[p] \in Opening /\ opening[p].at \in 1..Len(PassesOf(p))
      BY <1>0, TablesStand DEF Sound
    <3>2. Having(row, k) \in SUBSET Entity
      BY DEF Having
    <3>3. next \in Opening /\ next.pc = "read" /\ next.at = opening[p].at
          /\ next.seen = Having(row, k)
      BY <3>1, <3>2 DEF Opening
    <3>. QED  BY <1>0, <3>1, <3>3 DEF Sound, CurrentPass
  <2>. QED  BY <1>0, <1>2, <2>1, Moving DEF IInv, TypeOK, tries
<1>. QED  BY <1>1, <1>2 DEF Snapshot

LEMMA RefusedHolds == ASSUME IInv, NEW p \in Process, Refused(p) PROVE IInv'
BY ClosedIsSound, Moving DEF Refused, IInv, TypeOK, tries

LEMMA RacedHolds == ASSUME IInv, NEW p \in Process, Raced(p) PROVE IInv'
BY OnwardIsSound, Moving DEF Raced, IInv, TypeOK, tries

(* What a back-fill writes, on a snapshot that is still the newest           *)
LEMMA FillRepairs ==
    ASSUME IInv, NEW p \in Process, Fill(p)
    PROVE  /\ CurrentPass(p) \in Backfill /\ CurrentPass(p) \in Pass
           /\ row' \in [Entity -> Row]
           /\ Clean(CurrentPass(p), row')
           /\ IndexesAreTrue'
<1> DEFINE k == CurrentPass(p)
<1>1. /\ k \in Backfill /\ k \in Pass /\ k \in Flaw /\ k # "archived_vec"
      /\ opening[p].seen = Having(row, k)
  BY DEF Fill, IInv, WorkLists, Backfill, Pass, Flaw
<1>2. /\ \A e \in Entity : IF e \in opening[p].seen THEN row'[e] \in Filled(row[e], k)
                                                    ELSE row'[e] = row[e]
      /\ stamped' = stamped \cup {k}
      /\ UNCHANGED <<owed, drifted, relisted, kept, waived>>
  BY DEF Fill
<1>3. row' = [e \in Entity |-> row'[e]] /\ \A e \in Entity : row[e] \in Row
  BY DEF Fill, IInv, TypeOK
<1>4. ASSUME NEW e \in Entity
      PROVE  /\ row'[e] \in Row
             /\ row'[e].status = row[e].status /\ row'[e].vector = row[e].vector
             /\ k \notin row'[e].flaws
             /\ Stays(row[e], row'[e])
  <2>1. CASE e \in opening[p].seen
    <3>1. row'[e] \in Filled(row[e], k)
      BY <1>2, <2>1
    <3>. QED  BY <1>1, <1>3, <3>1, Filling
  <2>2. CASE e \notin opening[p].seen
    BY <1>1, <1>2, <1>3, <2>2 DEF Having, Stays
  <2>. QED  BY <2>1, <2>2
<1>5. row' \in [Entity -> Row]
  <2> HIDE DEF k
  <2>. QED  BY <1>3, <1>4
<1>6. Clean(k, row')
  <2>1. Having(row', k) = {}
    BY <1>4 DEF Having
  <2>. QED  BY <1>1, <2>1 DEF Clean, Backfill
<1>7. EntriesTrue'
  BY <1>2, <1>4, EntriesStand
<1>8. IndexesAreTrue'
  BY <1>1, <1>2, <1>4, <1>7, OnlyEntries
<1>. QED  BY <1>1, <1>5, <1>6, <1>8

LEMMA FillHolds == ASSUME IInv, NEW p \in Process, Fill(p) PROVE IInv'
<1>1. /\ CurrentPass(p) \in Pass /\ row' \in [Entity -> Row] /\ IndexesAreTrue'
  BY FillRepairs
<1>2. /\ opening[p].pc = "read" /\ Commit(p, Advanced(p))
      /\ stamped' = stamped \cup {CurrentPass(p)}
      /\ UNCHANGED <<tries, owed, drifted, relisted, kept, waived, left>>
  BY DEF Fill
<1>3. Tables'
  BY <1>1, <1>2 DEF Tables, IInv, TypeOK, tries
<1>. QED  BY <1>1, <1>2, <1>3, OnwardIsSound, CommitsAndMoves

LEMMA RunOnceHolds == ASSUME IInv, InOrder, NEW p \in Process, RunOnce(p) PROVE IInv'
<1> DEFINE k == CurrentPass(p)
<1>1. /\ opening[p].pc = "due" /\ Migrate(k) /\ stamped' = stamped \cup {k}
      /\ k \notin stamped
      /\ attempt' = [attempt EXCEPT ![k] = "none"]
      /\ Commit(p, Advanced(p)) /\ UNCHANGED <<deferred, left>>
  BY DEF RunOnce
<1>2. Repaired(k)
  BY <1>1, Repairing
<1>3. k \in Pass /\ Sound(p, Advanced(p), row) /\ Advanced(p).pc # "read"
  BY <1>1, OnwardIsSound
<1>4. Tables'
  BY <1>1, <1>2, <1>3 DEF Tables, IInv, TypeOK, Repaired
<1>. QED  BY <1>1, <1>2, <1>3, <1>4, CommitsAndMoves DEF Repaired

-----------------------------------------------------------------------------
(* Mishaps                                                                   *)

LEMMA LockedHolds == ASSUME IInv, NEW p \in Process, Locked(p) PROVE IInv'
<1>1. left' \in [Event -> Nat]
  BY SpendTypes DEF Locked, Event
<1>2. /\ opening[p].pc \notin {"closed", "open"} /\ UNCHANGED <<data, attempt>>
      /\ deferred' \in BOOLEAN
  BY DEF Locked, Writes, PutOff
<1>3. Step(p, Closed) \/ Step(p, Advanced(p))
  BY DEF Locked
<1>. QED  BY <1>1, <1>2, <1>3, ClosedIsSound, OnwardIsSound, Moving DEF IInv, TypeOK, tries

LEMMA BreaksHolds == ASSUME IInv, NEW p \in Process, Breaks(p) PROVE IInv'
<1>1. left' \in [Event -> Nat]
  BY SpendTypes DEF Breaks, Event
<1>2. opening[p].pc \notin {"closed", "open"} /\ UNCHANGED <<data, tries>>
  BY DEF Breaks, Writes
<1>3. Step(p, Closed) \/ Step(p, [opening[p] EXCEPT !.pc = "broken"])
  BY DEF Breaks
<1>4. Sound(p, [opening[p] EXCEPT !.pc = "broken"], row)
  BY <1>2, TablesStand DEF Sound, Opening
<1>. QED  BY <1>1, <1>2, <1>3, <1>4, ClosedIsSound, Moving DEF IInv, TypeOK, tries

LEMMA NoteAttemptHolds == ASSUME IInv, NEW p \in Process, NoteAttempt(p) PROVE IInv'
<1>1. /\ opening[p].pc = "broken" /\ Commit(p, Advanced(p)) /\ UNCHANGED <<data, left>>
      /\ attempt' = [attempt EXCEPT ![CurrentPass(p)] = "recent"]
      /\ deferred' \in BOOLEAN
  BY DEF NoteAttempt, PutOff
<1>2. Tables'
  BY <1>1 DEF Tables, IInv, TypeOK, data
<1>3. IndexesAreTrue'
  BY <1>1 DEF IInv, IndexesAreTrue, Relisted, Archived, data
<1>. QED  BY <1>1, <1>2, <1>3, OnwardIsSound, CommitsAndMoves

LEMMA CrashHolds == ASSUME IInv, NEW p \in Process, Crash(p) PROVE IInv'
<1>1. left' \in [Event -> Nat]
  BY SpendTypes DEF Crash, Event
<1>. QED  BY <1>1, ClosedIsSound, Moving DEF Crash, IInv, TypeOK, tries

LEMMA AgesHolds == ASSUME IInv, NEW k \in Pass, Ages(k) PROVE IInv'
<1>1. UNCHANGED <<data, deferred, opening, left>> /\ attempt' \in [Pass -> {"none", "recent", "past"}]
  BY DEF Ages, IInv, TypeOK
<1>. QED  BY <1>1 DEF IInv, TypeOK, Positions, WorkLists, CurrentPass, Having,
             IndexesAreTrue, Relisted, Archived, data

-----------------------------------------------------------------------------
(* Writers. A server that writes stays open, and its row alone changes.      *)

LEMMA ServerCommits ==
    ASSUME IInv, NEW p \in Process, opening[p].pc = "open", Commit(p, opening[p]),
           Tables', IndexesAreTrue'
    PROVE  IInv'
BY TablesStand, CommitsAndMoves

(* One row written, its entry exact if it was or known to have drifted       *)
LEMMA OneRow ==
    ASSUME IInv, NEW e \in Entity, NEW r \in Row, row' = [row EXCEPT ![e] = r],
           NEW why \in {"no", "split", "elsewhere"}, kept' = [kept EXCEPT ![e] = why],
           drifted \subseteq drifted', drifted' \subseteq Entity,
           relisted \ {e} \subseteq relisted', relisted' \subseteq Entity,
           e \notin drifted' => Exact(r) \/ Relisted(e)',
           "archived_vec" \in stamped /\ r.status = "archived" /\ r.vector =>
               why = "elsewhere" \/ (why = "split" /\ (owed \/ waived)),
           UNCHANGED <<stamped, tries, owed, waived>>, left' \in [Event -> Nat]
    PROVE  Tables' /\ IndexesAreTrue'
<1>1. /\ row' \in [Entity -> Row] /\ row'[e] = r /\ kept'[e] = why
      /\ kept' \in [Entity -> {"no", "split", "elsewhere"}]
      /\ \A f \in Entity \ {e} : row'[f] = row[f] /\ kept'[f] = kept[f]
  BY DEF IInv, TypeOK
<1>2. Tables'
  BY <1>1 DEF IInv, TypeOK, Tables, tries
<1>3. EntriesTrue'
  BY <1>1 DEF IInv, IndexesAreTrue, EntriesTrue, Relisted
<1>4. IndexesAreTrue'
  <2> SUFFICES ASSUME "archived_vec" \in stamped, NEW f \in Entity,
                      row'[f].status = "archived", row'[f].vector
               PROVE  kept'[f] = "elsewhere" \/ (kept'[f] = "split" /\ (owed \/ waived))
    BY <1>3 DEF IndexesAreTrue, EntriesTrue, Archived
  <2>1. CASE f = e
    BY <1>1, <2>1
  <2>2. CASE f # e
    BY <1>1, <2>2 DEF IInv, IndexesAreTrue, Archived
  <2>. QED  BY <2>1, <2>2
<1>. QED  BY <1>2, <1>4

(* The words of a memory that no earlier release has written are its own     *)
LEMMA TermsOfUnindexed ==
    ASSUME IInv, NEW e \in Entity, e \notin drifted, NEW u \in Unindexed(row[e])
    PROVE  u.terms \subseteq Entry(row[e])
<1>1. row[e] \in Row
  BY DEF IInv, TypeOK
<1>2. u.terms \subseteq row[e].terms
  BY <1>1, Unindexing
<1>3. row[e].terms \subseteq Entry(row[e])
  BY DEF IInv, IndexesAreTrue, Relisted, Exact
<1>. QED  BY <1>2, <1>3

LEMMA RememberHolds ==
    ASSUME IInv, NEW p \in Process, NEW e \in Entity, Remember(p, e) PROVE IInv'
<1>1. left' \in [Event -> Nat]
  BY SpendTypes DEF Remember, Event
<1>2. /\ opening[p].pc = "open" /\ Commit(p, opening[p])
      /\ kept' = [kept EXCEPT ![e] = "no"]
      /\ relisted' = relisted \ {e}
      /\ UNCHANGED <<stamped, tries, owed, drifted, waived>>
  BY DEF Remember
<1> DEFINE Told(u, titled, embedded) ==
        [u EXCEPT
            !.status = "active",
            !.titled = @ \/ titled,
            !.flaws =
                (@ \ (IF titled THEN {"untitled", "hits"} ELSE {"hits"}))
                \cup (IF row[e].status = "new" /\ ~titled THEN {"untitled"} ELSE {}),
            !.vector = @ \/ (embedded /\ p \in VecHosts)]
<1>3. PICK titled \in BOOLEAN, embedded \in BOOLEAN, u \in Unindexed(row[e]) :
          row' = [row EXCEPT ![e] = Indexed(Told(u, titled, embedded))]
  BY DEF Remember
<1>4. row[e] \in Row /\ "untitled" \in Flaw
  BY DEF IInv, TypeOK, Flaw, Backfill
<1>5. Same(row[e], u)
  BY <1>4, Unindexing
<1> DEFINE t == Told(u, titled, embedded)
<1>6. t \in Row /\ t.status = "active" /\ t.terms = u.terms /\ (row[e].titled => t.titled)
  BY <1>4, <1>5 DEF Same, Row
<1>7. row' = [row EXCEPT ![e] = Indexed(t)]
  BY <1>3
<1> HIDE DEF Told, t
<1>8. Entry(row[e]) \subseteq Entry(t)
  BY <1>4, <1>6, LongerEntry
<1>9. Indexed(t) \in Row /\ Indexed(t).status = "active"
  BY <1>6, Indexing DEF Same
<1>10. e \notin drifted => Exact(Indexed(t))
  BY <1>6, <1>8, Indexing, TermsOfUnindexed
<1>11. drifted' = drifted /\ drifted \subseteq Entity /\ relisted' \subseteq Entity
  BY <1>2 DEF IInv, TypeOK
<1>12. Tables' /\ IndexesAreTrue'
  BY <1>1, <1>2, <1>7, <1>9, <1>10, <1>11, OneRow
<1>. QED  BY <1>2, <1>12, ServerCommits

LEMMA CaptureHolds ==
    ASSUME IInv, NEW p \in Process, NEW e \in Entity, Capture(p, e) PROVE IInv'
<1>1. left' \in [Event -> Nat]
  BY SpendTypes DEF Capture, Event
<1>2. /\ opening[p].pc = "open" /\ Commit(p, opening[p])
      /\ relisted' = relisted \cup ({e} \cap Archived(row))
      /\ UNCHANGED <<stamped, tries, owed, drifted, kept, waived>>
  BY DEF Capture
<1> DEFINE Told(u, titled) ==
        [u EXCEPT
            !.status = IF row[e].status = "new" THEN "active" ELSE @,
            !.titled = @ \/ titled,
            !.flaws = (@ \ (IF titled THEN {"untitled"} ELSE {}))
                \cup (IF row[e].status = "new" THEN Missing(titled) ELSE {})]
<1>3. PICK titled \in BOOLEAN, u \in Unindexed(row[e]) :
          row' = [row EXCEPT ![e] = Indexed(Told(u, titled))]
  BY DEF Capture
<1>4. row[e] \in Row /\ Missing(titled) \subseteq Flaw
  BY DEF IInv, TypeOK, Missing, Flaw, Backfill
<1>5. Same(row[e], u)
  BY <1>4, Unindexing
<1> DEFINE t == Told(u, titled)
<1>6. /\ t \in Row /\ t.terms = u.terms /\ (row[e].titled => t.titled)
      /\ t.status \in {"active", "archived"} /\ t.vector = row[e].vector
      /\ t.status = "archived" => row[e].status = "archived"
  BY <1>4, <1>5 DEF Same, Row
<1>7. row' = [row EXCEPT ![e] = Indexed(t)]
  BY <1>3
<1> HIDE DEF Told, t
<1>8. Entry(row[e]) \subseteq Entry(t)
  BY <1>4, <1>6, LongerEntry
<1>9. Same(t, Indexed(t))
  BY <1>6, Indexing
<1>10. /\ drifted' = drifted /\ drifted \subseteq Entity /\ relisted' \subseteq Entity
       /\ relisted \subseteq relisted'
       /\ row[e].status = "archived" => e \in relisted'
       /\ row'[e] = Indexed(t)
  BY <1>2, <1>7 DEF IInv, TypeOK, Archived
<1>11. e \notin drifted => Exact(Indexed(t)) \/ Relisted(e)'
  <2> SUFFICES ASSUME e \notin drifted PROVE Exact(Indexed(t)) \/ Relisted(e)'
    OBVIOUS
  <2>1. t.terms \subseteq Entry(t)
    BY <1>6, <1>8, TermsOfUnindexed
  <2>2. CASE t.status = "active"
    BY <1>6, <2>1, <2>2, Indexing
  <2>3. CASE t.status = "archived"
    <3>1. Indexed(t).terms = Entry(Indexed(t)) /\ Indexed(t).status = "archived"
      BY <1>6, <1>9, <2>1, <2>3, Indexing DEF Same
    <3>. QED  BY <1>6, <1>10, <2>3, <3>1 DEF Relisted
  <2>. QED  BY <1>6, <2>2, <2>3
<1>12. "archived_vec" \in stamped /\ Indexed(t).status = "archived" /\ Indexed(t).vector =>
           kept[e] = "elsewhere" \/ (kept[e] = "split" /\ (owed \/ waived))
  BY <1>6, <1>9 DEF Same, IInv, IndexesAreTrue, Archived
<1>13. kept' = [kept EXCEPT ![e] = kept[e]] /\ kept[e] \in {"no", "split", "elsewhere"}
  BY <1>2 DEF IInv, TypeOK
<1>14. Tables' /\ IndexesAreTrue'
  <2> DEFINE why == kept[e]
             r == Indexed(t)
  <2>1. /\ r \in Row /\ row' = [row EXCEPT ![e] = r]
        /\ e \notin drifted' => Exact(r) \/ Relisted(e)'
        /\ "archived_vec" \in stamped /\ r.status = "archived" /\ r.vector =>
               why = "elsewhere" \/ (why = "split" /\ (owed \/ waived))
        /\ kept' = [kept EXCEPT ![e] = why] /\ why \in {"no", "split", "elsewhere"}
    BY <1>7, <1>9, <1>10, <1>11, <1>12, <1>13 DEF Same
  <2> HIDE DEF why, r
  <2>. QED  BY <1>1, <1>2, <1>10, <2>1, OneRow
<1>. QED  BY <1>2, <1>14, ServerCommits

LEMMA ArchiveHolds ==
    ASSUME IInv, NEW p \in Process, NEW e \in Entity, Archive(p, e) PROVE IInv'
<1>1. left' \in [Event -> Nat]
  BY SpendTypes DEF Archive, Event
<1>2. /\ opening[p].pc = "open" /\ Commit(p, opening[p])
      /\ kept' = [kept EXCEPT ![e] = IF p \in VecHosts THEN "no" ELSE "elsewhere"]
      /\ UNCHANGED <<stamped, tries, owed, drifted, relisted, waived>>
      /\ row[e].status = "active"
  BY DEF Archive
<1> DEFINE Put(u) == [u EXCEPT !.status = "archived",
                               !.vector = IF p \in VecHosts THEN FALSE ELSE @]
<1>3. PICK u \in Unindexed(row[e]) : row' = [row EXCEPT ![e] = Put(u)]
  BY DEF Archive
<1>4. row[e] \in Row
  BY DEF IInv, TypeOK
<1>5. Same(row[e], u) /\ (Exact(row[e]) => u.terms = {} /\ ~u.listed)
  BY <1>4, Unindexing
<1>6. /\ Put(u) \in Row
      /\ Put(u).vector => p \notin VecHosts
      /\ Exact(row[e]) => Exact(Put(u))
  BY <1>4, <1>5 DEF Same, Row, Exact
<1> HIDE DEF Put
<1>7. e \notin drifted => Exact(row[e])
  BY <1>2 DEF IInv, IndexesAreTrue, Relisted
<1>8. drifted' = drifted /\ drifted \subseteq Entity /\ relisted' \subseteq Entity
  BY <1>2 DEF IInv, TypeOK
<1>9. Tables' /\ IndexesAreTrue'
  <2> DEFINE why == IF p \in VecHosts THEN "no" ELSE "elsewhere"
  <2>1. kept' = [kept EXCEPT ![e] = why] /\ why \in {"no", "split", "elsewhere"}
        /\ (Put(u).vector => why = "elsewhere")
    BY <1>2, <1>6
  <2> HIDE DEF why
  <2>. QED  BY <1>1, <1>2, <1>3, <1>6, <1>7, <1>8, <2>1, OneRow
<1>. QED  BY <1>2, <1>9, ServerCommits

LEMMA ReindexFtsHolds == ASSUME IInv, NEW p \in Process, ReindexFts(p) PROVE IInv'
<1>1. left' \in [Event -> Nat]
  BY SpendTypes DEF ReindexFts, Event
<1>2. Repaired("segmented")
  BY Rebuilds DEF ReindexFts
<1>3. "segmented" \in Pass
  BY DEF Pass, IndexPass
<1>4. Tables'
  BY <1>1, <1>2, <1>3 DEF Tables, IInv, TypeOK, Repaired, ReindexFts
<1>. QED  BY <1>2, <1>4, ServerCommits DEF ReindexFts, Repaired

(* A rebuild of vectors touches no entry of the keyword index                *)
LEMMA OnlyVectors ==
    ASSUME IInv, row' \in [Entity -> Row],
           \A e \in Entity : \E v \in BOOLEAN : row'[e] = [row[e] EXCEPT !.vector = v],
           UNCHANGED <<drifted, relisted>>
    PROVE  /\ EntriesTrue'
           /\ \A e \in Entity : row'[e].status = row[e].status
<1>1. ASSUME NEW e \in Entity
      PROVE  Stays(row[e], row'[e]) /\ row'[e].status = row[e].status
  <2>1. row[e] \in Row
    BY DEF IInv, TypeOK
  <2>2. PICK v \in BOOLEAN : row'[e] = [row[e] EXCEPT !.vector = v]
    OBVIOUS
  <2>. QED  BY <2>1, <2>2, VectorStands
<1>. QED  BY <1>1, EntriesStand

LEMMA ReindexHolds == ASSUME IInv, NEW p \in Process, Reindex(p) PROVE IInv'
<1>1. left' \in [Event -> Nat]
  BY SpendTypes DEF Reindex, Event
<1>2. /\ row' = [e \in Entity |-> [row[e] EXCEPT !.vector = (row[e].status = "active")]]
      /\ owed' = FALSE /\ UNCHANGED <<stamped, tries, drifted, relisted, kept, waived>>
      /\ opening[p].pc = "open" /\ Commit(p, opening[p])
  BY DEF Reindex
<1>3. \A e \in Entity :
          /\ \E v \in BOOLEAN : row'[e] = [row[e] EXCEPT !.vector = v]
          /\ row[e] \in Row /\ row'[e] \in Row
          /\ row[e].status = "archived" => ~row'[e].vector
  <2> SUFFICES ASSUME NEW e \in Entity
               PROVE  /\ \E v \in BOOLEAN : row'[e] = [row[e] EXCEPT !.vector = v]
                      /\ row[e] \in Row /\ row'[e] \in Row
                      /\ row[e].status = "archived" => ~row'[e].vector
    OBVIOUS
  <2>1. row[e] \in Row
    BY DEF IInv, TypeOK
  <2>2. CASE row[e].status = "active"
    <3>1. row'[e] = [row[e] EXCEPT !.vector = TRUE]
      BY <1>2, <2>2
    <3>. QED  BY <2>1, <2>2, <3>1 DEF Row
  <2>3. CASE row[e].status # "active"
    <3>1. row'[e] = [row[e] EXCEPT !.vector = FALSE]
      BY <1>2, <2>3
    <3>. QED  BY <2>1, <2>3, <3>1 DEF Row
  <2>. QED  BY <2>2, <2>3
<1>4. row' \in [Entity -> Row]
  BY <1>2, <1>3
<1>5. /\ EntriesTrue'
      /\ \A e \in Entity : row'[e].status = row[e].status
  BY <1>2, <1>3, <1>4, OnlyVectors
<1>6. Tables' /\ IndexesAreTrue'
  BY <1>1, <1>2, <1>3, <1>4, <1>5
     DEF Tables, IInv, TypeOK, IndexesAreTrue, EntriesTrue, Archived, tries
<1>. QED  BY <1>2, <1>6, ServerCommits

LEMMA ReindexSomeHolds == ASSUME IInv, NEW p \in Process, ReindexSome(p) PROVE IInv'
<1>1. left' \in [Event -> Nat]
  BY SpendTypes DEF ReindexSome, Event
<1>2. /\ waived' = (waived \/ ~owed')
      /\ UNCHANGED <<stamped, tries, drifted, relisted, kept>>
      /\ opening[p].pc = "open" /\ Commit(p, opening[p])
  BY DEF ReindexSome
<1>3. PICK some \in SUBSET Active :
          /\ row' = [e \in Entity |->
                 IF e \in some THEN [row[e] EXCEPT !.vector = TRUE] ELSE row[e]]
          /\ owed' \in BOOLEAN
  BY Zenon DEF ReindexSome
<1>4. ASSUME NEW e \in Entity
      PROVE  /\ \E v \in BOOLEAN : row'[e] = [row[e] EXCEPT !.vector = v]
             /\ row'[e] \in Row
             /\ row[e].status = "archived" => row'[e] = row[e]
  <2>1. row[e] \in Row /\ row[e] = [row[e] EXCEPT !.vector = row[e].vector]
        /\ row[e].vector \in BOOLEAN
    BY DEF IInv, TypeOK, Row
  <2>2. CASE e \in some
    <3>1. row'[e] = [row[e] EXCEPT !.vector = TRUE] /\ row[e].status # "archived"
      BY <1>3, <2>2 DEF Active
    <3>2. row'[e] \in Row
      BY <2>1, <3>1 DEF Row
    <3>. QED  BY <3>1, <3>2
  <2>3. CASE e \notin some
    <3>1. row'[e] = row[e]
      BY <1>3, <2>3
    <3>. QED  BY <2>1, <3>1
  <2>. QED  BY <2>2, <2>3
<1>5. row' \in [Entity -> Row]
  BY <1>3, <1>4
<1>6. /\ EntriesTrue'
      /\ \A e \in Entity : row'[e].status = row[e].status
  BY <1>2, <1>4, <1>5, OnlyVectors
<1>7. Tables'
  BY <1>1, <1>2, <1>3, <1>5 DEF Tables, IInv, TypeOK, tries
<1>8. IndexesAreTrue'
  <2> SUFFICES ASSUME "archived_vec" \in stamped', NEW e \in Entity,
                      row'[e].status = "archived", row'[e].vector
               PROVE  \/ kept'[e] = "elsewhere"
                      \/ kept'[e] = "split" /\ (owed' \/ waived')
    BY <1>6 DEF IndexesAreTrue, EntriesTrue, Archived
  <2>1. row[e].status = "archived" /\ row[e].vector
    BY <1>4, <1>6
  <2>2. kept[e] = "elsewhere" \/ kept[e] = "split"
    BY <1>2, <2>1 DEF IInv, IndexesAreTrue, Archived
  <2>3. owed' \/ waived'
    BY <1>2
  <2>. QED  BY <1>2, <2>2, <2>3
<1>. QED  BY <1>2, <1>7, <1>8, ServerCommits

LEMMA OlderRememberHolds ==
    ASSUME IInv, NEW e \in Entity, OlderRemember(e) PROVE IInv'
<1>1. left' \in [Event -> Nat]
  BY SpendTypes DEF OlderRemember, Event
<1>2. /\ drifted' = drifted \cup {e} /\ kept' = [kept EXCEPT ![e] = "no"]
      /\ opening' = [p \in Process |-> Staled(opening[p])]
      /\ UNCHANGED <<stamped, tries, owed, relisted, waived>>
  BY DEF OlderRemember
<1>3. PICK flaws \in SUBSET Careless :
          row' = [row EXCEPT ![e].status = "active", ![e].listed = TRUE,
                             ![e].flaws = (@ \ {"hits"}) \cup flaws,
                             ![e].terms = @ \cup {"run"}]
  BY DEF OlderRemember
<1> DEFINE r == [row[e] EXCEPT !.status = "active", !.listed = TRUE,
                               !.flaws = (@ \ {"hits"}) \cup flaws,
                               !.terms = @ \cup {"run"}]
<1>4. row' = [row EXCEPT ![e] = r]
  BY <1>3
<1>5. r \in Row /\ r.status = "active"
  <2>1. row[e] \in Row /\ flaws \subseteq Flaw /\ "run" \in Term
    BY LegacyAssumption DEF IInv, TypeOK, Term
  <2>. QED  BY <2>1 DEF Row
<1> HIDE DEF r
<1>6. /\ drifted' \subseteq Entity /\ drifted \subseteq drifted' /\ e \in drifted'
      /\ relisted' \subseteq Entity /\ relisted \ {e} \subseteq relisted'
  BY <1>2 DEF IInv, TypeOK
<1>7. Tables' /\ IndexesAreTrue'
  BY <1>1, <1>2, <1>4, <1>5, <1>6, OneRow
<1>8. opening' = [p \in Process |-> opening'[p]]
      /\ \A p \in Process : opening'[p] = Staled(opening[p])
  BY <1>2
<1>. QED  BY <1>7, <1>8, Committing

LEMMA OlderArchiveHolds ==
    ASSUME IInv, NEW e \in Entity, OlderArchive(e) PROVE IInv'
<1>1. left' \in [Event -> Nat]
  BY SpendTypes DEF OlderArchive, Event
<1>2. /\ drifted' = drifted \cup {e} /\ kept' = [kept EXCEPT ![e] = "elsewhere"]
      /\ opening' = [p \in Process |-> Staled(opening[p])]
      /\ UNCHANGED <<stamped, tries, owed, relisted, waived>>
  BY DEF OlderArchive
<1> DEFINE r == [row[e] EXCEPT !.status = "archived"]
<1>3. row' = [row EXCEPT ![e] = r]
  BY DEF OlderArchive
<1>4. r \in Row
  <2>1. row[e] \in Row
    BY DEF IInv, TypeOK
  <2>. QED  BY <2>1 DEF Row
<1> HIDE DEF r
<1>5. /\ drifted' \subseteq Entity /\ drifted \subseteq drifted' /\ e \in drifted'
      /\ relisted' \subseteq Entity /\ relisted \ {e} \subseteq relisted'
  BY <1>2 DEF IInv, TypeOK
<1>6. Tables' /\ IndexesAreTrue'
  BY <1>1, <1>2, <1>3, <1>4, <1>5, OneRow
<1>7. opening' = [p \in Process |-> opening'[p]]
      /\ \A p \in Process : opening'[p] = Staled(opening[p])
  BY <1>2
<1>. QED  BY <1>6, <1>7, Committing

-----------------------------------------------------------------------------
(* The specification                                                         *)

LEMMA InitHolds == Init => IInv
<1> SUFFICES ASSUME Init PROVE IInv
  OBVIOUS
<1>1. PICK db \in Legacy :
          /\ row = db.row
          /\ stamped = db.stamped
          /\ attempt = [k \in Pass |-> "none"]
          /\ owed = FALSE
          /\ opening = [p \in Process |-> Closed]
          /\ drifted = Inexact(db.row)
          /\ relisted = {}
          /\ deferred = ("archived_vec" \in db.stamped /\ "fused" \notin db.stamped)
          /\ kept = [e \in Entity |->
                 IF "archived_vec" \in db.stamped /\ e \in Archived(db.row)
                 THEN "elsewhere" ELSE "no"]
          /\ waived = FALSE
          /\ left = db.left
  BY DEF Init
<1>2. /\ row \in [Entity -> Row] /\ stamped \subseteq Pass /\ left \in [Event -> Nat]
  BY <1>1, LegacyAssumption DEF Database
<1>3. opening \in [Process -> Opening] /\ \A p \in Process : opening[p].pc = "closed"
  BY <1>1 DEF Closed, Opening
<1>4. TypeOK
  BY <1>1, <1>2, <1>3 DEF TypeOK, Opening, Inexact
<1>5. Positions /\ WorkLists
  BY <1>3 DEF Positions, WorkLists
<1>6. IndexesAreTrue
  BY <1>1 DEF IndexesAreTrue, Inexact, Archived
<1>. QED  BY <1>4, <1>5, <1>6 DEF IInv

LEMMA StutterHolds == IInv /\ UNCHANGED vars => IInv'
<1> SUFFICES ASSUME IInv, UNCHANGED vars PROVE IInv'
  OBVIOUS
<1>. QED  BY DEF IInv, TypeOK, Positions, WorkLists, CurrentPass, Having,
             IndexesAreTrue, Relisted, Archived, vars, data

-----------------------------------------------------------------------------
(* The order of the passes                                                   *)

(* One process goes on; the others stay at their passes                      *)
LEMMA OrderStands ==
    ASSUME InOrder, NEW p \in Process, NEW next,
           \A q \in Process : opening'[q] = IF q = p THEN next ELSE opening'[q],
           \A q \in Process \ {p} : opening'[q] \in {opening[q], Staled(opening[q])},
           opening \in [Process -> Opening],
           stamped \subseteq stamped', deferred => deferred',
           attempt'["fused"] \in {attempt["fused"], "none"} \/ deferred',
           "archived_vec" \in stamped' \ stamped => "fused" \in stamped' \/ deferred',
           p \notin Hooks /\ next.pc \notin {"closed", "open"} /\ next.at > 6
               => "fused" \in stamped' \/ deferred'
    PROVE  InOrder'
<1>1. \A q \in Process \ {p} : opening'[q].pc = opening[q].pc /\ opening'[q].at = opening[q].at
  BY DEF Staled, Opening
<1>2. \A q \in Process \ Hooks : Beyond(q)' => "fused" \in stamped' \/ deferred'
  BY <1>1 DEF InOrder, Beyond
<1>3. "archived_vec" \in stamped' /\ "fused" \notin stamped' => deferred'
  BY DEF InOrder
<1>4. attempt'["fused"] # "none" => deferred'
  BY DEF InOrder
<1>. QED  BY <1>2, <1>3, <1>4 DEF InOrder

(* A process that leaves the split behind leaves it done or put off          *)
LEMMA PassingBy ==
    ASSUME IInv, InOrder, NEW p \in Process, opening[p].pc \notin {"closed", "open"},
           stamped \subseteq stamped', deferred => deferred',
           CurrentPass(p) = "fused" => "fused" \in stamped' \/ deferred'
    PROVE  p \notin Hooks /\ Advanced(p).pc \notin {"closed", "open"} /\ Advanced(p).at > 6
               => "fused" \in stamped' \/ deferred'
<1> SUFFICES ASSUME p \notin Hooks, Advanced(p).pc \notin {"closed", "open"},
                    Advanced(p).at > 6
             PROVE  "fused" \in stamped' \/ deferred'
  OBVIOUS
<1>1. opening[p].at \in 1..Len(PassesOf(p)) /\ opening[p].at \in Nat
  BY DEF IInv, Positions, TypeOK
<1>2. Advanced(p).at = opening[p].at + 1
  BY DEF Advanced, Opened, Closed
<1>3. CASE opening[p].at > 6
  BY <1>3 DEF InOrder, Beyond
<1>4. CASE opening[p].at = 6
  BY <1>1, <1>4, Places DEF CurrentPass
<1>. QED  BY <1>1, <1>2, <1>3, <1>4

LEMMA OnePassAtATime ==
    ASSUME IInv, NEW p \in Process, NEW next, Step(p, next) \/ Commit(p, next)
    PROVE  /\ opening \in [Process -> Opening]
           /\ \A q \in Process : opening'[q] = IF q = p THEN next ELSE opening'[q]
           /\ \A q \in Process \ {p} : opening'[q] \in {opening[q], Staled(opening[q])}
BY DEF IInv, TypeOK, Opening, Step, Commit

(* Only an opening that has the split behind it drops archived vectors       *)
LEMMA DroppedInOrder ==
    ASSUME IInv, InOrder, NEW p \in Process, opening[p].pc \notin {"closed", "open"},
           CurrentPass(p) = "archived_vec"
    PROVE  "fused" \in stamped \/ deferred
<1>1. opening[p].at \in 1..Len(PassesOf(p))
  BY DEF IInv, Positions
<1>2. opening[p].at > 6 /\ p \notin Hooks
  BY <1>1, Places DEF CurrentPass
<1>. QED  BY <1>2 DEF InOrder, Beyond

LEMMA OpeningInOrder ==
    ASSUME IInv, InOrder, NEW p \in Process, Opens(p)
    PROVE  InOrder'
<1>0. "archived_vec" \notin Backfill /\ "fused" \notin Backfill /\ "archived_vec" # "fused"
  BY DEF Backfill
<1>1. CASE Open(p)
  <2> DEFINE next == [Closed EXCEPT !.pc = "checking", !.at = 1]
  <2>1. Step(p, next) /\ UNCHANGED <<data, tries>>
    BY <1>1 DEF Open
  <2>2. next.at = 1
    BY DEF Closed
  <2> HIDE DEF next
  <2>. QED  BY <2>1, <2>2, OnePassAtATime, OrderStands DEF data, tries
<1>2. CASE Close(p) \/ Refused(p)
  <2>1. Step(p, Closed) /\ UNCHANGED <<data, tries>>
    BY <1>2 DEF Close, Refused
  <2>. QED  BY <2>1, OnePassAtATime, OrderStands DEF data, tries, Closed
<1>3. CASE Check(p)
  <2>1. opening[p].pc = "checking" /\ UNCHANGED <<data, tries>>
    BY <1>3 DEF Check
  <2>2. CASE Step(p, Advanced(p)) /\ (CurrentPass(p) \in stamped \/ BacksOff(CurrentPass(p)))
    <3>1. CurrentPass(p) = "fused" => "fused" \in stamped \/ deferred
      BY <2>2 DEF BacksOff, InOrder
    <3>. QED  BY <2>1, <2>2, <3>1, PassingBy, OnePassAtATime, OrderStands DEF data, tries
  <2> DEFINE next == [opening[p] EXCEPT !.pc = "due"]
  <2>3. CASE Step(p, next)
    <3>1. opening[p] \in Opening
      BY DEF IInv, TypeOK, Opening
    <3>2. next.at = opening[p].at
      BY <3>1 DEF Opening
    <3> HIDE DEF next
    <3>3. p \notin Hooks /\ opening[p].at > 6 => "fused" \in stamped \/ deferred
      BY <2>1 DEF InOrder, Beyond
    <3>. QED  BY <2>1, <2>3, <3>2, <3>3, OnePassAtATime, OrderStands DEF data, tries
  <2>. QED  BY <1>3, <2>2, <2>3 DEF Check
<1>4. CASE Snapshot(p)
  <2> DEFINE next == [opening[p] EXCEPT !.pc = "read", !.seen = Having(row, CurrentPass(p))]
  <2>1. opening[p].pc = "due" /\ UNCHANGED <<data, tries>> /\ CurrentPass(p) # "fused"
    BY <1>0, <1>4 DEF Snapshot
  <2>2. CASE Step(p, Advanced(p))
    BY <2>1, <2>2, PassingBy, OnePassAtATime, OrderStands DEF data, tries
  <2>3. CASE Step(p, next)
    <3>1. next.at = opening[p].at
      BY DEF IInv, TypeOK
    <3>2. p \notin Hooks /\ opening[p].at > 6 => "fused" \in stamped \/ deferred
      BY <2>1 DEF InOrder, Beyond
    <3> HIDE DEF next
    <3>. QED  BY <2>1, <2>3, <3>1, <3>2, OnePassAtATime, OrderStands DEF data, tries
  <2>. QED  BY <1>4, <2>2, <2>3 DEF Snapshot
<1>5. CASE Fill(p)
  <2>1. /\ opening[p].pc = "read" /\ Commit(p, Advanced(p)) /\ UNCHANGED tries
        /\ stamped' = stamped \cup {CurrentPass(p)}
        /\ CurrentPass(p) \in Backfill
    BY <1>5 DEF Fill, IInv, WorkLists
  <2>. QED  BY <1>0, <2>1, PassingBy, OnePassAtATime, OrderStands DEF tries
<1>6. CASE RunOnce(p)
  <2>1. /\ opening[p].pc = "due" /\ Commit(p, Advanced(p)) /\ UNCHANGED deferred
        /\ stamped' = stamped \cup {CurrentPass(p)}
        /\ attempt' = [attempt EXCEPT ![CurrentPass(p)] = "none"]
    BY <1>6 DEF RunOnce
  <2>2. "archived_vec" \in stamped' \ stamped => "fused" \in stamped' \/ deferred'
    BY <2>1, DroppedInOrder
  <2>3. attempt'["fused"] \in {attempt["fused"], "none"}
    BY <2>1 DEF IInv, TypeOK, Pass, Flaw, Repair
  <2>. QED  BY <2>1, <2>2, <2>3, PassingBy, OnePassAtATime, OrderStands
<1>7. CASE Raced(p)
  <2>1. opening[p].pc = "due" /\ Step(p, Advanced(p)) /\ UNCHANGED <<data, tries>>
        /\ CurrentPass(p) \in stamped
    BY <1>7 DEF Raced
  <2>2. UNCHANGED <<stamped, deferred, attempt>>
    BY <2>1 DEF data, tries
  <2>3. p \notin Hooks /\ Advanced(p).pc \notin {"closed", "open"} /\ Advanced(p).at > 6
          => "fused" \in stamped' \/ deferred'
    BY <2>1, <2>2, PassingBy
  <2>. QED  BY <2>1, <2>2, <2>3, OnePassAtATime, OrderStands
<1>8. CASE NoteAttempt(p)
  <2>1. /\ opening[p].pc = "broken" /\ Commit(p, Advanced(p)) /\ UNCHANGED data
        /\ attempt' = [attempt EXCEPT ![CurrentPass(p)] = "recent"]
        /\ deferred' = (deferred \/ CurrentPass(p) = "fused")
    BY <1>8 DEF NoteAttempt, PutOff
  <2>2. attempt'["fused"] = attempt["fused"] \/ deferred'
    BY <2>1 DEF IInv, TypeOK, Pass, Flaw, Repair
  <2>. QED  BY <2>1, <2>2, PassingBy, OnePassAtATime, OrderStands DEF data
<1>. QED  BY <1>1, <1>2, <1>3, <1>4, <1>5, <1>6, <1>7, <1>8 DEF Opens

LEMMA MishapsInOrder ==
    ASSUME IInv, InOrder, NEW p \in Process, Locked(p) \/ Breaks(p) \/ Crash(p)
    PROVE  InOrder'
<1>1. CASE Crash(p)
  <2>1. Step(p, Closed) /\ UNCHANGED <<data, tries>>
    BY <1>1 DEF Crash
  <2>. QED  BY <2>1, OnePassAtATime, OrderStands DEF data, tries, Closed
<1>2. CASE Locked(p)
  <2>1. /\ opening[p].pc \notin {"closed", "open"} /\ UNCHANGED <<data, attempt>>
        /\ deferred' = (deferred \/ CurrentPass(p) = "fused")
    BY <1>2 DEF Locked, PutOff, Writes
  <2>2. CASE Step(p, Closed)
    <3>1. Closed.pc = "closed"
      BY DEF Closed
    <3>2. stamped' = stamped /\ attempt' = attempt /\ (deferred => deferred')
      BY <2>1 DEF data
    <3>. QED  BY <2>2, <3>1, <3>2, OnePassAtATime, OrderStands
  <2>3. CASE Step(p, Advanced(p))
    BY <2>1, <2>3, PassingBy, OnePassAtATime, OrderStands DEF data
  <2>. QED  BY <1>2, <2>2, <2>3 DEF Locked
<1>3. CASE Breaks(p)
  <2>1. opening[p].pc \notin {"closed", "open"} /\ UNCHANGED <<data, tries>>
    BY <1>3 DEF Breaks, Writes
  <2>2. CASE Step(p, Closed)
    BY <2>1, <2>2, OnePassAtATime, OrderStands DEF data, tries, Closed
  <2> DEFINE next == [opening[p] EXCEPT !.pc = "broken"]
  <2>3. CASE Step(p, next)
    <3>1. next.at = opening[p].at
      BY DEF IInv, TypeOK
    <3> HIDE DEF next
    <3>2. p \notin Hooks /\ opening[p].at > 6 => "fused" \in stamped \/ deferred
      BY <2>1 DEF InOrder, Beyond
    <3>. QED  BY <2>1, <2>3, <3>1, <3>2, OnePassAtATime, OrderStands DEF data, tries
  <2>. QED  BY <1>3, <2>2, <2>3 DEF Breaks
<1>. QED  BY <1>1, <1>2, <1>3

(* Writers move no process and put nothing off                               *)
LEMMA WritersInOrder ==
    ASSUME IInv, InOrder, UNCHANGED deferred, stamped' \subseteq stamped \cup {"segmented"},
           stamped \subseteq stamped',
           attempt'["fused"] \in {attempt["fused"], "none"} \/ deferred,
           \A q \in Process : opening'[q] \in {opening[q], Staled(opening[q])}
    PROVE  InOrder'
<1>1. \A q \in Process : opening'[q].pc = opening[q].pc /\ opening'[q].at = opening[q].at
  BY DEF Staled, IInv, TypeOK
<1>2. "archived_vec" # "segmented"
  OBVIOUS
<1>. QED  BY <1>1, <1>2 DEF InOrder, Beyond

LEMMA NextInOrder ==
    ASSUME IInv, InOrder, [Next]_vars
    PROVE  InOrder'
<1>1. ASSUME NEW p \in Process, Serve(p) PROVE InOrder'
  <2>1. Commit(p, opening[p]) /\ UNCHANGED deferred
    BY <1>1 DEF Serve, Remember, Capture, Archive, ReindexFts, Reindex, ReindexSome, tries
  <2>2. /\ stamped \subseteq stamped' /\ stamped' \subseteq stamped \cup {"segmented"}
        /\ attempt' = attempt \/ attempt' = [attempt EXCEPT !["segmented"] = "none"]
    BY <1>1 DEF Serve, Remember, Capture, Archive, ReindexFts, Reindex, ReindexSome, tries
  <2>3. attempt'["fused"] = attempt["fused"]
    BY <2>2 DEF IInv, TypeOK, Pass, Flaw, Repair
  <2>4. \A q \in Process : opening'[q] \in {opening[q], Staled(opening[q])}
    BY <2>1 DEF Commit
  <2>. QED  BY <2>1, <2>2, <2>3, <2>4, WritersInOrder
<1>2. ASSUME NEW e \in Entity, OlderRemember(e) \/ OlderArchive(e) PROVE InOrder'
  <2>1. UNCHANGED <<stamped, tries>> /\ opening' = [p \in Process |-> Staled(opening[p])]
    BY <1>2 DEF OlderRemember, OlderArchive
  <2>. QED  BY <2>1, WritersInOrder DEF tries
<1>3. ASSUME NEW k \in Pass, Ages(k) PROVE InOrder'
  <2>1. /\ attempt[k] = "recent" /\ attempt' = [attempt EXCEPT ![k] = "past"]
        /\ UNCHANGED <<data, deferred, opening>>
    BY <1>3 DEF Ages
  <2>2. attempt'["fused"] = attempt["fused"] \/ deferred
    BY <2>1 DEF IInv, TypeOK, InOrder
  <2>. QED  BY <2>1, <2>2, WritersInOrder DEF data
<1>4. ASSUME UNCHANGED vars PROVE InOrder'
  BY <1>4 DEF vars, InOrder, Beyond
<1>. QED  BY <1>1, <1>2, <1>3, <1>4, OpeningInOrder, MishapsInOrder DEF Next

(* The invariant of every interleaving                                       *)
THEOREM UpgradeInvariant == Spec => [](IInv /\ InOrder)
<1>1. ASSUME IInv, InOrder, NEW p \in Process, Opens(p) PROVE IInv'
  BY <1>1, OpenHolds, CheckHolds, SnapshotHolds, FillHolds, RefusedHolds,
     RunOnceHolds, RacedHolds, NoteAttemptHolds, CloseHolds DEF Opens
<1>2. ASSUME IInv, NEW p \in Process, Serve(p) PROVE IInv'
  BY <1>2, RememberHolds, CaptureHolds, ArchiveHolds, ReindexFtsHolds, ReindexHolds,
     ReindexSomeHolds DEF Serve
<1>3. ASSUME IInv, InOrder, [Next]_vars PROVE IInv'
  BY <1>1, <1>2, <1>3, LockedHolds, BreaksHolds, CrashHolds, OlderRememberHolds,
     OlderArchiveHolds, AgesHolds, StutterHolds DEF Next
<1>4. Init => InOrder
  <2> SUFFICES ASSUME Init PROVE InOrder
    OBVIOUS
  <2>1. /\ deferred = ("archived_vec" \in stamped /\ "fused" \notin stamped)
        /\ attempt = [k \in Pass |-> "none"]
        /\ \A p \in Process : opening[p].pc = "closed"
    BY DEF Init, Closed
  <2>2. "fused" \in Pass
    BY DEF Pass, Flaw, Repair
  <2>. QED  BY <2>1, <2>2 DEF InOrder, Beyond
<1>. QED  BY <1>3, <1>4, InitHolds, NextInOrder, PTL DEF Spec

(* TypeOK holds of every reachable state.                                    *)
THEOREM UpgradeTypes == Spec => []TypeOK
BY UpgradeInvariant, PTL DEF IInv

(* Whatever the releases and the processes that wrote, the keyword index and *)
(* the vectors of the archive say what IndexesAreTrue claims.                *)
THEOREM IndexesTrue == Spec => []IndexesAreTrue
BY UpgradeInvariant, PTL DEF IInv

(* No pass of openDatabase is marked done over work it has not done, however *)
(* many processes run it at once.                                            *)
THEOREM StampsEarned == Spec => StampsAreEarned
<1> DEFINE Earned == /\ stamped \subseteq stamped'
                     /\ \A k \in stamped' \ stamped : Clean(k, row')
<1>1. ASSUME IInv, NEW p \in Process, Fill(p) PROVE Earned
  <2>1. stamped' = stamped \cup {CurrentPass(p)}
    BY <1>1 DEF Fill
  <2>. QED  BY <1>1, <2>1, FillRepairs
<1>2. ASSUME IInv, InOrder, NEW p \in Process, RunOnce(p) PROVE Earned
  <2>1. /\ stamped' = stamped \cup {CurrentPass(p)} /\ Migrate(CurrentPass(p))
        /\ CurrentPass(p) \notin stamped
    BY <1>2 DEF RunOnce
  <2>. QED  BY <1>2, <2>1, Repairing DEF Repaired
<1>3. ASSUME IInv, NEW p \in Process, ReindexFts(p) PROVE Earned
  <2>1. stamped' = stamped \cup {"segmented"} /\ Rebuild
    BY <1>3 DEF ReindexFts
  <2>. QED  BY <1>3, <2>1, Rebuilds DEF Repaired
<1>4. ASSUME UNCHANGED stamped PROVE Earned
  BY <1>4
<1>5. ASSUME IInv, InOrder, NEW p \in Process, Opens(p) PROVE Earned
  <2>1. ASSUME UNCHANGED data PROVE Earned
    BY <2>1, <1>4 DEF data
  <2>2. CASE Open(p) \/ Check(p) \/ Snapshot(p) \/ Refused(p)
    BY <2>1, <2>2 DEF Open, Check, Snapshot, Refused
  <2>3. CASE Raced(p) \/ NoteAttempt(p) \/ Close(p)
    BY <2>1, <2>3 DEF Raced, NoteAttempt, Close
  <2>4. CASE Fill(p) \/ RunOnce(p)
    BY <1>1, <1>2, <1>5, <2>4
  <2>. QED  BY <1>5, <2>2, <2>3, <2>4 DEF Opens
<1>6. ASSUME IInv, NEW p \in Process, Serve(p) PROVE Earned
  BY <1>3, <1>4, <1>6 DEF Serve, Remember, Capture, Archive, Reindex, ReindexSome
<1>7. ASSUME IInv, InOrder, Next PROVE Earned
  BY <1>4, <1>5, <1>6, <1>7 DEF Next, Locked, Breaks, Crash, OlderRemember,
     OlderArchive, Ages, data
<1>8. ASSUME IInv, InOrder, [Next]_vars PROVE [Earned]_vars
  BY <1>7, <1>8
<1>. QED  BY <1>8, UpgradeInvariant, PTL DEF Spec, StampsAreEarned
=============================================================================
