------------------------------ MODULE MCDreamer ------------------------------
(* Small instances of Dreamer: what is stored at first, and what is called   *)
EXTENDS Dreamer, TLC

CONSTANTS n1, n2, n3, n4, c1, c2, a, b, g

Ids3 == 1..3
Memories == 1..5
PairsAndNames == {n1, n2, n3, n4} \cup (Slug \X (0..MaxProposals))
GraphKinds == {"remember", "supersede", "pin", "capture", "remove", "archive", "delete",
               "rename", "import", "rewrite", "compress", "rebuild"}
Kinds == GraphKinds \cup {"dream", "pattern", "transcript", "product", "judge", "apply", "reject"}

(* An observation may hold a word of a name                                  *)
Vocabulary == {"auth", "token", "retry", "cache", "digest"}
WordsOf ==
    [x \in PairsAndNames \cup {a, b} |->
        CASE x = n1 -> {"auth"}
          [] x = n2 -> {"token", "retry"}
          [] x = a -> {"retry"}
          [] x = b -> {"auth", "cache"}
          [] OTHER -> {"digest"}]

Known(status, n, type, texts) ==
    LET r == [NoRow EXCEPT !.status = status, !.name = n, !.type = type, !.texts = texts]
    IN IF status = "active" THEN Index(r, n, texts) ELSE r
Tell(n, type, texts) == [name |-> n, type |-> type, texts |-> texts, meta |-> Plain]
Given(rows) == [m \in Memory |-> IF m \in DOMAIN rows THEN rows[m] ELSE NoRow]
Allow(calls, crashes, kinds, inputs) ==
    [calls |-> calls, crashes |-> crashes, kinds |-> kinds, inputs |-> inputs]

(* One memory that is found and one in the archive, and every writer of them *)
IndexScenario ==
    [memory |-> Given(<<Known("active", n1, "commit", {a}), Known("archived", n2, "note", {b})>>),
     left |-> Allow(3, 1, GraphKinds, {Tell(n1, "commit", {b}), Tell(n2, "note", {a})})]
(* Three memories that may be clustered, and reviewers of the digests        *)
Commits == Given([i \in 1..3 |-> Known("active", <<n1, n2, n3>>[i], "commit", {})])
DigestScenario ==
    [memory |-> Commits,
     left |-> Allow(4, 0, {"dream", "product", "apply", "reject", "archive", "delete"},
                    {Tell(Bare(g), "commit", {})})]
(* Metadata read before a digest is applied, and written back after          *)
StaleScenario ==
    [memory |-> Commits,
     left |-> Allow(4, 1, {"dream", "apply", "pin", "remember", "import"},
                    {[Tell(n1, "commit", {}) EXCEPT !.meta.compacted_into = 2]})]
(* Proposals that only add, and the names they would take                    *)
PatternScenario ==
    [memory |-> Given(<<Known("active", n1, "note", {}), Known("active", n2, "note", {})>>),
     left |-> Allow(4, 1, {"pattern", "product", "apply", "reject", "remember", "archive", "delete"},
                    {Tell(Bare(g), "note", {})})]
(* Guards, transcripts and verdicts                                          *)
LessonScenario ==
    [memory |-> Given(<<Known("active", n1, "lesson_learned", {}), Known("active", n2, "note", {})>>),
     left |-> Allow(5, 1, {"dream", "transcript", "judge", "apply", "reject", "pin"}, {})]
DreamScenarios ==
    {IndexScenario, DigestScenario, StaleScenario, PatternScenario, LessonScenario}

Twins == Permutations(Caller)
=============================================================================
