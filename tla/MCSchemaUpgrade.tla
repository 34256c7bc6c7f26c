--------------------------- MODULE MCSchemaUpgrade ---------------------------
(* Small instances of SchemaUpgrade: what earlier releases left              *)
EXTENDS SchemaUpgrade

CONSTANTS c, n, h

Entities == 1..2

(* A memory as a release before pair segmentation and titles wrote it, one   *)
(* it archived with a bare UPDATE, and one of this release's                 *)
None == [status |-> "new", flaws |-> {}, titled |-> FALSE, listed |-> FALSE,
         terms |-> {}, vector |-> FALSE]
Old(status, flaws) ==
    [status |-> status, flaws |-> flaws, titled |-> FALSE, listed |-> TRUE,
     terms |-> {"run"}, vector |-> TRUE]
Current(status, flaws) ==
    Rebuilt([None EXCEPT !.status = status, !.flaws = flaws, !.titled = TRUE,
                         !.vector = TRUE])
Allow(writes, older, mishaps) ==
    [write |-> writes, older |-> older, mishap |-> mishaps]

(* The whole upgrade, with a mishap                                          *)
WholeScenario ==
    [row |-> <<Old("active", {"unscored", "untitled", "repeats"}),
               Old("archived", {"hits"})>>,
     stamped |-> {}, left |-> Allow(0, 0, 1)]
(* Back-fills beside writers of both releases                                *)
BackfillScenario ==
    [row |-> <<Old("active", {"untitled"}), None>>,
     stamped |-> Pass \ {"untitled", "segmented"},
     left |-> Allow(1, 1, 0)]
(* Lesson buckets, and the vectors of what is archived                       *)
SplitScenario ==
    [row |-> <<Current("active", {"fused"}), Current("archived", {})>>,
     stamped |-> Pass \ {"fused", "archived_vec"},
     left |-> Allow(2, 0, 1)]
UpgradeScenarios == {WholeScenario, BackfillScenario, SplitScenario}
=============================================================================
