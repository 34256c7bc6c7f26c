------------------------ MODULE MCVectorGenerations ------------------------
(* A small instance of VectorGenerations. The mishaps come in mixes: each    *)
(* behaviour draws one of them.                                              *)
EXTENDS VectorGenerations, TLC

CONSTANTS a, b, r1, r2

MCEntities == {1, 2}
MCKnowns == {{1}, {1, 2}}
MCNamespace == {1}
MCWidths == {1, 2}
MCObservations == {a, b}
MCRebuilders == {r1, r2}

Mix(edits, rebuilds, crashes, discards, providers) ==
    [event \in Events |->
        CASE event = "edit" -> edits [] event = "rebuild" -> rebuilds
          [] event = "crash" -> crashes [] event = "discard" -> discards
          [] event = "provider" -> providers]
MCBudgets == {Mix(2, 1, 0, 0, 0), Mix(1, 2, 1, 0, 0), Mix(1, 2, 0, 1, 0),
              Mix(1, 1, 0, 0, 1), Mix(0, 2, 0, 0, 1)}

AnyRebuilder == Permutations(MCRebuilders)
=============================================================================
