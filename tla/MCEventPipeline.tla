--------------------------- MODULE MCEventPipeline ---------------------------
(* Small instances of EventPipeline for TLC. *)
EXTENDS EventPipeline, TLC

(* Run 1 exists; event 1 creates run 2; event 2 changes a station both runs stop at. *)
TwoEvents == {1, 2}
TwoRuns == {1, 2}
GrowingImpact == [e \in TwoEvents |-> IF e = 1 THEN {2} ELSE {1, 2}]
GrowingCreatedBy == [r \in TwoRuns |-> IF r = 2 THEN 1 ELSE 0]

(* One event that concerns two runs, so that its work takes two pages. *)
OneEvent == {1}
WideImpact == [e \in OneEvent |-> TwoRuns]
WideCreatedBy == [r \in TwoRuns |-> 0]

(* One run with one change that both searches and availability show. *)
OneRun == {1}
OneImpact == [e \in OneEvent |-> OneRun]
OneCreatedBy == [r \in OneRun |-> 0]

AdminSymmetry == Permutations(Admins)
ReadSymmetry == Permutations(Readers) \cup Permutations(Apis)
=============================================================================
