------------------------------ MODULE MCNested -------------------------------
(* NestedTasks with two analyses.                                             *)
EXTENDS NestedTasks

CONSTANTS a1, a2, c1

OneAnalysis == {a1}
TwoAnalyses == {a1, a2}
NoAnalysis  == {}
OneCall     == {c1}
=============================================================================
