------------------------------ MODULE MCSection ------------------------------
(* SectionGeneration with one piece of text to type.                          *)
EXTENDS SectionGeneration

CONSTANT s1

OneEdit == {s1}
=============================================================================
