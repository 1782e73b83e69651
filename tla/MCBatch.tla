------------------------------- MODULE MCBatch -------------------------------
(* BatchGeneration with a few sections.                                       *)
EXTENDS BatchGeneration

\* Every dispatch but the chain's, whose failure is only logged: after it the
\* progress bar stays for ever.
ReportedDispatches == {"timer", "retry", "skip"}

NoDispatch == {}
=============================================================================
