------------------------------ MODULE MCUbiEba ------------------------------
(* Small instances of UbiEba for TLC.                                       *)
EXTENDS UbiEba, TLC

\* Eraseblocks, LEBs and pages are interchangeable: the specification compares
\* them for equality only.
Symmetry == Permutations(PEB) \cup Permutations(LEB) \cup Permutations(Page)
=============================================================================
