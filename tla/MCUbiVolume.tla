---------------------------- MODULE MCUbiVolume ----------------------------
(* Small instances of UbiVolume for TLC.                                    *)
EXTENDS UbiVolume, TLC

\* Volumes are interchangeable: the specification compares them for equality only.
Symmetry == Permutations(Vol)
=============================================================================
