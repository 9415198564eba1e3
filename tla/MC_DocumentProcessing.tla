------------------------ MODULE MC_DocumentProcessing ------------------------
(* Model values and symmetry for TLC runs of DocumentProcessing.              *)
EXTENDS DocumentProcessing, TLC

CONSTANTS p1, p2, p3, q1, q2

MC_ThreeRuns == {p1, p2, p3}
MC_Two       == {q1, q2}
MC_None      == {}
MC_Second    == {p2}
MC_All       == {"crash", "raise", "redeliver", "overwrite"}

MC_Symmetry == Permutations(Requests)
==============================================================================
