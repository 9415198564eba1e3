-------------------------- MODULE MC_DocumentUpload --------------------------
(* Model values and symmetry for TLC runs of DocumentUpload.                  *)
EXTENDS DocumentUpload, TLC

CONSTANTS s1, s2, s3, r1, r2, r3, r4, k1, good, short, spoof

MC_Two        == {s1, s2}
MC_Three      == {s1, s2, s3}
MC_Requests4  == {r1, r2, r3, r4}
MC_Key        == {k1}
MC_NoKey      == {}
MC_Contents   == {good, short, spoof}
MC_Short      == {short}
MC_Spoof      == {spoof}

MC_Symmetry == Permutations(Sessions) \cup Permutations(Requests)
==============================================================================
