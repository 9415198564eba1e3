-------------------------- MODULE MC_NoticeApproval --------------------------
(* Model values and symmetry for TLC runs of NoticeApproval.                  *)
EXTENDS NoticeApproval, TLC

CONSTANTS h1, h2, plain, internal

MC_Two      == {h1, h2}
MC_GoodBad  == {plain, internal}
MC_Bad      == {internal}
MC_Zip      == {"ATTACHMENT_ZIP"}
MC_Dispatch == {"AUTHORIZATION_PENDING", "DISPATCHED"}

MC_Symmetry == Permutations(Handlers)
==============================================================================
