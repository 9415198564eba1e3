-------------------------- MODULE MC_NoticeDispatch --------------------------
(* Model values, provider events and symmetry for TLC runs of NoticeDispatch. *)
EXTENDS NoticeDispatch, TLC

CONSTANTS h1, h2, email, courier, r1, r2

MC_Handlers   == {h1, h2}
MC_Both       == {email, courier}
MC_Email      == {email}
MC_Courier    == {courier}
MC_None       == {}
MC_Keys       == {<<email, 1>>, <<email, 2>>, <<courier, 1>>}
MC_EmailKeys  == {<<email, 1>>, <<email, 2>>}
MC_Recipients == {r1, r2}
MC_Answers    == [MC_Recipients -> {"SENT", "FAILED"}]

(* One recipient gets the message, the other's copy bounces. *)
MC_Events == {[id |-> 1, at |-> <<email, 1>>, changes |-> r1 :> "DELIVERED"],
              [id |-> 2, at |-> <<email, 1>>, changes |-> r2 :> "BOUNCED"]}

MC_Symmetry == Permutations(Handlers)
==============================================================================
