----------------------------- MODULE JobDelivery -----------------------------
(* What the transactional outbox promises about each processing job          *)
(* (docs/adrs/ADR-025-transactional-outbox.md, "Decision" 1-4): an event that *)
(* was committed is tried a bounded number of times, is called delivered only *)
(* after it was handed to the queue, and is given up only after its last try. *)
(* Both are final, but for a delivery whose acknowledgement was lost: it is   *)
(* in doubt, and may be taken back once.  OutboxDispatch implements this.     *)
EXTENDS Naturals

CONSTANTS Events,       \* outbox rows
          MaxAttempts   \* OUTBOX_MAX_ATTEMPTS

VARIABLES outcome,   \* what the database says of each event
          tries,     \* how often it was claimed
          handed,    \* whether the queue ever received its job
          doubted    \* delivered events whose dispatcher does not know it

vars == <<outcome, tries, handed, doubted>>

Init ==
  /\ outcome = [e \in Events |-> "none"]
  /\ tries = [e \in Events |-> 0]
  /\ handed = [e \in Events |-> FALSE]
  /\ doubted = {}

Submit(e) ==
  /\ outcome[e] = "none"
  /\ outcome' = [outcome EXCEPT ![e] = "waiting"]
  /\ UNCHANGED <<tries, handed, doubted>>

(* One claim takes a batch of waiting events, none beyond its last try. *)
Try(S) ==
  /\ \A e \in S : outcome[e] = "waiting" /\ tries[e] < MaxAttempts
  /\ tries' = [e \in Events |-> IF e \in S THEN tries[e] + 1 ELSE tries[e]]
  /\ UNCHANGED <<outcome, handed, doubted>>

HandOver(e) ==
  /\ outcome[e] = "waiting" /\ tries[e] > 0
  /\ handed' = [handed EXCEPT ![e] = TRUE]
  /\ UNCHANGED <<outcome, tries, doubted>>

Deliver(e) ==
  /\ outcome[e] = "waiting" /\ handed[e]
  /\ outcome' = [outcome EXCEPT ![e] = "delivered"]
  /\ doubted' \in {doubted, doubted \cup {e}}
  /\ UNCHANGED <<tries, handed>>

GiveUp(e) ==
  /\ outcome[e] = "waiting" /\ tries[e] = MaxAttempts
  /\ outcome' = [outcome EXCEPT ![e] = "dead"]
  /\ UNCHANGED <<tries, handed, doubted>>

(* The doubt ends: the delivery stands, or it is undone. *)
Confirm(e) ==
  /\ e \in doubted
  /\ doubted' = doubted \ {e}
  /\ UNCHANGED <<outcome, tries, handed>>

TakeBack(e) ==
  /\ e \in doubted /\ outcome[e] = "delivered"
  /\ outcome' = [outcome EXCEPT ![e] = IF tries[e] = MaxAttempts THEN "dead" ELSE "waiting"]
  /\ doubted' = doubted \ {e}
  /\ UNCHANGED <<tries, handed>>

Next ==
  \/ \E e \in Events :
       \/ Submit(e) \/ HandOver(e) \/ Deliver(e) \/ GiveUp(e) \/ Confirm(e) \/ TakeBack(e)
  \/ \E S \in SUBSET Events : Try(S)

Spec == Init /\ [][Next]_vars
==============================================================================
