-------------------------------- MODULE Lists --------------------------------
(* Filtering a list. SelectSeq, as a recursive function over the list's       *)
(* places, so that what a filter returns can be reasoned about.               *)
EXTENDS Integers, Sequences

(* The elements of the list at these places, in the list's order.             *)
Picked(list, places) ==
  LET kept[n \in 0 .. Len(list)] ==
        IF n = 0 THEN <<>>
        ELSE IF n \in places THEN Append(kept[n - 1], list[n]) ELSE kept[n - 1]
  IN kept[Len(list)]
==============================================================================
