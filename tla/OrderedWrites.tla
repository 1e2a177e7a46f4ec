--------------------------- MODULE OrderedWrites ---------------------------
(***************************************************************************)
(* What a device's queue of writes promises to the code above it, without  *)
(* streams, timers or restarts.  Writes are numbered in the order they are *)
(* made.  The server takes the waiting writes in that order; the oldest is *)
(* settled once it has been applied, or is refused.  An interruption makes *)
(* the device forget which waiting writes were applied, and the server may *)
(* see them a second time: from the oldest, in order, none left out.       *)
(***************************************************************************)
EXTENDS Naturals, Sequences

VARIABLES
    waiting,        \* the writes not settled, oldest first
    passed,         \* how many of them the server has taken in this pass
    doc,            \* the last write the server applied, 0 before the first
    made            \* the number of the last write made

vars == <<waiting, passed, doc, made>>

Init ==
    /\ waiting = <<>>
    /\ passed = 0
    /\ doc = 0
    /\ made = 0

Make ==
    /\ made' = made + 1
    /\ waiting' = Append(waiting, made')
    /\ UNCHANGED <<passed, doc>>

Apply ==
    /\ passed < Len(waiting)
    /\ passed' = passed + 1
    /\ doc' = waiting[passed']
    /\ UNCHANGED <<waiting, made>>

Acknowledge ==
    /\ passed > 0
    /\ waiting' = Tail(waiting)
    /\ passed' = passed - 1
    /\ UNCHANGED <<doc, made>>

Refuse ==
    /\ waiting # <<>>
    /\ waiting' = Tail(waiting)
    /\ passed' = 0
    /\ UNCHANGED <<doc, made>>

Forget ==
    /\ passed' \in 0..passed
    /\ UNCHANGED <<waiting, doc, made>>

Next == Make \/ Apply \/ Acknowledge \/ Refuse \/ Forget

Spec == Init /\ [][Next]_vars
=============================================================================
