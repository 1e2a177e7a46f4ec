--------------------------- MODULE FirstDecision ---------------------------
(***************************************************************************)
(* What a match promises, without fighters, screens or documents: points   *)
(* are given one at a time; the match is open until at least MinRounds     *)
(* points have been given and the scores differ; the point that decides it *)
(* also settles the verdict, and no further point is given while the       *)
(* verdict stands.                                                         *)
(*                                                                         *)
(* A verdict can be waved away without starting a new match (the dialog of *)
(* the application can be closed by a tap beside it): the match is then    *)
(* open again with its scores kept, and the verdict may be given again.    *)
(***************************************************************************)
EXTENDS Integers

CONSTANT MinRounds      \* the number of points from which a match can end

VARIABLES first, second, verdict

vars == <<first, second, verdict>>

Decided(a, b) == a + b >= MinRounds /\ a # b

Leader(a, b) == IF a > b THEN "first" ELSE "second"

Ruling(a, b) == IF Decided(a, b) THEN Leader(a, b) ELSE "open"

Init == first = 0 /\ second = 0 /\ verdict = "open"

Point ==
    /\ verdict = "open"
    /\ \/ first' = first + 1 /\ second' = second
       \/ first' = first /\ second' = second + 1
    /\ verdict' = Ruling(first', second')

Repeat ==
    /\ verdict = "open" /\ Decided(first, second)
    /\ verdict' = Leader(first, second)
    /\ UNCHANGED <<first, second>>

WaveAway ==
    /\ verdict # "open"
    /\ verdict' = "open"
    /\ UNCHANGED <<first, second>>

NewMatch ==
    /\ verdict # "open"
    /\ first' = 0 /\ second' = 0 /\ verdict' = "open"

Next == Point \/ Repeat \/ WaveAway \/ NewMatch

Spec == Init /\ [][Next]_vars

=============================================================================
