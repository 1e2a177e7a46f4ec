---------------------------- MODULE AtomicRounds ----------------------------
(***************************************************************************)
(* What a match between two players promises as long as nothing disturbs   *)
(* it, without devices, documents or messages: every round is one step.  A *)
(* round gives a point to one of the players or is a draw; a round that    *)
(* leaves the match decided names its leader the winner and is one win for *)
(* the leader and one loss for the other, in the same step.  A win or loss *)
(* may turn out not to have been recorded, by a step of its own.           *)
(*                                                                         *)
(* A decided match is not closed: a further round is played on the same    *)
(* scores, and if it leaves the match decided it is one more win and loss. *)
(* Nothing is promised of a disturbed match: two of its rounds have        *)
(* overlapped, or one was played on numbers that had changed.              *)
(***************************************************************************)
EXTENDS Integers

CONSTANT MinRounds      \* the number of counted rounds from which a match can end

VARIABLES
    points,         \* the points of each player
    counted,        \* the rounds that were not draws
    winner,         \* the player last named the winner, or "none"
    wins, losses,   \* of each player, recorded or about to be
    missedWins, missedLosses,   \* of each player, never recorded
    disturbed       \* whether nothing is promised any more

vars == <<points, counted, winner, wins, losses, missedWins, missedLosses, disturbed>>

Players == {"host", "guest"}
Other(p) == IF p = "host" THEN "guest" ELSE "host"

None == [p \in Players |-> 0]

Init ==
    /\ points = None /\ counted = 0
    /\ winner = "none"
    /\ wins = None /\ losses = None
    /\ missedWins = None /\ missedLosses = None
    /\ disturbed = FALSE

Decides(p, score, count) == count >= MinRounds /\ score[p] > score[Other(p)]

Point ==
    /\ counted' = counted + 1
    /\ \E p \in Players : points' = [points EXCEPT ![p] = @ + 1]

Draw == UNCHANGED <<counted, points>>

\* The leader of a decided match is named and credited.
Award(p) ==
    /\ winner' = p
    /\ Decides(p, points', counted')
    /\ wins' = [wins EXCEPT ![p] = @ + 1]
    /\ losses' = [losses EXCEPT ![Other(p)] = @ + 1]

GoOn ==
    /\ \A p \in Players : ~Decides(p, points', counted')
    /\ UNCHANGED <<winner, wins, losses>>

Round ==
    /\ UNCHANGED <<missedWins, missedLosses>>
    /\ Draw \/ Point
    /\ GoOn \/ \E p \in Players : Award(p)

\* A win or a loss of p is not recorded after all.
MissWin(p) ==
    /\ missedWins' = [missedWins EXCEPT ![p] = @ + 1]
    /\ wins[p] > 0 /\ wins' = [wins EXCEPT ![p] = @ - 1]
    /\ UNCHANGED <<points, counted, winner, losses, missedLosses>>

MissLoss(p) ==
    /\ missedLosses' = [missedLosses EXCEPT ![p] = @ + 1]
    /\ losses[p] > 0 /\ losses' = [losses EXCEPT ![p] = @ - 1]
    /\ UNCHANGED <<points, counted, winner, wins, missedWins>>

Undisturbed ==
    /\ ~disturbed /\ ~disturbed'
    /\ Round \/ \E p \in Players : MissWin(p) \/ MissLoss(p)

Disturb == disturbed'

\* Between the rounds, and when a draw leaves the match undecided.
Idle == UNCHANGED vars

Next == Disturb \/ Idle \/ Undisturbed

Spec == Init /\ [][Next]_vars

=============================================================================
