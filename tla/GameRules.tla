----------------------------- MODULE GameRules -----------------------------
(***************************************************************************)
(* The rules of Rock-Paper-Scissors-Lizard-Spock as the two game engines   *)
(* of GameVC spell them out: one nested switch for the match against the   *)
(* bot and another one for the match between two players.  Each switch     *)
(* names, for the fighter of the first player, the two fighters it wins    *)
(* against and the draw; every other fighter falls into the default        *)
(* branch, a win of the second player.                                     *)
(***************************************************************************)
EXTENDS Integers

Fighters == {"Rock", "Paper", "Scissors", "Lizard", "Spock"}

\* The cases of gameEngine_SP that credit the player.
Defeats_SP ==
    [ Rock     |-> {"Scissors", "Lizard"},
      Paper    |-> {"Rock", "Spock"},
      Scissors |-> {"Paper", "Lizard"},
      Lizard   |-> {"Paper", "Spock"},
      Spock    |-> {"Rock", "Scissors"} ]

\* The cases of gameLogic that call hostWins.
Defeats_MP ==
    [ Rock     |-> {"Scissors", "Lizard"},
      Paper    |-> {"Rock", "Spock"},
      Scissors |-> {"Paper", "Lizard"},
      Lizard   |-> {"Paper", "Spock"},
      Spock    |-> {"Scissors", "Rock"} ]

\* A switch read as a function: the listed wins, then the draw, then the
\* default branch.
Verdict(defeats, first, second) ==
    IF second \in defeats[first] THEN "first"
    ELSE IF second = first THEN "draw" ELSE "second"

\* The engine of the single-player match with a variant of one case, used to
\* see that the properties about the rules tell a wrong table apart.
Outcome_SpockLosesToRock(first, second) ==
    Verdict([Defeats_SP EXCEPT !["Spock"] = {"Scissors"}], first, second)

Outcome_SP(first, second) == Verdict(Defeats_SP, first, second)

Outcome_MP(first, second) == Verdict(Defeats_MP, first, second)

-----------------------------------------------------------------------------
(* The reference definition: the five fighters on a circle, each defeating *)
(* the two that precede it.                                                *)

Position == [Rock |-> 0, Spock |-> 1, Paper |-> 2, Lizard |-> 3, Scissors |-> 4]

Precedes(loser, winner) == (Position[winner] - Position[loser]) % 5 \in {1, 2}

=============================================================================
