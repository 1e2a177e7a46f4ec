---------------------------- MODULE SinglePlayer ----------------------------
(***************************************************************************)
(* GameVC in "Single Player" mode: the player picks a fighter and presses  *)
(* Fight, the bot draws one at random, the engine gives a point or calls a *)
(* draw, and the match ends at the first round from MinRounds on that      *)
(* leaves the scores different.                                            *)
(*                                                                         *)
(* Every handler of this mode runs to its end on the main thread, so each  *)
(* is one step.  The labels on the screen are state of their own: a layout *)
(* pass of UIKit (a rotation) rewrites them without touching the scores.   *)
(***************************************************************************)
EXTENDS GameRules

CONSTANTS
    MinRounds,      \* 10 in matchEnd_SP
    MaxRound        \* bound on roundCounter; the code has none

ASSUME RoundsAssumption == MinRounds \in Nat \ {0} /\ MaxRound \in Nat

VARIABLES
    screen,             \* "menu" (MainMenuVC), "fight" (GameVC), "alert"
    playerSelection, botSelection,
    playerScoreValue, botScoreValue,
    roundCounter, roundResult,
    matchResult,        \* "none" for the initial empty string
    labels              \* the texts of playerScore, player2Score, roundNumber

scoreVars == <<playerScoreValue, botScoreValue, roundCounter>>
vars == <<screen, playerSelection, botSelection, scoreVars, roundResult,
          matchResult, labels>>

ZeroLabels == [player |-> 0, bot |-> 0, round |-> 0]

\* The initial values of GameVC's properties.
Init ==
    /\ screen = "menu"
    /\ playerSelection = "Rock" /\ botSelection = "Rock"
    /\ playerScoreValue = 0 /\ botScoreValue = 0
    /\ roundCounter = 0 /\ roundResult = "Result" /\ matchResult = "none"
    /\ labels = ZeroLabels

\* singlePlayerScreenTransition makes a new GameVC for every match, and its
\* first layout pass writes the zero labels.
EnterMatch ==
    /\ screen = "menu" /\ screen' = "fight"
    /\ playerSelection' = "Rock" /\ botSelection' = "Rock"
    /\ playerScoreValue' = 0 /\ botScoreValue' = 0
    /\ roundCounter' = 0 /\ roundResult' = "Result" /\ matchResult' = "none"
    /\ labels' = ZeroLabels

\* imageTapped_SP
SelectFighter(f) ==
    /\ screen = "fight"
    /\ playerSelection' = f
    /\ UNCHANGED <<screen, botSelection, scoreVars, roundResult, matchResult, labels>>

\* viewDidLayoutSubviews calls subviewLayout, which rewrites every label.
LayoutPass ==
    /\ screen \in {"fight", "alert"}
    /\ labels' = ZeroLabels
    /\ UNCHANGED <<screen, playerSelection, botSelection, scoreVars, roundResult, matchResult>>

-----------------------------------------------------------------------------
(* The Fight button: botEngine, gameEngine_SP, matchEnd_SP in one handler.  *)

\* The score changes of the three kinds of branch of gameEngine_SP.
GameEngine_DrawCounts(mine, theirs) ==
    LET outcome == Outcome_SP(mine, theirs) IN
    /\ playerScoreValue' = playerScoreValue + (IF outcome = "first" THEN 1 ELSE 0)
    /\ botScoreValue' = botScoreValue + (IF outcome = "second" THEN 1 ELSE 0)
    /\ roundCounter' = roundCounter + 1
    /\ roundResult' = outcome
    /\ labels' = [player |-> playerScoreValue', bot |-> botScoreValue', round |-> roundCounter']

GameEngine(mine, theirs) ==
    LET outcome == Outcome_SP(mine, theirs) IN
    /\ playerScoreValue' = playerScoreValue + (IF outcome = "first" THEN 1 ELSE 0)
    /\ botScoreValue' = botScoreValue + (IF outcome = "second" THEN 1 ELSE 0)
    /\ roundCounter' = roundCounter + (IF outcome = "draw" THEN 0 ELSE 1)
    /\ roundResult' = outcome
    /\ labels' = [player |-> playerScoreValue', bot |-> botScoreValue', round |-> roundCounter']

\* Variants of definitions, named Definition_Change, are only used to see
\* that a property notices the change.
WinnerSelect_Title(mine, theirs) == IF mine > theirs THEN "player" ELSE "RPSLS Bot"

WinnerSelect(mine, theirs) == IF mine > theirs THEN "player" ELSE "bot"

MatchOver_NoTieCheck(counter, mine, theirs) == counter >= MinRounds

MatchOver_ExactRound(counter, mine, theirs) == counter = MinRounds /\ mine # theirs

MatchOver(counter, mine, theirs) == counter >= MinRounds /\ mine # theirs

\* matchEnd_SP and the dialog matchEndAlert presents.
MatchEnd ==
    IF MatchOver(roundCounter', playerScoreValue', botScoreValue')
    THEN /\ matchResult' = WinnerSelect(playerScoreValue', botScoreValue')
         /\ screen' = "alert"
    ELSE UNCHANGED <<matchResult, screen>>

\* buttonClicked
Fight ==
    /\ screen = "fight"
    /\ roundCounter < MaxRound
    /\ botSelection' \in Fighters
    /\ GameEngine(playerSelection, botSelection')
    /\ MatchEnd
    /\ UNCHANGED playerSelection

-----------------------------------------------------------------------------
(* The dialog.                                                             *)

Rematch_KeepLabel ==
    /\ screen = "alert" /\ screen' = "fight"
    /\ playerScoreValue' = 0 /\ botScoreValue' = 0 /\ roundCounter' = 0
    /\ labels' = [labels EXCEPT !.player = 0, !.bot = 0]
    /\ UNCHANGED <<playerSelection, botSelection, roundResult, matchResult>>

\* The Rematch button: matchReset_SP leaves the selections and the results.
Rematch ==
    /\ screen = "alert" /\ screen' = "fight"
    /\ playerScoreValue' = 0 /\ botScoreValue' = 0 /\ roundCounter' = 0
    /\ labels' = ZeroLabels
    /\ UNCHANGED <<playerSelection, botSelection, roundResult, matchResult>>

\* The Exit button dismisses GameVC.
Exit ==
    /\ screen = "alert" /\ screen' = "menu"
    /\ UNCHANGED <<playerSelection, botSelection, scoreVars, roundResult, matchResult, labels>>

\* A tap beside the dialog closes it and runs no action of the game.
TapBeside ==
    /\ screen = "alert" /\ screen' = "fight"
    /\ UNCHANGED <<playerSelection, botSelection, scoreVars, roundResult, matchResult, labels>>

Next ==
    \/ EnterMatch
    \/ \E f \in Fighters : SelectFighter(f)
    \/ LayoutPass
    \/ Fight
    \/ Rematch
    \/ Exit
    \/ TapBeside

Spec == Init /\ [][Next]_vars

-----------------------------------------------------------------------------
TypeOK ==
    /\ screen \in {"menu", "fight", "alert"}
    /\ playerSelection \in Fighters /\ botSelection \in Fighters
    /\ playerScoreValue \in Nat /\ botScoreValue \in Nat /\ roundCounter \in Nat
    /\ roundResult \in {"Result", "first", "second", "draw"}
    /\ matchResult \in {"none", "player", "bot"}
    /\ labels \in [player : Nat, bot : Nat, round : Nat]

\* Draws are not rounds: the round number is the number of points given, over
\* any sequence of fights, rematches and dialogs closed without a choice.
ScoresAddUp == playerScoreValue + botScoreValue = roundCounter

\* While the dialog is up it names the player who strictly leads, and the match
\* was long enough to end.
AlertNamesLeader ==
    screen = "alert" =>
        /\ roundCounter >= MinRounds
        /\ matchResult = "player" <=> playerScoreValue > botScoreValue
        /\ matchResult = "bot" <=> botScoreValue > playerScoreValue

\* The three numbers on the screen come from one moment: they are the held
\* scores or the zeros of a layout pass, never a mixture (fight, rematch and
\* layout each write all of them).
LabelsNeverMix ==
    screen # "menu" =>
        \/ labels = ZeroLabels
        \/ labels = [player |-> playerScoreValue, bot |-> botScoreValue, round |-> roundCounter]

\* A point goes to the fighter that the circle of five names the winner: the
\* hand-written switch and the rules of the game agree on all 25 pairs.
PointsFollowTheRules ==
    [][ Fight =>
          /\ playerScoreValue' > playerScoreValue <=> Precedes(botSelection', playerSelection)
          /\ botScoreValue' > botScoreValue <=> Precedes(playerSelection, botSelection') ]_vars

-----------------------------------------------------------------------------
\* The match seen by FirstDecision: leaving GameVC ends it.
Match == INSTANCE FirstDecision WITH
            first   <- IF screen = "menu" THEN 0 ELSE playerScoreValue,
            second  <- IF screen = "menu" THEN 0 ELSE botScoreValue,
            verdict <- IF screen # "alert" THEN "open"
                       ELSE IF matchResult = "player" THEN "first" ELSE "second"

\* The single-player match keeps the promise of FirstDecision: in particular
\* no point is given while a verdict stands, and the point that decides the
\* match brings the verdict up in the same step.
MatchSpec == Match!Spec

=============================================================================
