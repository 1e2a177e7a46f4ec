------------------------- MODULE SinglePlayerProofs -------------------------
(***************************************************************************)
(* Theorems about the match against the bot, for every MinRounds and every *)
(* bound on the rounds.                                                    *)
(***************************************************************************)
EXTENDS SinglePlayer, TLAPS

(* ----------------------------- the rules ------------------------------- *)

\* The hand-written switch of gameEngine_SP is the circle of five: the first
\* player wins exactly when the second's fighter precedes, loses exactly when
\* it follows, and only equal fighters draw.
THEOREM SwitchIsCircle ==
    ASSUME NEW f \in Fighters, NEW g \in Fighters
    PROVE  /\ Outcome_SP(f, g) = "first" <=> Precedes(g, f)
           /\ Outcome_SP(f, g) = "second" <=> Precedes(f, g)
           /\ Outcome_SP(f, g) = "draw" <=> f = g
<1>1. CASE f = "Rock"
    BY <1>1 DEF Fighters, Outcome_SP, Verdict, Defeats_SP, Precedes, Position
<1>2. CASE f = "Paper"
    BY <1>2 DEF Fighters, Outcome_SP, Verdict, Defeats_SP, Precedes, Position
<1>3. CASE f = "Scissors"
    BY <1>3 DEF Fighters, Outcome_SP, Verdict, Defeats_SP, Precedes, Position
<1>4. CASE f = "Lizard"
    BY <1>4 DEF Fighters, Outcome_SP, Verdict, Defeats_SP, Precedes, Position
<1>5. CASE f = "Spock"
    BY <1>5 DEF Fighters, Outcome_SP, Verdict, Defeats_SP, Precedes, Position
<1>q. QED BY <1>1, <1>2, <1>3, <1>4, <1>5 DEF Fighters

\* The two engines, written twice, give the same result on every pair.
THEOREM EnginesAgree ==
    ASSUME NEW f \in Fighters, NEW g \in Fighters
    PROVE  Outcome_MP(f, g) = Outcome_SP(f, g)
<1>1. Defeats_MP = Defeats_SP
    BY DEF Defeats_MP, Defeats_SP
<1>q. QED BY <1>1 DEF Outcome_MP, Outcome_SP

\* The outcome of a round is one of three.
LEMMA OutcomeCases ==
    ASSUME NEW f, NEW g
    PROVE  Outcome_SP(f, g) \in {"first", "second", "draw"}
BY DEF Outcome_SP, Verdict

(* ------------------------ the inductive invariant ---------------------- *)

\* The four invariants of SinglePlayer are inductive together.
IInv == TypeOK /\ ScoresAddUp /\ AlertNamesLeader /\ LabelsNeverMix

\* A match starts in the invariant.
LEMMA IInvInit == Init => IInv
BY DEF Init, IInv, TypeOK, ScoresAddUp, AlertNamesLeader, LabelsNeverMix,
       ZeroLabels, Fighters

\* What the Fight button does to the scores, spelled out for each outcome.
LEMMA FightScores ==
    ASSUME TypeOK, Fight
    PROVE  /\ playerSelection' = playerSelection /\ botSelection' \in Fighters
           /\ roundResult' = Outcome_SP(playerSelection, botSelection')
           /\ \/ /\ Outcome_SP(playerSelection, botSelection') = "first"
                 /\ playerScoreValue' = playerScoreValue + 1
                 /\ botScoreValue' = botScoreValue
                 /\ roundCounter' = roundCounter + 1
              \/ /\ Outcome_SP(playerSelection, botSelection') = "second"
                 /\ playerScoreValue' = playerScoreValue
                 /\ botScoreValue' = botScoreValue + 1
                 /\ roundCounter' = roundCounter + 1
              \/ /\ Outcome_SP(playerSelection, botSelection') = "draw"
                 /\ playerScoreValue' = playerScoreValue
                 /\ botScoreValue' = botScoreValue
                 /\ roundCounter' = roundCounter
           /\ labels' = [player |-> playerScoreValue', bot |-> botScoreValue',
                         round |-> roundCounter']
<1>1. Outcome_SP(playerSelection, botSelection') \in {"first", "second", "draw"}
    BY OutcomeCases
<1>q. QED BY <1>1 DEF Fight, GameEngine, TypeOK

\* The Fight button keeps the scores natural numbers that add up.
LEMMA FightSum ==
    ASSUME TypeOK, ScoresAddUp, Fight
    PROVE  /\ playerScoreValue' \in Nat /\ botScoreValue' \in Nat
           /\ roundCounter' \in Nat
           /\ roundCounter' = playerScoreValue' + botScoreValue'
BY FightScores DEF TypeOK, ScoresAddUp

\* Every step keeps the invariant.
LEMMA IInvStep == IInv /\ [Next]_vars => IInv'
<1> SUFFICES ASSUME IInv, [Next]_vars PROVE IInv'
    OBVIOUS
<1> USE RoundsAssumption DEF IInv
<1>1. CASE EnterMatch
    BY <1>1 DEF EnterMatch, TypeOK, ScoresAddUp, AlertNamesLeader,
                LabelsNeverMix, ZeroLabels, Fighters
<1>2. ASSUME NEW f \in Fighters, SelectFighter(f) PROVE IInv'
    BY <1>2 DEF SelectFighter, scoreVars, TypeOK, ScoresAddUp,
                AlertNamesLeader, LabelsNeverMix
<1>3. CASE LayoutPass
    BY <1>3 DEF LayoutPass, scoreVars, TypeOK, ScoresAddUp, AlertNamesLeader,
                LabelsNeverMix, ZeroLabels
<1>4. CASE Fight
    <2>1. /\ playerScoreValue' \in Nat /\ botScoreValue' \in Nat
          /\ roundCounter' \in Nat
          /\ playerScoreValue' + botScoreValue' = roundCounter'
        BY <1>4, FightSum
    <2>2. /\ screen' \in {"fight", "alert"} /\ matchResult' \in {"none", "player", "bot"}
          /\ AlertNamesLeader'
        BY <1>4, <2>1 DEF Fight, MatchEnd, MatchOver, WinnerSelect, TypeOK,
                          AlertNamesLeader
    <2>3. /\ roundResult' \in {"first", "second", "draw"}
          /\ labels' = [player |-> playerScoreValue', bot |-> botScoreValue',
                        round |-> roundCounter']
        BY <1>4, FightScores
    <2>4. TypeOK'
        BY <1>4, <2>1, <2>2, <2>3, FightScores DEF TypeOK
    <2>q. QED BY <2>1, <2>2, <2>3, <2>4 DEF ScoresAddUp, LabelsNeverMix
<1>5. CASE Rematch
    BY <1>5 DEF Rematch, TypeOK, ScoresAddUp, AlertNamesLeader,
                LabelsNeverMix, ZeroLabels
<1>6. CASE Exit \/ TapBeside
    BY <1>6 DEF Exit, TapBeside, scoreVars, TypeOK, ScoresAddUp,
                AlertNamesLeader, LabelsNeverMix
<1>7. CASE UNCHANGED vars
    BY <1>7 DEF vars, scoreVars, TypeOK, ScoresAddUp, AlertNamesLeader,
                LabelsNeverMix
<1>q. QED BY <1>1, <1>2, <1>3, <1>4, <1>5, <1>6, <1>7 DEF Next

\* The invariant holds in every reachable state.
LEMMA Invariance == Spec => []IInv
BY IInvInit, IInvStep, PTL DEF Spec

\* Every variable keeps its type.
THEOREM TypeCorrect == Spec => []TypeOK
<1>1. IInv => TypeOK BY DEF IInv
<1>q. QED BY <1>1, Invariance, PTL

\* The round number is the number of points given, through any sequence of
\* fights, rematches and dialogs closed beside their buttons.
THEOREM ScoresAlwaysAddUp == Spec => []ScoresAddUp
<1>1. IInv => ScoresAddUp BY DEF IInv
<1>q. QED BY <1>1, Invariance, PTL

\* The dialog that ends a match names the player who strictly leads.
THEOREM AlertAlwaysNamesLeader == Spec => []AlertNamesLeader
<1>1. IInv => AlertNamesLeader BY DEF IInv
<1>q. QED BY <1>1, Invariance, PTL

\* The numbers on the screen are never of two moments.
THEOREM LabelsAreOfOneMoment == Spec => []LabelsNeverMix
<1>1. IInv => LabelsNeverMix BY DEF IInv
<1>q. QED BY <1>1, Invariance, PTL

\* Points are given by the rules of the game.
THEOREM PointsAlwaysFollowTheRules == Spec => PointsFollowTheRules
<1> DEFINE ByTheRules ==
        Fight =>
          /\ playerScoreValue' > playerScoreValue <=> Precedes(botSelection', playerSelection)
          /\ botScoreValue' > botScoreValue <=> Precedes(playerSelection, botSelection')
<1>1. IInv /\ [Next]_vars => [ByTheRules]_vars
    <2> SUFFICES ASSUME IInv, Fight
                 PROVE  /\ playerScoreValue' > playerScoreValue
                              <=> Precedes(botSelection', playerSelection)
                        /\ botScoreValue' > botScoreValue
                              <=> Precedes(playerSelection, botSelection')
        OBVIOUS
    <2>1. playerSelection \in Fighters /\ botSelection' \in Fighters
        BY FightScores DEF IInv, TypeOK
    <2>2. /\ Outcome_SP(playerSelection, botSelection') = "first"
                <=> Precedes(botSelection', playerSelection)
          /\ Outcome_SP(playerSelection, botSelection') = "second"
                <=> Precedes(playerSelection, botSelection')
        BY <2>1, SwitchIsCircle
    <2>q. QED BY <2>2, FightScores DEF IInv, TypeOK
<1>q. QED BY <1>1, Invariance, PTL DEF Spec, PointsFollowTheRules

(* ----------------------- the abstract match ---------------------------- *)

\* The initial state is an open match without points.
LEMMA MatchInit == Init => Match!Init
BY DEF Init, Match!Init

\* Every step of the single-player match is a step of the abstract match, or
\* changes nothing of it.
LEMMA MatchStep == IInv /\ [Next]_vars => [Match!Next]_(Match!vars)
<1> SUFFICES ASSUME IInv, [Next]_vars PROVE [Match!Next]_(Match!vars)
    OBVIOUS
<1> USE RoundsAssumption DEF IInv
<1>1. CASE EnterMatch
    BY <1>1 DEF EnterMatch, Match!vars
<1>2. ASSUME NEW f \in Fighters, SelectFighter(f) PROVE UNCHANGED Match!vars
    BY <1>2 DEF SelectFighter, scoreVars, Match!vars
<1>3. CASE LayoutPass
    BY <1>3 DEF LayoutPass, scoreVars, Match!vars
<1>4. CASE Fight
    <2>1. screen = "fight"
        BY <1>4 DEF Fight
    <2>2. /\ playerScoreValue' \in Nat /\ botScoreValue' \in Nat
          /\ roundCounter' = playerScoreValue' + botScoreValue'
        BY <1>4, FightSum
    <2> DEFINE over == MatchOver(roundCounter', playerScoreValue', botScoreValue')
    <2>3. over <=> Match!Decided(playerScoreValue', botScoreValue')
        BY <2>2 DEF MatchOver, Match!Decided
    <2>4. /\ over => screen' = "alert" /\ matchResult' = WinnerSelect(playerScoreValue', botScoreValue')
          /\ ~over => screen' = "fight"
        BY <1>4, <2>1 DEF Fight, MatchEnd
    <2>5. CASE Outcome_SP(playerSelection, botSelection') # "draw"
        BY <2>1, <2>2, <2>3, <2>4, <2>5, <1>4, FightScores
           DEF Match!Next, Match!Point, Match!Ruling, Match!Leader, WinnerSelect, TypeOK
    <2>6. CASE Outcome_SP(playerSelection, botSelection') = "draw"
        <3>1. playerScoreValue' = playerScoreValue /\ botScoreValue' = botScoreValue
            BY <2>6, <1>4, FightScores
        <3>2. CASE over
            BY <2>1, <2>3, <2>4, <3>1, <3>2
               DEF Match!Next, Match!Repeat, Match!Leader, WinnerSelect
        <3>3. CASE ~over
            BY <2>1, <2>4, <3>1, <3>3 DEF Match!vars
        <3>q. QED BY <3>2, <3>3
    <2>q. QED BY <2>5, <2>6
<1>5. CASE Rematch
    BY <1>5 DEF Rematch, AlertNamesLeader, Match!Next, Match!NewMatch
<1>6. CASE Exit
    BY <1>6 DEF Exit, Match!Next, Match!NewMatch
<1>7. CASE TapBeside
    BY <1>7 DEF TapBeside, scoreVars, Match!Next, Match!WaveAway
<1>8. CASE UNCHANGED vars
    BY <1>8 DEF vars, scoreVars, Match!vars
<1>q. QED BY <1>1, <1>2, <1>3, <1>4, <1>5, <1>6, <1>7, <1>8 DEF Next

\* The single-player mode implements FirstDecision: no point is given while a
\* verdict stands, and the verdict comes with the point that decides.
THEOREM ImplementsFirstDecision == Spec => MatchSpec
<1>1. Spec => Match!Init /\ [][Match!Next]_(Match!vars)
    BY MatchInit, MatchStep, Invariance, PTL DEF Spec
<1>q. QED BY <1>1 DEF MatchSpec, Match!Spec

=============================================================================
