-------------------------- MODULE MultiplayerMatch --------------------------
(***************************************************************************)
(* GameVC in "Multiplayer" mode: two players, each on a device, and the    *)
(* documents they share.  The input document holds the fighter a player    *)
(* has submitted, or "Empty"; the room's document holds the scores, the    *)
(* round number, the fighters of the last round and the winner; a player's *)
(* document holds its wins and losses.                                     *)
(*                                                                         *)
(* Fight reads the input document.  If the opponent has submitted nothing, *)
(* the player's own fighter is submitted; otherwise this device resolves   *)
(* the round: it empties both inputs, reads the room, computes the point   *)
(* and writes the scores back, field by field.  Nothing excludes the other *)
(* device, or a second tap on this one, from resolving at the same time.   *)
(*                                                                         *)
(* Of the Firestore client the model keeps what the code relies on: the    *)
(* writes of a device are applied in order, one at a time; its own reads   *)
(* and listeners see them at once; reads are answered in any order and     *)
(* their callbacks run in the order of the answers.  While the device is   *)
(* offline a read is answered out of the client's cache, with what the     *)
(* document once held, or ends with an error, and its callback returns.    *)
(***************************************************************************)
EXTENDS GameRules, Sequences

CONSTANTS
    Hands,          \* the fighters the players pick
    Watching,       \* the players whose screen listener reports to them
    Rotating,       \* the players whose screen is laid out again
    MinRounds,      \* 10 in callMatchEnd and roundScoreUpdate
    MaxFights,      \* bound on the taps on Fight; the code has none
    MaxFailures     \* bound on the reads the server does not answer

ASSUME HandsAssumption == Hands \subseteq Fighters
ASSUME BoundsAssumption == MinRounds \in Nat \ {0} /\ MaxFights \in Nat /\ MaxFailures \in Nat

Players == {"host", "guest"}
Opponent(p) == IF p = "host" THEN "guest" ELSE "host"

InputField(p) == IF p = "host" THEN "hostInputCheck" ELSE "guestInputCheck"
ScoreField(p) == IF p = "host" THEN "hostScore" ELSE "guestScore"
SelectionField(p) == IF p = "host" THEN "hostSelection" ELSE "guestSelection"
WinsField(p) == IF p = "host" THEN "hostWins" ELSE "guestWins"

LossesField_Swapped(p) == IF p = "host" THEN "guestLosses" ELSE "hostLosses"

LossesField(p) == IF p = "host" THEN "hostLosses" ELSE "guestLosses"

InputFields == {"hostInputCheck", "guestInputCheck"}
SelectionFields == {"hostSelection", "guestSelection"}
ScoreFields == {"hostScore", "guestScore", "roundNumber"}
StatFields == {"hostWins", "guestWins", "hostLosses", "guestLosses"}
RoomFields == SelectionFields \cup ScoreFields \cup {"matchWinner"}
Fields == InputFields \cup RoomFields \cup StatFields

\* The reads whose callbacks write: of the inputs, of the room to compute a
\* point, and one of each number in the players' documents.
Kinds == {"fight", "engine"} \cup StatFields

\* What the callback of a read uses of the document.
FieldsRead(k) ==
    IF k = "fight" THEN InputFields ELSE IF k = "engine" THEN ScoreFields ELSE {k}

VARIABLES
    server,         \* the value of every field
    \* one GameVC per player
    screen,         \* "arriving", "fight", "dialog", "left", "crashed"
    selection,      \* playerSelection (host) and player2Selection (guest)
    renamed,        \* playerName and player2Name show "Player 1", "Player 2"
    \* the Firestore client of each player
    pend,           \* writes the server has not applied yet
    asked,          \* how many reads of each kind await an answer
    inbox,          \* answers whose callbacks have not run yet
    redraw,         \* the listener reports a change and reads the room again
    conclude,       \* matchEndDialog reads the room
    fights,         \* taps of the players on Fight
    failures,       \* how many reads the server has not answered
    former,         \* the values a field has had: what a cache may hold of it
    \* history
    disturbed,      \* a round was resolved while another one was under way, or
                    \* on numbers that had changed since they were cached
    decisions,      \* how many resolutions found the match decided
    announced,      \* the players who have seen a dialog with the winner
    unrecorded      \* the wins and losses whose reads ended with an error

gameVars == <<screen, selection, renamed>>
offline == <<failures, former>>
history == <<disturbed, decisions, announced, unrecorded>>
vars == <<server, gameVars, pend, asked, inbox, redraw, conclude, fights, offline, history>>

\* The room as NewRoom leaves it (MultiplayerGame), both players in GameVC's
\* presentation.
Init ==
    /\ server = [f \in Fields |->
         IF f \in InputFields THEN "absent" ELSE
         IF f \in SelectionFields THEN "Rock.png" ELSE
         IF f = "matchWinner" THEN "none" ELSE 0]
    /\ screen = [p \in Players |-> "arriving"]
    /\ selection = [p \in Players |-> [q \in Players |-> "Rock"]]
    /\ renamed = [p \in Players |-> FALSE]
    /\ pend = [p \in Players |-> <<>>]
    /\ asked = [p \in Players |-> [k \in Kinds |-> 0]]
    /\ inbox = [p \in Players |-> <<>>]
    /\ redraw = [p \in Players |-> FALSE]
    /\ conclude = [p \in Players |-> FALSE]
    /\ fights = 0
    /\ failures = 0
    /\ former = [f \in Fields |-> IF MaxFailures > 0 THEN {server[f]} ELSE {}]
    /\ disturbed = FALSE
    /\ decisions = 0
    /\ announced = {}
    /\ unrecorded = [f \in StatFields |-> 0]

-----------------------------------------------------------------------------
(* The Firestore client.  A write gives values to some fields.             *)

Write(f, v) == [x \in {f} |-> v]

\* A field as the device sees it that has the writes ws pending: the last of
\* them that gives it a value, or the document.
Own(ws, f) == {i \in 1..Len(ws) : f \in DOMAIN ws[i]}
View(doc, ws, f) ==
    LET own == Own(ws, f) IN
    IF own = {} THEN doc[f] ELSE ws[CHOOSE i \in own : \A j \in own : j <= i][f]

Local(p, f) == View(server, pend[p], f)

\* The documents after the server applied a write.
After(doc, w) == [f \in Fields |-> IF f \in DOMAIN w THEN w[f] ELSE doc[f]]

Room(p) == [f \in RoomFields |-> Local(p, f)]

\* The screen listener of p, once it stands, reports each change of the room
\* as modified; reports whose reads are not answered yet are taken together.
Listening(p) == p \in Watching /\ screen[p] \in {"fight", "dialog"}

ListenersNotice ==
    redraw' = [p \in Players |-> Listening(p) /\ (redraw[p] \/ Room(p)' # Room(p))]

\* What a field has held is kept as long as a cache may still answer with it.
Remember == former' = [f \in Fields |->
    IF failures' < MaxFailures THEN former[f] \cup {server'[f]} ELSE {}]

\* The server applies the next write of p, also when p has left.
ApplyWrite(p) ==
    /\ pend[p] # <<>>
    /\ server' = After(server, Head(pend[p]))
    /\ pend' = [pend EXCEPT ![p] = Tail(@)]
    /\ UNCHANGED <<gameVars, asked, inbox, conclude, fights, failures, history>>
    /\ Remember
    /\ ListenersNotice

Ask(p, kinds) == asked' = [asked EXCEPT ![p] = [k \in Kinds |->
    IF k \in kinds THEN asked[p][k] + 1 ELSE asked[p][k]]]

\* The answer makes its reader resolve the round.
Resolves(p, inputs) == inputs[InputField(Opponent(p))] \in Fighters

\* p has resolved a round, or is about to, and its records are not all on the
\* server yet.
Resolving(p) ==
    \/ \E i \in 1..Len(inbox[p]) :
         inbox[p][i].kind = "fight" => Resolves(p, inbox[p][i].data)
    \/ \E k \in Kinds \ {"fight"} : asked[p][k] > 0
    \/ \E i \in 1..Len(pend[p]) : ~(DOMAIN pend[p][i] \subseteq InputFields)

\* The answer is not what its reader would get from the server.
Outdated(p, k, data) == \E f \in FieldsRead(k) : data[f] # Local(p, f)

\* A read of p is answered with data.  A round resolved while another one is
\* under way, or on numbers that are no longer true, disturbs the match; inputs
\* that are no longer true only make one more round.
Answer(p, k, data) ==
    /\ asked[p][k] > 0
    /\ asked' = [asked EXCEPT ![p][k] = @ - 1]
    /\ inbox' = [inbox EXCEPT ![p] = Append(@, [kind |-> k, data |-> data])]
    /\ disturbed' =
         \/ disturbed
         \/ k = "fight" /\ Resolves(p, data) /\ \E q \in Players : Resolving(q)
         \/ k # "fight" /\ Outdated(p, k, data)
    /\ UNCHANGED <<server, gameVars, pend, redraw, conclude, fights,
                   decisions, announced, unrecorded>>

\* By the server; the client lays the writes still pending over the answer.
Serve(p, k) ==
    /\ Answer(p, k, [f \in FieldsRead(k) |-> Local(p, f)])
    /\ UNCHANGED offline

\* The device of p is offline while one of its reads ends.
Offline(p) ==
    /\ failures < MaxFailures /\ screen[p] # "crashed"
    /\ failures' = failures + 1
    /\ Remember

\* By the client's cache, with something else than the server would say: of each
\* field not written by a pending write a value it once had, the fields of one
\* answer not all of the same time, for the device's own writes lie over an
\* older document.
CachedValues(p, f) == IF Own(pend[p], f) = {} THEN former[f] ELSE {Local(p, f)}

ServeCached(p, k) ==
    /\ Offline(p)
    /\ \E data \in [FieldsRead(k) -> UNION {CachedValues(p, f) : f \in FieldsRead(k)}] :
         /\ \A f \in FieldsRead(k) : data[f] \in CachedValues(p, f)
         /\ Outdated(p, k, data)
         /\ Answer(p, k, data)

\* By nobody: the cache has no copy.  The callback returns, so a round is not
\* played, or not counted, and a win or loss is not recorded.
ReadFails(p, k) ==
    /\ Offline(p)
    /\ asked[p][k] > 0
    /\ asked' = [asked EXCEPT ![p][k] = @ - 1]
    /\ unrecorded' = [f \in StatFields |-> unrecorded[f] + (IF f = k THEN 1 ELSE 0)]
    /\ UNCHANGED <<server, gameVars, pend, inbox, redraw, conclude, fights,
                   disturbed, decisions, announced>>

-----------------------------------------------------------------------------
(* GameVC appears, and what its player does.                               *)

\* viewDidAppear: names, screen listener, and initializeInputRoom, which
\* replaces the input document before it adds the host's field.
Appear(p) ==
    /\ screen[p] = "arriving"
    /\ screen' = [screen EXCEPT ![p] = "fight"]
    /\ pend' = [pend EXCEPT ![p] = @ \o
         << [f \in InputFields |-> IF f = "guestInputCheck" THEN "Empty" ELSE "absent"],
            Write("hostInputCheck", "Empty") >>]
    /\ UNCHANGED <<server, selection, renamed, asked, inbox, redraw, conclude, fights, offline, history>>

\* imageTapped_MP; the image of the fighter already selected changes nothing.
SelectFighter(p, f) ==
    /\ screen[p] = "fight"
    /\ selection[p][p] # f
    /\ selection' = [selection EXCEPT ![p][p] = f]
    /\ UNCHANGED <<server, screen, renamed, pend, asked, inbox, redraw, conclude, fights, offline, history>>

\* subviewLayout writes "Player 1" and "Player 2" into the name labels.
LayoutPass(p) ==
    /\ p \in Rotating /\ screen[p] \in {"fight", "dialog"} /\ ~renamed[p]
    /\ renamed' = [renamed EXCEPT ![p] = TRUE]
    /\ UNCHANGED <<server, screen, selection, pend, asked, inbox, redraw, conclude, fights, offline, history>>

\* The Fight button asks for the input document.
Fight(p) ==
    /\ screen[p] = "fight"
    /\ fights < MaxFights
    /\ fights' = fights + 1
    /\ Ask(p, {"fight"})
    /\ UNCHANGED <<server, gameVars, pend, inbox, redraw, conclude, offline, history>>

\* The dialog's Exit button dismisses GameVC and removes its listener.
Exit(p) ==
    /\ screen[p] = "dialog"
    /\ screen' = [screen EXCEPT ![p] = "left"]
    /\ redraw' = [redraw EXCEPT ![p] = FALSE]
    /\ UNCHANGED <<server, selection, renamed, pend, asked, inbox, conclude, fights, offline, history>>

\* A tap beside the dialog closes it; the match goes on.
TapBeside(p) ==
    /\ screen[p] = "dialog"
    /\ screen' = [screen EXCEPT ![p] = "fight"]
    /\ UNCHANGED <<server, selection, renamed, pend, asked, inbox, redraw, conclude, fights, offline, history>>

-----------------------------------------------------------------------------
(* The callbacks of a round.                                               *)

\* The callback of the oldest answer of p.
Callback(p, kinds) ==
    /\ screen[p] # "crashed"
    /\ inbox[p] # <<>> /\ Head(inbox[p]).kind \in kinds
    /\ inbox' = [inbox EXCEPT ![p] = Tail(@)]

\* The branches of hostUpdateScreen and guestUpdateScreen after the read.
Submit(p) ==
    /\ pend' = [pend EXCEPT ![p] = @ \o << Write(InputField(p), selection[p][p]) >>]
    /\ UNCHANGED <<screen, selection, asked>>

Resolve(p, theirs) ==
    /\ selection' = [selection EXCEPT ![p][Opponent(p)] = theirs]
    /\ pend' = [pend EXCEPT ![p] = @ \o
         << Write(SelectionField(p), selection[p][p]),
            Write(SelectionField(Opponent(p)), theirs),
            Write("hostInputCheck", "Empty"),
            Write("guestInputCheck", "Empty") >>]
    /\ Ask(p, {"engine"})
    /\ UNCHANGED screen

\* The forced cast finds no input of the opponent.
FightTraps(p) ==
    /\ screen' = [screen EXCEPT ![p] = "crashed"]
    /\ UNCHANGED <<selection, pend, asked>>

FightCallback(p) ==
    /\ Callback(p, {"fight"})
    /\ LET theirs == Head(inbox[p]).data[InputField(Opponent(p))] IN
       \/ theirs = "Empty" /\ Submit(p)
       \/ theirs \in Fighters /\ Resolve(p, theirs)
       \/ theirs = "absent" /\ FightTraps(p)
    /\ UNCHANGED <<server, renamed, conclude, fights, offline, history>>
    /\ ListenersNotice

\* gameLogic: the scores it read, with the point of the selections it holds.
NewScores_LoserPays(room, sel) ==
    LET outcome == Outcome_MP(sel["host"], sel["guest"]) IN
    [ hostScore   |-> room["hostScore"] + (IF outcome = "first" THEN 1 ELSE -1),
      guestScore  |-> room["guestScore"] + (IF outcome = "second" THEN 1 ELSE -1),
      roundNumber |-> room["roundNumber"] + (IF outcome = "draw" THEN 0 ELSE 1) ]

NewScores_DrawCounts(room, sel) ==
    LET outcome == Outcome_MP(sel["host"], sel["guest"]) IN
    [ hostScore   |-> room["hostScore"] + (IF outcome = "first" THEN 1 ELSE 0),
      guestScore  |-> room["guestScore"] + (IF outcome = "second" THEN 1 ELSE 0),
      roundNumber |-> room["roundNumber"] + 1 ]

NewScores(room, sel) ==
    LET outcome == Outcome_MP(sel["host"], sel["guest"]) IN
    [ hostScore   |-> room["hostScore"] + (IF outcome = "first" THEN 1 ELSE 0),
      guestScore  |-> room["guestScore"] + (IF outcome = "second" THEN 1 ELSE 0),
      roundNumber |-> room["roundNumber"] + (IF outcome = "draw" THEN 0 ELSE 1) ]

MatchOver(s) == s["roundNumber"] >= MinRounds /\ s["hostScore"] # s["guestScore"]

Leader_Swapped(s) == IF s["hostScore"] < s["guestScore"] THEN "host" ELSE "guest"

Leader(s) == IF s["hostScore"] > s["guestScore"] THEN "host" ELSE "guest"

\* The text of the leader's name label on p's screen.
NameLabel(p, leader) ==
    IF ~renamed[p] THEN leader ELSE IF leader = "host" THEN "Player 1" ELSE "Player 2"

\* roundScoreUpdate, and updateHostWin or updateGuestWin once the match is
\* decided.
EngineCallback(p) ==
    /\ Callback(p, {"engine"})
    /\ LET s == NewScores(Head(inbox[p]).data, selection[p])
           scores == << Write("hostScore", s.hostScore), Write("guestScore", s.guestScore),
                        Write("roundNumber", s.roundNumber) >>
       IN
       \/ /\ MatchOver(s)
          /\ pend' = [pend EXCEPT ![p] = @ \o scores \o
                        << Write("matchWinner", NameLabel(p, Leader(s))) >>]
          /\ Ask(p, {WinsField(Leader(s)), LossesField(Opponent(Leader(s)))})
          /\ decisions' = decisions + 1
       \/ /\ ~MatchOver(s)
          /\ pend' = [pend EXCEPT ![p] = @ \o scores]
          /\ UNCHANGED <<asked, decisions>>
    /\ UNCHANGED <<server, gameVars, conclude, fights, offline, disturbed, announced, unrecorded>>
    /\ ListenersNotice

\* A callback of updateHostWin or updateGuestWin: one more win or loss.
StatCallback(p) ==
    /\ Callback(p, StatFields)
    /\ LET f == Head(inbox[p]).kind IN
       pend' = [pend EXCEPT ![p] = @ \o << Write(f, Head(inbox[p]).data[f] + 1) >>]
    /\ UNCHANGED <<server, gameVars, asked, redraw, conclude, fights, offline, history>>

-----------------------------------------------------------------------------
(* The screen listener.                                                    *)

MatchEnded(room) == MatchOver(room) /\ room["matchWinner"] # "none"

\* The read of the listener is answered: updateScreenElements only draws,
\* callMatchEnd has matchEndDialog read the room once more.
ScreenUpdate_OnlyResolver(p) ==
    /\ screen[p] # "crashed"
    /\ redraw[p]
    /\ redraw' = [redraw EXCEPT ![p] = FALSE]
    /\ conclude' = [conclude EXCEPT ![p] = @ \/ (MatchEnded(Room(p)) /\ pend[p] # <<>>)]
    /\ UNCHANGED <<server, gameVars, pend, asked, inbox, fights, offline, history>>

ScreenUpdate(p) ==
    /\ screen[p] # "crashed"
    /\ redraw[p]
    /\ redraw' = [redraw EXCEPT ![p] = FALSE]
    /\ conclude' = [conclude EXCEPT ![p] = @ \/ MatchEnded(Room(p))]
    /\ UNCHANGED <<server, gameVars, pend, asked, inbox, fights, offline, history>>

\* The read ends with an error: nothing is drawn and no end is called.
ScreenUpdateFails(p) ==
    /\ Offline(p)
    /\ redraw[p]
    /\ redraw' = [redraw EXCEPT ![p] = FALSE]
    /\ UNCHANGED <<server, gameVars, pend, asked, inbox, conclude, fights, history>>

\* matchEndDialog's callback; a second dialog is not presented over the first.
MatchEndDialog(p) ==
    /\ screen[p] # "crashed"
    /\ conclude[p]
    /\ conclude' = [conclude EXCEPT ![p] = FALSE]
    /\ screen' = IF screen[p] = "fight" THEN [screen EXCEPT ![p] = "dialog"] ELSE screen
    /\ announced' = IF screen[p] = "fight" THEN announced \cup {p} ELSE announced
    /\ UNCHANGED <<server, selection, renamed, pend, asked, inbox, redraw, fights, offline,
                   disturbed, decisions, unrecorded>>

\* Its read ends with an error: the dialog is not shown.
DialogFails(p) ==
    /\ Offline(p)
    /\ conclude[p]
    /\ conclude' = [conclude EXCEPT ![p] = FALSE]
    /\ UNCHANGED <<server, gameVars, pend, asked, inbox, redraw, fights, history>>

-----------------------------------------------------------------------------
PlayerStep(p) ==
    \/ Appear(p)
    \/ \E f \in Hands : SelectFighter(p, f)
    \/ LayoutPass(p)
    \/ Fight(p)
    \/ Exit(p)
    \/ TapBeside(p)

SystemStep(p) ==
    \/ ApplyWrite(p)
    \/ \E k \in Kinds : Serve(p, k) \/ ServeCached(p, k) \/ ReadFails(p, k)
    \/ FightCallback(p)
    \/ EngineCallback(p)
    \/ StatCallback(p)
    \/ ScreenUpdate(p) \/ ScreenUpdateFails(p)
    \/ MatchEndDialog(p) \/ DialogFails(p)

Next == \E p \in Players : PlayerStep(p) \/ SystemStep(p)

Spec == Init /\ [][Next]_vars

\* The network answers and the callbacks run; the players owe nothing.
Fairness == \A p \in Players :
    /\ WF_vars(ApplyWrite(p))
    /\ \A k \in Kinds : WF_vars(Serve(p, k))
    /\ WF_vars(FightCallback(p)) /\ WF_vars(EngineCallback(p)) /\ WF_vars(StatCallback(p))
    /\ WF_vars(ScreenUpdate(p)) /\ WF_vars(MatchEndDialog(p))

FairSpec == Spec /\ Fairness

-----------------------------------------------------------------------------
FieldType(f) ==
    IF f \in InputFields THEN Fighters \cup {"Empty", "absent"} ELSE
    IF f \in SelectionFields THEN Fighters \cup {"Rock.png"} ELSE
    IF f = "matchWinner" THEN {"none", "host", "guest", "Player 1", "Player 2"} ELSE Nat

\* What a device writes: one field at a time, but for the input document, which
\* Appear replaces.
IsWrite(w) ==
    \/ \E f \in Fields : w \in [{f} -> FieldType(f)]
    \/ w \in [InputFields -> {"Empty", "absent"}]

IsAnswer(a) ==
    \E k \in Kinds :
        /\ a.kind = k /\ DOMAIN a.data = FieldsRead(k)
        /\ \A f \in FieldsRead(k) : a.data[f] \in FieldType(f)

TypeOK ==
    /\ DOMAIN server = Fields /\ \A f \in Fields : server[f] \in FieldType(f)
    /\ screen \in [Players -> {"arriving", "fight", "dialog", "left", "crashed"}]
    /\ selection \in [Players -> [Players -> Fighters]]
    /\ renamed \in [Players -> BOOLEAN]
    /\ \A p \in Players : \A i \in 1..Len(pend[p]) : IsWrite(pend[p][i])
    /\ asked \in [Players -> [Kinds -> Nat]]
    /\ \A p \in Players : \A i \in 1..Len(inbox[p]) : IsAnswer(inbox[p][i])
    /\ redraw \in [Players -> BOOLEAN] /\ conclude \in [Players -> BOOLEAN]
    /\ fights \in 0..MaxFights
    /\ failures \in 0..MaxFailures
    /\ DOMAIN former = Fields /\ \A f \in Fields : former[f] \subseteq FieldType(f)
    /\ disturbed \in BOOLEAN /\ decisions \in Nat /\ announced \subseteq Players
    /\ unrecorded \in [StatFields -> Nat]

\* What is promised is promised until the match is disturbed, and a disturbed
\* match stays so: TLC need not go on from there.
Undisturbed == ~disturbed

AtRest == \A p \in Players : ~Resolving(p)

\* Whenever no round is being resolved, the scores add up to the number of
\* rounds, unless the match was disturbed before.
ScoresAddUp ==
    (~disturbed /\ AtRest) => server["hostScore"] + server["guestScore"] = server["roundNumber"]

\* Whenever no round is being resolved, a match that is decided has a winner,
\* and it is the player in the lead, by name or by the label in its place.
WinnerLeads ==
    (~disturbed /\ AtRest /\ MatchOver(server)) =>
        server["matchWinner"] \in
            IF server["hostScore"] > server["guestScore"] THEN {"host", "Player 1"}
            ELSE {"guest", "Player 2"}

\* Whenever no round is being resolved, every decision of the match is one win
\* of a player and one loss of the other, recorded or known to be missing since
\* the read before it failed, unless the match was disturbed before.
Made(f) == server[f] + unrecorded[f]

StatsBalance ==
    (~disturbed /\ AtRest) =>
        /\ Made("hostWins") = Made("guestLosses")
        /\ Made("guestWins") = Made("hostLosses")
        /\ Made("hostWins") + Made("guestWins") = decisions

Gone(p) == screen[p] \in {"left", "crashed"}

\* A winner that stands is announced to every player who has not left, also to
\* the one whose device did not compute it.
WinnerAnnounced == \A p \in Players :
    (MatchEnded(server) /\ AtRest) ~> (p \in announced \/ Gone(p) \/ ~MatchEnded(server))

-----------------------------------------------------------------------------
(* A round as one step: it counts from the callback that computes it, in   *)
(* the eyes of the player who resolves it.  The resolving device sees its  *)
(* own writes at once; the wins and losses it has still to read and write  *)
(* back are owed.                                                          *)

\* An answer that keeps its reader in a resolution.
Counts(p, a) == a.kind = "fight" => Resolves(p, a.data)

\* The reads of a resolution that await an answer, and the answers that await
\* their callback.
Waits(p, k) == k # "fight" /\ asked[p][k] > 0
Has(p, k) == \E i \in 1..Len(inbox[p]) : inbox[p][i].kind = k /\ Counts(p, inbox[p][i])
Due(p, k) == Waits(p, k) \/ Has(p, k)

\* What p sees of a record, with the win or loss that its resolution still owes.
Record(p, f) == Local(p, f) + (IF Due(p, f) THEN 1 ELSE 0)

ScoresSeen == [p \in Players |-> [q \in Players |-> Local(p, ScoreField(q))]]
WinsSeen == [p \in Players |-> [q \in Players |-> Record(p, WinsField(q))]]
LossesSeen == [p \in Players |-> [q \in Players |-> Record(p, LossesField(q))]]
RoundsSeen == [p \in Players |-> Local(p, "roundNumber")]

\* The player whose name label was written as the winner.
WinnerSeen == [p \in Players |->
    LET label == Local(p, "matchWinner") IN
    IF label \in {"host", "Player 1"} THEN "host" ELSE
    IF label \in {"guest", "Player 2"} THEN "guest" ELSE "none"]

\* The player who resolves a round; the host stands for both while nobody does.
Witness == IF Resolving("guest") THEN "guest" ELSE "host"

Rounds == INSTANCE AtomicRounds WITH
    points <- ScoresSeen[Witness], counted <- RoundsSeen[Witness],
    winner <- WinnerSeen[Witness],
    wins <- WinsSeen[Witness], losses <- LossesSeen[Witness],
    missedWins <- [q \in Players |-> unrecorded[WinsField(q)]],
    missedLosses <- [q \in Players |-> unrecorded[LossesField(q)]]

\* As long as the match is not disturbed, the reads, writes and callbacks of a
\* round on two devices have the effect of one step, that of AtomicRounds, and
\* a record whose read fails that of another.
RoundsAreAtomic == Rounds!Spec

-----------------------------------------------------------------------------
(* What a forced cast of the code claims and the code does not ensure.     *)

\* The inputs a Fight reads are there: the forced casts of hostUpdateScreen
\* and guestUpdateScreen succeed.
InputsPresent == \A p \in Players : screen[p] # "crashed"
=============================================================================
