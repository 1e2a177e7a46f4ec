------------------------------ MODULE Accounts ------------------------------
(***************************************************************************)
(* Registration, log-in, the session a device stores, and the leaderboard. *)
(*                                                                         *)
(* The accounts are the documents of playerDatabase.  A device reads one   *)
(* with getDocument: the answer is of a moment between the call and the    *)
(* callback, with the device's own writes on top; offline it comes from    *)
(* what the device has read before, or is an error.  Writes are sent in    *)
(* order (OrderedWrites) and survive a restart.                            *)
(*                                                                         *)
(* The text fields of the log-in page are state: the curtains cover them   *)
(* while a log-in waits, yet the keyboard stays, nothing ends the editing, *)
(* and the callback reads the fields again.  With no log-in under way their *)
(* content is left out, as every attempt starts from any.                  *)
(*                                                                         *)
(* External: the server.  The matches that count wins are MultiplayerMatch *)
(* and no state here: a row of the leaderboard has any.                    *)
(***************************************************************************)
EXTENDS Integers, Sequences, FiniteSets

\* Answers to a getDocument that are not a password.
Pending == "pending"
Nobody == "nobody"         \* no document
Failed == "failed"         \* an error

CONSTANTS
    Devices, Names, Passwords,
    Players,            \* bound: the devices that also log in; the others register
    None,               \* no account, no password; as a name, the empty text
    MaxTries,           \* bound on the registrations tried
    MaxWins,            \* bound on the wins in a row of the leaderboard
    MaxLaunches         \* bound on the restarts of applications

ASSUME NamesAssumption == IsFiniteSet(Names)
ASSUME NoneAssumption == None \notin Names \cup Passwords
ASSUME AnswersAssumption == Passwords \cap {Pending, Nobody, Failed} = {}
ASSUME PlayersAssumption == Players \subseteq Devices
ASSUME BoundsAssumption == MaxTries \in Nat /\ MaxWins \in Nat /\ MaxLaunches \in Nat

VARIABLES
    accounts,           \* the password in each document, None without a document
    outbox,             \* device: its writes on their way
    seen,               \* device: the documents it has in its cache
    screen,             \* device: the page on top
    stored,             \* device: UserDefaults
    menu,               \* device: the topmost MainMenuVC
    fields,             \* device: the text fields of the log-in page
    attempt,            \* device: the log-in behind the curtains, at most one
    lookups,            \* device: the registrations that wait for their lookup
    board,              \* device: the rows of the leaderboard, and its request
    edited,             \* history: the fields changed during the last log-in
    compared,           \* history: whose password the last log-in compared
    tries,              \* history: registrations so far
    launches            \* history: restarts so far

pageVars == <<fields, attempt, lookups, board>>
historyVars == <<edited, compared, tries, launches>>
vars == <<accounts, outbox, seen, screen, stored, menu, pageVars, historyVars>>

NoSession == [signedIn |-> FALSE, name |-> None]
NoMenu == [signInCheck |-> FALSE, name |-> None, player |-> None]
NoFields == [name |-> None, password |-> None]
NoBoard == [asked |-> FALSE, rows |-> <<>>]

Init ==
    /\ accounts = [n \in Names |-> None]
    /\ outbox = [d \in Devices |-> <<>>]
    /\ seen = [d \in Devices |-> [n \in Names |-> None]]
    /\ screen = [d \in Devices |-> "login"]
    /\ stored = [d \in Devices |-> NoSession]
    /\ menu = [d \in Devices |-> NoMenu]
    /\ fields = [d \in Devices |-> NoFields]
    /\ attempt = [d \in Devices |-> {}] /\ lookups = [d \in Devices |-> {}]
    /\ board = [d \in Devices |-> NoBoard]
    /\ edited = [d \in Devices |-> FALSE] /\ compared = [d \in Devices |-> None]
    /\ tries = 0 /\ launches = 0

-----------------------------------------------------------------------------
(* Reading.                                                                *)

\* What device d sees of document n when the server or the cache has password.
Overlaid(d, n, password) ==
    LET own == {i \in 1..Len(outbox[d]) : outbox[d][i].name = n}
    IN IF own = {} THEN password
       ELSE outbox[d][CHOOSE i \in own : \A j \in own : j <= i].password

\* The answer about it: its password, or missing if there is no document.
Read(d, n, password, missing) ==
    IF Overlaid(d, n, password) = None THEN missing ELSE Overlaid(d, n, password)

\* A getDocument for n has its answer and its callback has yet to run: the
\* listener is removed only then.
Listening(d, n) ==
    \E k \in lookups[d] \cup attempt[d] :
        k.name = n /\ k.answer \notin {Pending, Failed}

Answer_CachedMiss(d, n) ==
    {Read(d, n, accounts[n], Nobody), Read(d, n, seen[d][n], Nobody)}

\* What getDocument may answer now: the document on the server, or offline the
\* cached one.  A document missing in the cache is an error, unless a listener
\* that is still there was told by the server that there is none.
Answer(d, n) ==
    {Read(d, n, accounts[n], Nobody),
     Read(d, n, seen[d][n], IF Listening(d, n) THEN Nobody ELSE Failed)}

\* Being read from the server brings a document into the cache.
Cached(d, n, answer) ==
    seen' = IF answer = Overlaid(d, n, accounts[n])
            THEN [seen EXCEPT ![d][n] = accounts[n]] ELSE seen

-----------------------------------------------------------------------------
(* The session.                                                            *)

\* A MainMenuVC made now reads the stored session once.
NewMenu(session) ==
    [signInCheck |-> session.signedIn, name |-> session.name, player |-> None]

\* The page after a MainMenuVC appeared: signedInCheck presents the log-in, and
\* the path of an empty stored name ends the application.
Shown(m) ==
    IF ~m.signInCheck THEN "login" ELSE IF m.name = None THEN "ended" ELSE "menu"

OpenMenu(d, session) ==
    /\ menu' = [menu EXCEPT ![d] = NewMenu(session)]
    /\ screen' = [screen EXCEPT ![d] = Shown(NewMenu(session))]

Covered_Never(d) == FALSE

\* The curtains are over the log-in page.
Covered(d) == attempt[d] # {}

\* logInAttempt: the curtains close and the account is looked up.
LogInAttempt(d, n, p) ==
    /\ d \in Players /\ screen[d] = "login" /\ ~Covered(d)
    /\ fields' = [fields EXCEPT ![d] = [name |-> n, password |-> p]]
    /\ attempt' = [attempt EXCEPT ![d] = @ \cup {[name |-> n, answer |-> Pending]}]
    /\ edited' = [edited EXCEPT ![d] = FALSE]
    /\ UNCHANGED <<accounts, outbox, seen, screen, stored, menu, lookups, board,
                   compared, tries, launches>>

\* The keyboard is still there.
TypeBehindCurtains(d, text) ==
    /\ attempt[d] # {} /\ text # fields[d]
    /\ fields' = [fields EXCEPT ![d] = text]
    /\ edited' = [edited EXCEPT ![d] = TRUE]
    /\ UNCHANGED <<accounts, outbox, seen, screen, stored, menu, attempt, lookups,
                   board, compared, tries, launches>>

LogInAnswered(d) ==
    \E a \in attempt[d] : \E answer \in Answer(d, a.name) :
        /\ a.answer = Pending
        /\ attempt' = [attempt EXCEPT ![d] = (@ \ {a}) \cup {[a EXCEPT !.answer = answer]}]
        /\ Cached(d, a.name, answer)
        /\ UNCHANGED <<accounts, outbox, screen, stored, menu, fields, lookups, board,
                       historyVars>>

StoreSession_Password(d) == [signedIn |-> TRUE, name |-> fields[d].password]

StoreSession_LogRemoved(d) == [signedIn |-> stored[d].signedIn, name |-> fields[d].name]

\* The name is that in the field now; the flag is set while a log line is made.
StoreSession(d) == [signedIn |-> TRUE, name |-> fields[d].name]

\* The password that was read against the one in the field now.
PasswordMatches(d, a) == a.answer = fields[d].password

\* The callback of logInAttempt: it opens the curtains, or stores the session
\* and presents a new menu.
LogInCallback(d) ==
    \E a \in attempt[d] :
        /\ a.answer # Pending
        /\ attempt' = [attempt EXCEPT ![d] = @ \ {a}]
        /\ IF PasswordMatches(d, a)
           THEN /\ stored' = [stored EXCEPT ![d] = StoreSession(d)]
                /\ OpenMenu(d, StoreSession(d))
                /\ compared' = [compared EXCEPT ![d] = a.name]
           ELSE UNCHANGED <<stored, menu, screen, compared>>
        /\ fields' = IF attempt[d] = {a} THEN [fields EXCEPT ![d] = NoFields] ELSE fields
        /\ UNCHANGED <<accounts, outbox, seen, lookups, board, edited, tries,
                       launches>>

\* The callback of loadUserDataFromFirebase, which viewDidAppear of the menu
\* calls; it may find another page on top.
LoadUserData(d) ==
    /\ menu[d].name # None /\ menu[d].player = None
    /\ \E answer \in Answer(d, menu[d].name) \ {Nobody, Failed} :
        /\ menu' = [menu EXCEPT ![d].player = menu[d].name]
        /\ Cached(d, menu[d].name, answer)
    /\ UNCHANGED <<accounts, outbox, screen, stored, pageVars, historyVars>>

SignedOut_Kept(d) == stored

SignedOut(d) == [stored EXCEPT ![d] = NoSession]

\* signOut presents a new log-in page on top of the menu.
SignOut(d) ==
    /\ screen[d] = "menu"
    /\ stored' = SignedOut(d)
    /\ screen' = [screen EXCEPT ![d] = "login"]
    /\ UNCHANGED <<accounts, outbox, seen, menu, pageVars, historyVars>>

\* The application ends and is started again: what is stored, the writes on
\* their way and the cache are kept.
Launch(d) ==
    /\ launches < MaxLaunches
    /\ launches' = launches + 1
    /\ OpenMenu(d, stored[d])
    /\ fields' = [fields EXCEPT ![d] = NoFields]
    /\ attempt' = [attempt EXCEPT ![d] = {}] /\ lookups' = [lookups EXCEPT ![d] = {}]
    /\ board' = [board EXCEPT ![d] = NoBoard]
    /\ UNCHANGED <<accounts, outbox, seen, stored, edited, compared, tries>>

-----------------------------------------------------------------------------
(* Registration.                                                           *)

\* screenTransitionRegister; the curtains are open.
SignUp(d) ==
    /\ screen[d] = "login" /\ ~Covered(d)
    /\ screen' = [screen EXCEPT ![d] = "register"]
    /\ UNCHANGED <<accounts, outbox, seen, stored, menu, pageVars, historyVars>>

\* Back, or OK in the success alert.
LeaveRegistration(d) ==
    /\ screen[d] = "register"
    /\ screen' = [screen EXCEPT ![d] = "login"]
    /\ UNCHANGED <<accounts, outbox, seen, stored, menu, pageVars, historyVars>>

\* registerAttempt and registerUser: nothing keeps the button from a second tap.
RegisterAttempt(d, n, p) ==
    /\ tries < MaxTries
    /\ screen[d] = "register"
    /\ tries' = tries + 1
    /\ lookups' = [lookups EXCEPT ![d] = @ \cup
            {[id |-> tries', name |-> n, password |-> p, answer |-> Pending]}]
    /\ UNCHANGED <<accounts, outbox, seen, screen, stored, menu, fields, attempt,
                   board, edited, compared, launches>>

LookupAnswered(d) ==
    \E l \in lookups[d] : \E answer \in Answer(d, l.name) :
        /\ l.answer = Pending
        /\ lookups' = [lookups EXCEPT ![d] =
                (@ \ {l}) \cup {[l EXCEPT !.answer = answer]}]
        /\ Cached(d, l.name, answer)
        /\ UNCHANGED <<accounts, outbox, screen, stored, menu, fields, attempt, board,
                       historyVars>>

\* error == nil and snapshot?.data() == nil
IsFree(answer) == answer = Nobody

\* The callback of registerUser, on whatever page the device is by then: a free
\* name is written whole, with no wins.
RegisterCallback(d) ==
    \E l \in lookups[d] :
        /\ l.answer # Pending
        /\ lookups' = [lookups EXCEPT ![d] = @ \ {l}]
        /\ outbox' = IF IsFree(l.answer)
                     THEN [outbox EXCEPT ![d] =
                            Append(@, [name |-> l.name, password |-> l.password])]
                     ELSE outbox
        /\ UNCHANGED <<accounts, seen, screen, stored, menu, fields, attempt, board,
                       historyVars>>

\* The server applies the oldest write of a device, and its cache has it.
Deliver(d) ==
    /\ outbox[d] # <<>>
    /\ LET w == Head(outbox[d])
       IN /\ accounts' = [accounts EXCEPT ![w.name] = w.password]
          /\ seen' = [seen EXCEPT ![d][w.name] = w.password]
    /\ outbox' = [outbox EXCEPT ![d] = Tail(@)]
    /\ UNCHANGED <<screen, stored, menu, pageVars, historyVars>>

-----------------------------------------------------------------------------
(* The leaderboard.                                                        *)

OpenedBoard_Reused(d) == [board[d] EXCEPT !.asked = TRUE]

\* Each leaderboardScreenTransition makes a LeaderboardVC of its own.
OpenedBoard(d) == [asked |-> TRUE, rows |-> <<>>]

\* Its viewDidLoad calls getUserData.
OpenLeaderboard(d) ==
    /\ screen[d] = "menu"
    /\ screen' = [screen EXCEPT ![d] = "board"]
    /\ board' = [board EXCEPT ![d] = OpenedBoard(d)]
    /\ UNCHANGED <<accounts, outbox, seen, stored, menu, fields, attempt, lookups,
                   historyVars>>

\* sorted(by:), which says nothing of the order of equal rows.
Descending(rows) ==
    \A i, j \in DOMAIN rows : i < j => rows[i].wins >= rows[j].wins

RowsOf(n, rows) == Cardinality({i \in DOMAIN rows : rows[i].name = n})

\* The callback of getUserData, also after the page was left: the accounts of
\* one moment on the server, or those in the cache, with whatever wins they had
\* there, are added to the rows, most wins first.
UserData(d) ==
    /\ board[d].asked
    /\ \E known \in {accounts, seen[d]} :
        LET old == board[d].rows
            found == {n \in Names : Overlaid(d, n, known[n]) # None}
        IN \E rows \in [1..(Len(old) + Cardinality(found)) ->
                            [name : Names, wins : 0..MaxWins]] :
            /\ \A n \in Names :
                RowsOf(n, rows) = RowsOf(n, old) + Cardinality(found \cap {n})
            /\ Descending(rows)
            /\ board' = [board EXCEPT ![d] = [asked |-> FALSE, rows |-> rows]]
    /\ UNCHANGED <<accounts, outbox, seen, screen, stored, menu, fields, attempt,
                   lookups, historyVars>>

\* returnToMainMenu: the menu appears again, the same object as before.
LeaveLeaderboard(d) ==
    /\ screen[d] = "board"
    /\ screen' = [screen EXCEPT ![d] = Shown(menu[d])]
    /\ UNCHANGED <<accounts, outbox, seen, stored, menu, pageVars, historyVars>>

Texts == [name : Names \cup {None}, password : Passwords \cup {None}]

Next ==
    \E d \in Devices :
        \/ \E n \in Names, p \in Passwords : LogInAttempt(d, n, p) \/ RegisterAttempt(d, n, p)
        \/ \E text \in Texts : TypeBehindCurtains(d, text)
        \/ LogInAnswered(d) \/ LogInCallback(d) \/ LoadUserData(d)
        \/ SignOut(d) \/ Launch(d)
        \/ SignUp(d) \/ LeaveRegistration(d)
        \/ LookupAnswered(d) \/ RegisterCallback(d) \/ Deliver(d)
        \/ OpenLeaderboard(d) \/ UserData(d) \/ LeaveLeaderboard(d)

Spec == Init /\ [][Next]_vars

-----------------------------------------------------------------------------
(* Properties.                                                             *)

Answers == Passwords \cup {Pending, Nobody, Failed}

TypeOK ==
    /\ accounts \in [Names -> Passwords \cup {None}]
    /\ outbox \in [Devices -> Seq([name : Names, password : Passwords])]
    /\ seen \in [Devices -> [Names -> Passwords \cup {None}]]
    /\ screen \in [Devices -> {"menu", "login", "register", "board", "ended"}]
    /\ stored \in [Devices -> [signedIn : BOOLEAN, name : Names \cup {None}]]
    /\ menu \in [Devices -> [signInCheck : BOOLEAN, name : Names \cup {None},
                             player : Names \cup {None}]]
    /\ fields \in [Devices -> Texts]
    /\ attempt \in [Devices -> SUBSET [name : Names, answer : Answers]]
    /\ lookups \in [Devices -> SUBSET [id : 1..MaxTries, name : Names,
                                       password : Passwords, answer : Answers]]
    /\ board \in [Devices -> [asked : BOOLEAN,
                              rows : Seq([name : Names, wins : 0..MaxWins])]]
    /\ edited \in [Devices -> BOOLEAN] /\ compared \in [Devices -> Names \cup {None}]
    /\ tries \in 0..MaxTries /\ launches \in 0..MaxLaunches

\* Device d has been told that n is free, or its account for n is on its way.
MayOverwrite(d, n) ==
    \/ \E k \in lookups[d] \cup attempt[d] : k.name = n /\ IsFree(k.answer)
    \/ \E i \in 1..Len(outbox[d]) : outbox[d][i].name = n

\* "User Already Exists": once an account exists, no device that was not told
\* before that the name is free can come to register it.  What can still
\* overwrite it, with its wins, are the devices that were.
ExistingNamesAreSafe ==
    [][\A d \in Devices, n \in Names :
        accounts[n] # None /\ ~MayOverwrite(d, n) => ~MayOverwrite(d, n)']_vars

\* A device that is signed in as a name other than the one whose password was
\* compared had its fields changed while the log-in waited, and only such a
\* device can have stored a name that is not one.
SessionsAreAuthentic ==
    \A d \in Devices :
        stored[d].signedIn /\ ~edited[d] =>
            stored[d].name # None /\ stored[d].name = compared[d]

\* The page that is open tells the truth about what is stored, over log-ins,
\* log-outs and restarts, though a menu reads it only once: the menu and what is
\* above it is there for the stored session and its player, the log-in page when
\* there is none.
PageIsOfTheSession ==
    \A d \in Devices :
        /\ screen[d] \in {"menu", "board"} =>
            /\ stored[d].signedIn /\ stored[d].name = menu[d].name
            /\ menu[d].player \in {None, stored[d].name}
        /\ screen[d] \in {"login", "register"} => stored[d] = NoSession

\* The leaderboard ranks by wins and has nobody twice, in particular not after
\* it was left and opened again.
BoardIsRanked ==
    \A d \in Devices :
        \A i, j \in DOMAIN board[d].rows :
            i < j => /\ board[d].rows[i].wins >= board[d].rows[j].wins
                     /\ board[d].rows[i].name # board[d].rows[j].name
=============================================================================
