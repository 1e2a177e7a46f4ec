--------------------------- MODULE AccountsProofs ---------------------------
(***************************************************************************)
(* Theorems about accounts, sessions and the leaderboard, for every set of *)
(* devices, names and passwords and any number of registrations and        *)
(* restarts.                                                               *)
(***************************************************************************)
EXTENDS Accounts, FiniteSetTheorems, SequenceTheorems, WellFoundedInduction, TLAPS

(* --------------------------- the invariant ----------------------------- *)

Running == {"menu", "board"}
Outside == {"login", "register"}

\* A log-in waits on the log-in page, alone, and for the name in the field
\* unless that was changed.
OneAttempt ==
    \A d \in Devices :
        /\ attempt[d] # {} => screen[d] = "login"
        /\ \A a, b \in attempt[d] : a = b
        /\ \A a \in attempt[d] : ~edited[d] => fields[d].name = a.name

\* A stored session is whole, and the pages above a menu need one that the menu
\* has read.
MenuOfSession ==
    \A d \in Devices :
        /\ ~stored[d].signedIn => stored[d] = NoSession
        /\ screen[d] \in Running =>
            menu[d].signInCheck /\ menu[d].name # None

\* A write of n by device d is on its way.
HasOwn(d, n) == \E i \in 1..Len(outbox[d]) : outbox[d][i].name = n

\* A password that was read is in the cache, or on its way from this device.
ReadIsKnown ==
    \A d \in Devices : \A k \in lookups[d] \cup attempt[d] :
        k.answer \in Passwords =>
            HasOwn(d, k.name) \/ seen[d][k.name] # None

\* What was seen is there.
SeenExists ==
    \A d \in Devices, n \in Names : seen[d][n] # None => accounts[n] # None

\* A leaderboard that waits for its players has no rows.
AskedIsEmpty == \A d \in Devices : board[d].asked => board[d].rows = <<>>

SessionInv == OneAttempt /\ MenuOfSession /\ SessionsAreAuthentic /\ PageIsOfTheSession

KnownInv == ReadIsKnown /\ SeenExists

BoardInv == AskedIsEmpty /\ BoardIsRanked

(* ------------------------- the writes on their way --------------------- *)

LEMMA Least ==
    ASSUME NEW T \in SUBSET Nat, T # {}
    PROVE  \E x \in T : \A y \in T : x <= y
<1> DEFINE R == OpToRel(<, Nat)
<1>1. IsWellFoundedOn(R, Nat)
    BY NatLessThanWellFounded
<1>2. \A x, y \in Nat : y < x => <<y, x>> \in R
    BY DEF OpToRel
<1> HIDE DEF R
<1>3. \E x \in T : \A y \in T : ~ (<<y, x>> \in R)
    <2>1. T \subseteq Nat
        OBVIOUS
    <2>q. QED BY <1>1, <2>1, WFMin, Zenon
<1>4. \E x \in T : \A y \in T : ~ (y < x)
    BY <1>2, <1>3, Zenon
<1>5. \A x, y \in T : ~ (y < x) => x <= y
    BY SMT
<1>q. QED BY <1>4, <1>5, Zenon

LEMMA Greatest ==
    ASSUME NEW n \in Nat, NEW T \in SUBSET (1..n), T # {}
    PROVE  \E x \in T : \A y \in T : y <= x
<1> DEFINE Mirrored == {k \in Nat : n - k \in T}
<1>1. Mirrored \in SUBSET Nat
    OBVIOUS
<1>2. Mirrored # {}
    <2>1. PICK t \in T : TRUE
        OBVIOUS
    <2>2. n - t \in Nat /\ n - (n - t) = t
        OBVIOUS
    <2>q. QED BY <2>1, <2>2
<1>3. PICK k \in Mirrored : \A j \in Mirrored : k <= j
    <2> HIDE DEF Mirrored
    <2>1. \E k \in Mirrored : \A j \in Mirrored : k <= j
        BY <1>1, <1>2, Least, Zenon
    <2>q. QED BY <2>1
<1>4. n - k \in T
    BY <1>3
<1>5. ASSUME NEW y \in T PROVE y <= n - k
    <2>1. n - y \in Nat /\ n - (n - y) = y
        OBVIOUS
    <2>2. n - y \in Mirrored
        BY <2>1
    <2>3. k <= n - y /\ k \in Nat /\ y \in Nat
        BY <1>3, <2>2
    <2>q. QED BY <2>3
<1>q. QED BY <1>4, <1>5

LEMMA Element ==
    ASSUME NEW S, NEW s \in Seq(S), NEW i \in 1..Len(s)
    PROVE  s[i] \in S
OBVIOUS

\* A device sees its newest own write of a document, or what is below.
LEMMA OverlaidIs ==
    ASSUME TypeOK, NEW d \in Devices, NEW n \in Names, NEW password
    PROVE  /\ HasOwn(d, n) => Overlaid(d, n, password) \in Passwords
           /\ ~HasOwn(d, n) => Overlaid(d, n, password) = password
<1> DEFINE own == {i \in 1..Len(outbox[d]) : outbox[d][i].name = n}
           last == CHOOSE i \in own : \A j \in own : j <= i
<1>1. outbox[d] \in Seq([name : Names, password : Passwords])
    BY DEF TypeOK
<1>2. own = {} <=> ~HasOwn(d, n)
    BY DEF HasOwn
<1>3. ASSUME own # {} PROVE outbox[d][last].password \in Passwords
    <2>1. own \in SUBSET (1..Len(outbox[d])) /\ Len(outbox[d]) \in Nat
        BY <1>1
    <2> HIDE DEF own
    <2>2. \E i \in own : \A j \in own : j <= i
        BY <2>1, <1>3, Greatest, Zenon
    <2>3. last \in own
        BY <2>2, Zenon
    <2>4. last \in 1..Len(outbox[d])
        BY <2>1, <2>3
    <2> HIDE DEF last
    <2>5. outbox[d][last] \in [name : Names, password : Passwords]
        BY <2>4, <1>1, Element
    <2>q. QED BY <2>5
<1>4. Overlaid(d, n, password) =
        IF own = {} THEN password ELSE outbox[d][last].password
    BY DEF Overlaid
<1> HIDE DEF own, last
<1>q. QED BY <1>2, <1>3, <1>4

LEMMA AnswerIs ==
    ASSUME TypeOK, NEW d \in Devices, NEW n \in Names, NEW answer \in Answer(d, n)
    PROVE  answer \in Passwords \cup {Nobody, Failed}
<1>1. accounts[n] \in Passwords \cup {None} /\ seen[d][n] \in Passwords \cup {None}
    BY DEF TypeOK
<1>2. \A password \in Passwords \cup {None} :
        Overlaid(d, n, password) \in Passwords \cup {None}
    BY OverlaidIs
<1>q. QED BY <1>1, <1>2 DEF Answer, Read

(* ------------------------------- types --------------------------------- *)

LEMMA TypeInit == Init => TypeOK
<1> SUFFICES ASSUME Init PROVE TypeOK
    OBVIOUS
<1>1. <<>> \in Seq([name : Names, password : Passwords])
        /\ <<>> \in Seq([name : Names, wins : 0..MaxWins])
    OBVIOUS
<1>q. QED BY <1>1, BoundsAssumption
    DEF Init, TypeOK, NoSession, NoMenu, NoFields, NoBoard, Texts

LEMMA CachedType ==
    ASSUME TypeOK, NEW d \in Devices, NEW n \in Names, NEW answer, Cached(d, n, answer)
    PROVE  seen' \in [Devices -> [Names -> Passwords \cup {None}]]
BY DEF TypeOK, Cached

LEMMA OpenMenuType ==
    ASSUME TypeOK, NEW d \in Devices,
           NEW session \in [signedIn : BOOLEAN, name : Names \cup {None}],
           OpenMenu(d, session)
    PROVE  /\ menu' \in [Devices -> [signInCheck : BOOLEAN, name : Names \cup {None},
                                     player : Names \cup {None}]]
           /\ screen' \in [Devices -> {"menu", "login", "register", "board", "ended"}]
<1>1. NewMenu(session) \in [signInCheck : BOOLEAN, name : Names \cup {None},
                            player : Names \cup {None}]
    BY DEF NewMenu
<1>2. Shown(NewMenu(session)) \in {"menu", "login", "register", "board", "ended"}
    BY DEF Shown
<1>q. QED BY <1>1, <1>2 DEF TypeOK, OpenMenu

\* The rows a leaderboard may get are a sequence of rows.
LEMMA RowsType ==
    ASSUME NEW old \in Seq([name : Names, wins : 0..MaxWins]), NEW found \in SUBSET Names,
           NEW rows \in [1..(Len(old) + Cardinality(found)) ->
                            [name : Names, wins : 0..MaxWins]]
    PROVE  /\ rows \in Seq([name : Names, wins : 0..MaxWins])
           /\ DOMAIN rows = 1..(Len(old) + Cardinality(found))
           /\ Len(old) + Cardinality(found) \in Nat
<1>1. Cardinality(found) \in Nat
    BY NamesAssumption, FS_Subset, FS_CardinalityType
<1>2. Len(old) + Cardinality(found) \in Nat
    BY <1>1
<1> DEFINE n == Len(old) + Cardinality(found)
           Row == [name : Names, wins : 0..MaxWins]
<1> HIDE DEF n, Row
<1>3. ASSUME n \in Nat, NEW r \in [1..n -> Row]
      PROVE  r \in Seq(Row) /\ DOMAIN r = 1..n
    BY <1>3
<1>q. QED BY <1>2, <1>3 DEF n, Row

LEMMA LogInAttemptTypes ==
    ASSUME TypeOK, NEW d \in Devices, NEW n \in Names, NEW p \in Passwords,
           LogInAttempt(d, n, p)
    PROVE  TypeOK'
<1>1. fields' \in [Devices -> Texts]
    BY DEF TypeOK, LogInAttempt, Texts
<1>2. [name |-> n, answer |-> Pending] \in [name : Names, answer : Answers]
    BY DEF Answers
<1>3. attempt' \in [Devices -> SUBSET [name : Names, answer : Answers]]
    BY <1>2 DEF TypeOK, LogInAttempt
<1>4. edited' \in [Devices -> BOOLEAN]
    BY DEF TypeOK, LogInAttempt
<1>q. QED BY <1>1, <1>3, <1>4 DEF TypeOK, LogInAttempt

LEMMA RegisterAttemptTypes ==
    ASSUME TypeOK, NEW d \in Devices, NEW n \in Names, NEW p \in Passwords,
           RegisterAttempt(d, n, p)
    PROVE  TypeOK'
<1> DEFINE Lookups == [id : 1..MaxTries, name : Names, password : Passwords,
                       answer : Answers]
<1>1. tries' \in 1..MaxTries
    BY BoundsAssumption DEF TypeOK, RegisterAttempt
<1>2. [id |-> tries', name |-> n, password |-> p, answer |-> Pending] \in Lookups
    BY <1>1 DEF Answers
<1>3. lookups' \in [Devices -> SUBSET Lookups]
    <2> HIDE DEF Lookups
    <2> DEFINE new == [id |-> tries', name |-> n, password |-> p, answer |-> Pending]
    <2>1. lookups \in [Devices -> SUBSET Lookups]
        BY DEF TypeOK, Lookups
    <2>2. lookups' = [lookups EXCEPT ![d] = @ \cup {new}]
        BY DEF RegisterAttempt
    <2>3. new \in Lookups
        BY <1>2
    <2> HIDE DEF new
    <2>4. lookups[d] \cup {new} \in SUBSET Lookups
        BY <2>1, <2>3, Zenon
    <2>q. QED BY <2>1, <2>2, <2>4
<1>4. tries' \in 0..MaxTries
    BY <1>1, BoundsAssumption
<1> HIDE DEF Lookups
<1>5. lookups' \in [Devices -> SUBSET [id : 1..MaxTries, name : Names,
                                      password : Passwords, answer : Answers]]
    BY <1>3, Zenon DEF Lookups
<1>q. QED BY <1>4, <1>5 DEF TypeOK, RegisterAttempt

LEMMA TypeBehindCurtainsTypes ==
    ASSUME TypeOK, NEW d \in Devices, NEW text \in Texts, TypeBehindCurtains(d, text)
    PROVE  TypeOK'
BY DEF TypeOK, TypeBehindCurtains

LEMMA LogInAnsweredTypes ==
    ASSUME TypeOK, NEW d \in Devices, LogInAnswered(d)
    PROVE  TypeOK'
<1>1. PICK a \in attempt[d] : \E answer \in Answer(d, a.name) :
        /\ attempt' = [attempt EXCEPT ![d] = (@ \ {a}) \cup {[a EXCEPT !.answer = answer]}]
        /\ Cached(d, a.name, answer)
    BY DEF LogInAnswered
<1>2. a \in [name : Names, answer : Answers]
    BY DEF TypeOK
<1>3. PICK answer \in Answer(d, a.name) :
        /\ attempt' = [attempt EXCEPT ![d] = (@ \ {a}) \cup {[a EXCEPT !.answer = answer]}]
        /\ Cached(d, a.name, answer)
    BY <1>1
<1>4. answer \in Answers
    BY <1>2, AnswerIs DEF Answers
<1>5. [a EXCEPT !.answer = answer] \in [name : Names, answer : Answers]
    BY <1>2, <1>4
<1>6. attempt' \in [Devices -> SUBSET [name : Names, answer : Answers]]
    BY <1>3, <1>5 DEF TypeOK
<1>7. seen' \in [Devices -> [Names -> Passwords \cup {None}]]
    BY <1>2, <1>3, CachedType
<1>q. QED BY <1>6, <1>7 DEF TypeOK, LogInAnswered, historyVars

LEMMA LookupAnsweredTypes ==
    ASSUME TypeOK, NEW d \in Devices, LookupAnswered(d)
    PROVE  TypeOK'
<1> DEFINE Lookups == [id : 1..MaxTries, name : Names, password : Passwords,
                       answer : Answers]
<1>1. PICK l \in lookups[d] : \E answer \in Answer(d, l.name) :
        /\ lookups' = [lookups EXCEPT ![d] = (@ \ {l}) \cup {[l EXCEPT !.answer = answer]}]
        /\ Cached(d, l.name, answer)
    BY DEF LookupAnswered
<1>2. l \in Lookups
    BY DEF TypeOK
<1>3. PICK answer \in Answer(d, l.name) :
        /\ lookups' = [lookups EXCEPT ![d] = (@ \ {l}) \cup {[l EXCEPT !.answer = answer]}]
        /\ Cached(d, l.name, answer)
    BY <1>1
<1>4. answer \in Answers
    BY <1>2, AnswerIs DEF Answers
<1>5. [l EXCEPT !.answer = answer] \in Lookups
    BY <1>2, <1>4
<1>6. lookups' \in [Devices -> SUBSET Lookups]
    <2> HIDE DEF Lookups
    <2>1. lookups \in [Devices -> SUBSET Lookups]
        BY DEF TypeOK, Lookups
    <2>q. QED BY <1>3, <1>5, <2>1
<1>7. seen' \in [Devices -> [Names -> Passwords \cup {None}]]
    BY <1>2, <1>3, CachedType
<1>q. QED BY <1>6, <1>7 DEF TypeOK, LookupAnswered, historyVars

LEMMA LogInCallbackTypes ==
    ASSUME TypeOK, NEW d \in Devices, LogInCallback(d)
    PROVE  TypeOK'
<1>1. PICK a \in attempt[d] :
        /\ attempt' = [attempt EXCEPT ![d] = @ \ {a}]
        /\ IF PasswordMatches(d, a)
           THEN /\ stored' = [stored EXCEPT ![d] = StoreSession(d)]
                /\ OpenMenu(d, StoreSession(d))
                /\ compared' = [compared EXCEPT ![d] = a.name]
           ELSE UNCHANGED <<stored, menu, screen, compared>>
        /\ fields' = IF attempt[d] = {a} THEN [fields EXCEPT ![d] = NoFields] ELSE fields
        /\ UNCHANGED <<accounts, outbox, seen, lookups, board, edited, tries, launches>>
    BY DEF LogInCallback
<1>2. StoreSession(d) \in [signedIn : BOOLEAN, name : Names \cup {None}]
    BY DEF TypeOK, StoreSession, Texts
<1>3. a.name \in Names
    BY DEF TypeOK
<1>4. fields' \in [Devices -> Texts]
    BY <1>1 DEF TypeOK, Texts, NoFields
<1>5. attempt' \in [Devices -> SUBSET [name : Names, answer : Answers]]
    BY <1>1 DEF TypeOK
<1>6. CASE PasswordMatches(d, a)
    <2>1. stored' \in [Devices -> [signedIn : BOOLEAN, name : Names \cup {None}]]
        BY <1>1, <1>2, <1>6 DEF TypeOK
    <2>2. compared' \in [Devices -> Names \cup {None}]
        BY <1>1, <1>3, <1>6 DEF TypeOK
    <2>3. OpenMenu(d, StoreSession(d))
        BY <1>1, <1>6
    <2>q. QED BY <1>1, <1>2, <1>4, <1>5, <2>1, <2>2, <2>3, OpenMenuType DEF TypeOK
<1>7. CASE ~PasswordMatches(d, a)
    BY <1>1, <1>4, <1>5, <1>7 DEF TypeOK
<1>q. QED BY <1>6, <1>7

LEMMA LoadUserDataTypes ==
    ASSUME TypeOK, NEW d \in Devices, LoadUserData(d)
    PROVE  TypeOK'
<1>1. menu[d].name \in Names
    BY DEF TypeOK, LoadUserData
<1>2. seen' \in [Devices -> [Names -> Passwords \cup {None}]]
    BY <1>1, CachedType DEF LoadUserData
<1>3. menu' \in [Devices -> [signInCheck : BOOLEAN, name : Names \cup {None},
                             player : Names \cup {None}]]
    <2> DEFINE Menus == [signInCheck : BOOLEAN, name : Names \cup {None},
                         player : Names \cup {None}]
               loaded == [menu[d] EXCEPT !.player = menu[d].name]
    <2>1. menu \in [Devices -> Menus]
        BY DEF TypeOK
    <2>2. loaded \in Menus
        BY <1>1, <2>1
    <2>3. menu' = [menu EXCEPT ![d] = loaded]
        BY DEF LoadUserData
    <2> HIDE DEF Menus, loaded
    <2>4. menu' \in [Devices -> Menus]
        BY <2>1, <2>2, <2>3
    <2>q. QED BY <2>4 DEF Menus
<1>q. QED BY <1>2, <1>3 DEF TypeOK, LoadUserData, pageVars, historyVars

LEMMA LaunchTypes ==
    ASSUME TypeOK, NEW d \in Devices, Launch(d)
    PROVE  TypeOK'
<1>1. stored[d] \in [signedIn : BOOLEAN, name : Names \cup {None}]
    BY DEF TypeOK
<1>2. launches' \in 0..MaxLaunches
    BY BoundsAssumption DEF TypeOK, Launch
<1>3. fields' \in [Devices -> Texts]
    BY DEF TypeOK, Launch, Texts, NoFields
<1>4. <<>> \in Seq([name : Names, wins : 0..MaxWins])
    OBVIOUS
<1>5. board' \in [Devices -> [asked : BOOLEAN, rows : Seq([name : Names, wins : 0..MaxWins])]]
    BY <1>4 DEF TypeOK, Launch, NoBoard
<1>6. OpenMenu(d, stored[d])
    BY DEF Launch
<1>q. QED BY <1>1, <1>2, <1>3, <1>5, <1>6, OpenMenuType DEF TypeOK, Launch

LEMMA PagesTypes ==
    ASSUME TypeOK, NEW d \in Devices,
           \/ SignOut(d) \/ SignUp(d) \/ LeaveRegistration(d) \/ LeaveLeaderboard(d)
    PROVE  TypeOK'
<1>1. CASE SignOut(d)
    BY <1>1 DEF TypeOK, SignOut, SignedOut, NoSession, pageVars, historyVars
<1>2. CASE SignUp(d)
    BY <1>2 DEF TypeOK, SignUp, pageVars, historyVars
<1>3. CASE LeaveRegistration(d)
    BY <1>3 DEF TypeOK, LeaveRegistration, pageVars, historyVars
<1>4. CASE LeaveLeaderboard(d)
    BY <1>4 DEF TypeOK, LeaveLeaderboard, Shown, pageVars, historyVars
<1>q. QED BY <1>1, <1>2, <1>3, <1>4

LEMMA RegisterCallbackTypes ==
    ASSUME TypeOK, NEW d \in Devices, RegisterCallback(d)
    PROVE  TypeOK'
<1> DEFINE Own == [name : Names, password : Passwords]
<1>1. PICK l \in lookups[d] :
        /\ lookups' = [lookups EXCEPT ![d] = @ \ {l}]
        /\ outbox' = IF IsFree(l.answer)
                     THEN [outbox EXCEPT ![d] =
                            Append(@, [name |-> l.name, password |-> l.password])]
                     ELSE outbox
    BY DEF RegisterCallback
<1>2. [name |-> l.name, password |-> l.password] \in Own
    BY DEF TypeOK
<1>3. outbox' \in [Devices -> Seq(Own)]
    <2>1. outbox \in [Devices -> Seq(Own)]
        BY DEF TypeOK
    <2> HIDE DEF Own
    <2>2. Append(outbox[d], [name |-> l.name, password |-> l.password]) \in Seq(Own)
        BY <1>2, <2>1, AppendProperties
    <2>q. QED BY <1>1, <2>1, <2>2
<1>4. lookups' \in [Devices -> SUBSET [id : 1..MaxTries, name : Names,
                                      password : Passwords, answer : Answers]]
    BY <1>1 DEF TypeOK
<1>q. QED BY <1>3, <1>4 DEF TypeOK, RegisterCallback, historyVars

LEMMA DeliverTypes ==
    ASSUME TypeOK, NEW d \in Devices, Deliver(d)
    PROVE  TypeOK'
<1> DEFINE Own == [name : Names, password : Passwords]
<1>1. outbox[d] \in Seq(Own) /\ outbox[d] # <<>>
    BY DEF TypeOK, Deliver
<1>2. Head(outbox[d]) \in Own /\ Tail(outbox[d]) \in Seq(Own)
    <2> HIDE DEF Own
    <2>q. QED BY <1>1, HeadTailProperties
<1>3. outbox' \in [Devices -> Seq(Own)]
    <2>1. outbox \in [Devices -> Seq(Own)]
        BY DEF TypeOK
    <2> HIDE DEF Own
    <2>q. QED BY <1>2, <2>1 DEF Deliver
<1>4. /\ accounts' \in [Names -> Passwords \cup {None}]
      /\ seen' \in [Devices -> [Names -> Passwords \cup {None}]]
    BY <1>2 DEF TypeOK, Deliver
<1>q. QED BY <1>3, <1>4 DEF TypeOK, Deliver, pageVars, historyVars

LEMMA OpenLeaderboardTypes ==
    ASSUME TypeOK, NEW d \in Devices, OpenLeaderboard(d)
    PROVE  TypeOK'
<1>1. <<>> \in Seq([name : Names, wins : 0..MaxWins])
    OBVIOUS
<1>q. QED BY <1>1 DEF TypeOK, OpenLeaderboard, OpenedBoard, historyVars

\* The rows after a callback of getUserData.
LEMMA UserDataRows ==
    ASSUME TypeOK, NEW d \in Devices, UserData(d)
    PROVE  \E found \in SUBSET Names :
             \E rows \in [1..(Len(board[d].rows) + Cardinality(found)) ->
                            [name : Names, wins : 0..MaxWins]] :
                /\ \A n \in Names :
                    RowsOf(n, rows) = RowsOf(n, board[d].rows) + Cardinality(found \cap {n})
                /\ Descending(rows)
                /\ board' = [board EXCEPT ![d] = [asked |-> FALSE, rows |-> rows]]
<1>1. PICK known \in {accounts, seen[d]} :
        \E rows \in [1..(Len(board[d].rows)
                            + Cardinality({n \in Names : Overlaid(d, n, known[n]) # None})) ->
                        [name : Names, wins : 0..MaxWins]] :
            /\ \A n \in Names :
                RowsOf(n, rows) = RowsOf(n, board[d].rows)
                    + Cardinality({m \in Names : Overlaid(d, m, known[m]) # None} \cap {n})
            /\ Descending(rows)
            /\ board' = [board EXCEPT ![d] = [asked |-> FALSE, rows |-> rows]]
    BY DEF UserData
<1>2. {n \in Names : Overlaid(d, n, known[n]) # None} \in SUBSET Names
    OBVIOUS
<1>q. QED BY <1>1, <1>2

LEMMA UserDataTypes ==
    ASSUME TypeOK, NEW d \in Devices, UserData(d)
    PROVE  TypeOK'
<1> DEFINE Row == [name : Names, wins : 0..MaxWins]
<1>1. board[d].rows \in Seq(Row)
    BY DEF TypeOK
<1>2. PICK found \in SUBSET Names :
        \E rows \in [1..(Len(board[d].rows) + Cardinality(found)) -> Row] :
            board' = [board EXCEPT ![d] = [asked |-> FALSE, rows |-> rows]]
    BY UserDataRows
<1>3. PICK rows \in [1..(Len(board[d].rows) + Cardinality(found)) -> Row] :
        board' = [board EXCEPT ![d] = [asked |-> FALSE, rows |-> rows]]
    BY <1>2
<1>4. rows \in Seq(Row)
    BY <1>1, RowsType
<1>5. board' \in [Devices -> [asked : BOOLEAN, rows : Seq(Row)]]
    BY <1>3, <1>4 DEF TypeOK
<1>q. QED BY <1>5 DEF TypeOK, UserData, historyVars

LEMMA TypeStep == TypeOK /\ [Next]_vars => TypeOK'
<1> SUFFICES ASSUME TypeOK, [Next]_vars PROVE TypeOK'
    OBVIOUS
<1>1. CASE UNCHANGED vars
    BY <1>1 DEF vars, pageVars, historyVars, TypeOK
<1>2. CASE Next
    BY <1>2, LogInAttemptTypes, RegisterAttemptTypes, TypeBehindCurtainsTypes,
       LogInAnsweredTypes, LogInCallbackTypes, LoadUserDataTypes, LaunchTypes, PagesTypes,
       LookupAnsweredTypes, RegisterCallbackTypes, DeliverTypes, OpenLeaderboardTypes,
       UserDataTypes DEF Next
<1>q. QED BY <1>1, <1>2

\* The accounts, sessions, pages and rows keep their types.
THEOREM AccountsTypeCorrect == Spec => []TypeOK
BY TypeInit, TypeStep, PTL DEF Spec

(* ------------------------------ sessions ------------------------------- *)

\* What the session part is about.
sessionVars == <<screen, stored, menu, fields, attempt, edited, compared>>

LEMMA SessionInit == Init => SessionInv
BY DEF Init, SessionInv, OneAttempt, MenuOfSession, SessionsAreAuthentic,
       PageIsOfTheSession, NoSession, NoMenu, Running, Outside

LEMMA SessionUntouched ==
    ASSUME SessionInv, UNCHANGED sessionVars
    PROVE  SessionInv'
BY DEF SessionInv, sessionVars, OneAttempt, MenuOfSession, SessionsAreAuthentic,
       PageIsOfTheSession

LEMMA LogInAttemptSession ==
    ASSUME TypeOK, SessionInv, NEW d \in Devices, NEW n \in Names, NEW p \in Passwords,
           LogInAttempt(d, n, p)
    PROVE  SessionInv'
<1>1. /\ screen[d] = "login" /\ attempt[d] = {}
      /\ fields' = [fields EXCEPT ![d] = [name |-> n, password |-> p]]
      /\ attempt' = [attempt EXCEPT ![d] = @ \cup {[name |-> n, answer |-> Pending]}]
      /\ edited' = [edited EXCEPT ![d] = FALSE]
      /\ UNCHANGED <<screen, stored, menu, compared>>
    BY DEF LogInAttempt, Covered
<1>2. attempt'[d] = {[name |-> n, answer |-> Pending]} /\ fields'[d].name = n
    BY <1>1 DEF TypeOK
<1>3. \A e \in Devices : e # d =>
        attempt'[e] = attempt[e] /\ fields'[e] = fields[e] /\ edited'[e] = edited[e]
    BY <1>1 DEF TypeOK
<1>4. OneAttempt'
    BY <1>1, <1>2, <1>3 DEF SessionInv, OneAttempt
<1>5. ~stored[d].signedIn
    BY <1>1 DEF SessionInv, PageIsOfTheSession, NoSession
<1>6. SessionsAreAuthentic'
    BY <1>1, <1>3, <1>5 DEF SessionInv, SessionsAreAuthentic
<1>7. MenuOfSession' /\ PageIsOfTheSession'
    BY <1>1 DEF SessionInv, MenuOfSession, PageIsOfTheSession
<1>q. QED BY <1>4, <1>6, <1>7 DEF SessionInv

LEMMA TypeBehindCurtainsSession ==
    ASSUME TypeOK, SessionInv, NEW d \in Devices, NEW text \in Texts,
           TypeBehindCurtains(d, text)
    PROVE  SessionInv'
<1>1. /\ fields' = [fields EXCEPT ![d] = text]
      /\ edited' = [edited EXCEPT ![d] = TRUE]
      /\ UNCHANGED <<attempt, screen, stored, menu, compared>>
    BY DEF TypeBehindCurtains
<1>2. edited'[d] /\ \A e \in Devices : e # d =>
        fields'[e] = fields[e] /\ edited'[e] = edited[e]
    BY <1>1 DEF TypeOK
<1>3. OneAttempt'
    BY <1>1, <1>2 DEF SessionInv, OneAttempt
<1>4. SessionsAreAuthentic'
    BY <1>1, <1>2 DEF SessionInv, SessionsAreAuthentic
<1>5. MenuOfSession' /\ PageIsOfTheSession'
    BY <1>1 DEF SessionInv, MenuOfSession, PageIsOfTheSession
<1>q. QED BY <1>3, <1>4, <1>5 DEF SessionInv

LEMMA LogInAnsweredSession ==
    ASSUME TypeOK, SessionInv, NEW d \in Devices, LogInAnswered(d)
    PROVE  SessionInv'
<1>1. PICK a \in attempt[d] : \E answer \in Answer(d, a.name) :
        attempt' = [attempt EXCEPT ![d] = (@ \ {a}) \cup {[a EXCEPT !.answer = answer]}]
    BY DEF LogInAnswered
<1>2. PICK answer :
        attempt' = [attempt EXCEPT ![d] = (@ \ {a}) \cup {[a EXCEPT !.answer = answer]}]
    BY <1>1
<1>3. attempt[d] = {a}
    BY DEF SessionInv, OneAttempt
<1>4. attempt'[d] = {[a EXCEPT !.answer = answer]}
    BY <1>2, <1>3 DEF TypeOK
<1>5. [a EXCEPT !.answer = answer].name = a.name
    BY DEF TypeOK
<1>6. \A e \in Devices : e # d => attempt'[e] = attempt[e]
    BY <1>2 DEF TypeOK
<1>7. UNCHANGED <<screen, stored, menu, fields, edited, compared>>
    BY DEF LogInAnswered, historyVars
<1>8. OneAttempt'
    <2> DEFINE answered == [a EXCEPT !.answer = answer]
    <2>1. attempt'[d] = {answered} /\ answered.name = a.name
        BY <1>4, <1>5
    <2> HIDE DEF answered
    <2>2. /\ attempt[d] # {} /\ screen[d] = "login"
          /\ ~edited[d] => fields[d].name = a.name
        BY <1>3 DEF SessionInv, OneAttempt
    <2>3. ASSUME NEW e \in Devices
          PROVE  /\ attempt'[e] # {} => screen[e] = "login"
                 /\ \A b, c \in attempt'[e] : b = c
                 /\ \A b \in attempt'[e] : ~edited[e] => fields[e].name = b.name
        <3>1. CASE e = d
            BY <2>1, <2>2, <3>1
        <3>2. CASE e # d
            BY <1>6, <3>2 DEF SessionInv, OneAttempt
        <3>q. QED BY <3>1, <3>2
    <2>q. QED BY <1>7, <2>3 DEF OneAttempt
<1>9. MenuOfSession' /\ PageIsOfTheSession' /\ SessionsAreAuthentic'
    BY <1>7 DEF SessionInv, MenuOfSession, PageIsOfTheSession, SessionsAreAuthentic
<1>q. QED BY <1>8, <1>9 DEF SessionInv

\* A menu that is made for a session shows the page of that session.
LEMMA OpenMenuSession ==
    ASSUME TypeOK, SessionInv, NEW d \in Devices,
           NEW session \in [signedIn : BOOLEAN, name : Names \cup {None}],
           ~session.signedIn => session = NoSession,
           OpenMenu(d, session), stored' = [stored EXCEPT ![d] = session]
    PROVE  MenuOfSession' /\ PageIsOfTheSession'
<1>1. /\ stored'[d] = session
      /\ menu'[d] = NewMenu(session) /\ screen'[d] = Shown(NewMenu(session))
    BY DEF OpenMenu, TypeOK
<1>2. \A e \in Devices : e # d =>
        stored'[e] = stored[e] /\ menu'[e] = menu[e] /\ screen'[e] = screen[e]
    BY DEF OpenMenu, TypeOK
<1>3. /\ NewMenu(session).signInCheck = session.signedIn
      /\ NewMenu(session).name = session.name
      /\ NewMenu(session).player = None
    BY DEF NewMenu
<1>4. /\ ~session.signedIn => Shown(NewMenu(session)) = "login"
      /\ session.signedIn /\ session.name = None => Shown(NewMenu(session)) = "ended"
      /\ session.signedIn /\ session.name # None => Shown(NewMenu(session)) = "menu"
    BY <1>3 DEF Shown
<1>5. MenuOfSession'
    BY <1>1, <1>2, <1>3, <1>4 DEF SessionInv, MenuOfSession, Running
<1>6. PageIsOfTheSession'
    BY <1>1, <1>2, <1>3, <1>4 DEF SessionInv, PageIsOfTheSession
<1>q. QED BY <1>5, <1>6

LEMMA LogInCallbackSession ==
    ASSUME TypeOK, SessionInv, NEW d \in Devices, LogInCallback(d)
    PROVE  SessionInv'
<1>1. PICK a \in attempt[d] :
        /\ attempt' = [attempt EXCEPT ![d] = @ \ {a}]
        /\ IF PasswordMatches(d, a)
           THEN /\ stored' = [stored EXCEPT ![d] = StoreSession(d)]
                /\ OpenMenu(d, StoreSession(d))
                /\ compared' = [compared EXCEPT ![d] = a.name]
           ELSE UNCHANGED <<stored, menu, screen, compared>>
        /\ fields' = IF attempt[d] = {a} THEN [fields EXCEPT ![d] = NoFields] ELSE fields
        /\ UNCHANGED edited
    BY DEF LogInCallback
<1>2. attempt[d] = {a} /\ (~edited[d] => fields[d].name = a.name)
    BY DEF SessionInv, OneAttempt
<1>3. attempt'[d] = {} /\ \A e \in Devices : e # d =>
        attempt'[e] = attempt[e] /\ fields'[e] = fields[e]
    BY <1>1, <1>2 DEF TypeOK
<1>4. \A e \in Devices : e # d => screen'[e] = screen[e]
    BY <1>1 DEF OpenMenu, TypeOK
<1>5. OneAttempt'
    BY <1>1, <1>3, <1>4 DEF SessionInv, OneAttempt
<1>6. a.name \in Names
    BY DEF TypeOK
<1>7. StoreSession(d) \in [signedIn : BOOLEAN, name : Names \cup {None}]
    BY DEF TypeOK, StoreSession, Texts
<1>8. StoreSession(d).signedIn /\ StoreSession(d).name = fields[d].name
    BY DEF StoreSession
<1>9. CASE PasswordMatches(d, a)
    <2>1. MenuOfSession' /\ PageIsOfTheSession'
        BY <1>1, <1>7, <1>8, <1>9, OpenMenuSession
    <2>2. stored'[d] = StoreSession(d) /\ compared'[d] = a.name
        BY <1>1, <1>9 DEF TypeOK
    <2>3. \A e \in Devices : e # d =>
            stored'[e] = stored[e] /\ compared'[e] = compared[e]
        BY <1>1, <1>9 DEF TypeOK
    <2>4. SessionsAreAuthentic'
        BY <1>1, <1>2, <1>6, <1>8, <2>2, <2>3, NoneAssumption
           DEF SessionInv, SessionsAreAuthentic
    <2>q. QED BY <1>5, <2>1, <2>4 DEF SessionInv
<1>10. CASE ~PasswordMatches(d, a)
    BY <1>1, <1>5, <1>10
       DEF SessionInv, MenuOfSession, PageIsOfTheSession, SessionsAreAuthentic
<1>q. QED BY <1>9, <1>10

LEMMA LoadUserDataSession ==
    ASSUME TypeOK, SessionInv, NEW d \in Devices, LoadUserData(d)
    PROVE  SessionInv'
<1>1. /\ menu' = [menu EXCEPT ![d].player = menu[d].name]
      /\ UNCHANGED <<screen, stored, fields, attempt, edited, compared>>
    BY DEF LoadUserData, pageVars, historyVars
<1>2. \A e \in Devices :
        /\ menu'[e].signInCheck = menu[e].signInCheck /\ menu'[e].name = menu[e].name
        /\ menu'[e].player \in {menu[e].player, menu[e].name}
    BY <1>1 DEF TypeOK
<1>3. MenuOfSession' /\ PageIsOfTheSession'
    BY <1>1, <1>2 DEF SessionInv, MenuOfSession, PageIsOfTheSession
<1>4. OneAttempt' /\ SessionsAreAuthentic'
    BY <1>1 DEF SessionInv, OneAttempt, SessionsAreAuthentic
<1>q. QED BY <1>3, <1>4 DEF SessionInv

LEMMA LaunchSession ==
    ASSUME TypeOK, SessionInv, NEW d \in Devices, Launch(d)
    PROVE  SessionInv'
<1>1. /\ OpenMenu(d, stored[d])
      /\ fields' = [fields EXCEPT ![d] = NoFields]
      /\ attempt' = [attempt EXCEPT ![d] = {}]
      /\ UNCHANGED <<stored, edited, compared>>
    BY DEF Launch
<1>2. /\ stored[d] \in [signedIn : BOOLEAN, name : Names \cup {None}]
      /\ ~stored[d].signedIn => stored[d] = NoSession
      /\ stored' = [stored EXCEPT ![d] = stored[d]]
    BY <1>1 DEF TypeOK, SessionInv, MenuOfSession
<1>3. MenuOfSession' /\ PageIsOfTheSession'
    BY <1>1, <1>2, OpenMenuSession
<1>4. attempt'[d] = {} /\ \A e \in Devices : e # d =>
        attempt'[e] = attempt[e] /\ fields'[e] = fields[e] /\ screen'[e] = screen[e]
    BY <1>1 DEF OpenMenu, TypeOK
<1>5. OneAttempt'
    BY <1>1, <1>4 DEF SessionInv, OneAttempt
<1>6. SessionsAreAuthentic'
    BY <1>1 DEF SessionInv, SessionsAreAuthentic
<1>q. QED BY <1>3, <1>5, <1>6 DEF SessionInv

LEMMA SignOutSession ==
    ASSUME TypeOK, SessionInv, NEW d \in Devices, SignOut(d)
    PROVE  SessionInv'
<1>1. /\ screen[d] = "menu"
      /\ stored' = [stored EXCEPT ![d] = NoSession]
      /\ screen' = [screen EXCEPT ![d] = "login"]
      /\ UNCHANGED <<menu, fields, attempt, edited, compared>>
    BY DEF SignOut, SignedOut, pageVars, historyVars
<1>2. stored'[d] = NoSession /\ screen'[d] = "login"
    BY <1>1 DEF TypeOK
<1>3. \A e \in Devices : e # d => stored'[e] = stored[e] /\ screen'[e] = screen[e]
    BY <1>1 DEF TypeOK
<1>4. OneAttempt'
    BY <1>1, <1>2, <1>3 DEF SessionInv, OneAttempt
<1>5. ~NoSession.signedIn
    BY DEF NoSession
<1>6. MenuOfSession' /\ PageIsOfTheSession'
    BY <1>1, <1>2, <1>3, <1>5 DEF SessionInv, MenuOfSession, PageIsOfTheSession, Running
<1>7. SessionsAreAuthentic'
    BY <1>1, <1>2, <1>3, <1>5 DEF SessionInv, SessionsAreAuthentic
<1>q. QED BY <1>4, <1>6, <1>7 DEF SessionInv

\* Between the log-in and the registration page, and between the menu and the
\* leaderboard, the stored session stays what it is.
LEMMA PagesSession ==
    ASSUME TypeOK, SessionInv, NEW d \in Devices,
           \/ SignUp(d) \/ LeaveRegistration(d) \/ OpenLeaderboard(d) \/ LeaveLeaderboard(d)
    PROVE  SessionInv'
<1>1. /\ UNCHANGED <<stored, menu, fields, attempt, edited, compared>>
      /\ \E page : screen' = [screen EXCEPT ![d] = page]
    BY DEF SignUp, LeaveRegistration, OpenLeaderboard, LeaveLeaderboard, pageVars,
           historyVars
<1>2. \/ screen[d] \in Outside /\ screen'[d] \in Outside
         /\ (attempt[d] # {} => screen'[d] = "login")
      \/ screen[d] \in Running /\ screen'[d] \in Running
    <2>1. CASE SignUp(d)
        BY <2>1 DEF SignUp, Covered, Outside, TypeOK
    <2>2. CASE LeaveRegistration(d)
        BY <2>2 DEF LeaveRegistration, Outside, TypeOK
    <2>3. CASE OpenLeaderboard(d)
        BY <2>3 DEF OpenLeaderboard, Running, TypeOK
    <2>4. CASE LeaveLeaderboard(d)
        <3>1. menu[d].signInCheck /\ menu[d].name # None /\ screen[d] = "board"
            BY <2>4 DEF LeaveLeaderboard, SessionInv, MenuOfSession, Running
        <3>2. Shown(menu[d]) = "menu"
            BY <3>1 DEF Shown
        <3>q. QED BY <2>4, <3>1, <3>2 DEF LeaveLeaderboard, Running, TypeOK
    <2>q. QED BY <2>1, <2>2, <2>3, <2>4
<1>3. \A e \in Devices : e # d => screen'[e] = screen[e]
    BY <1>1 DEF TypeOK
<1>4. Running = {"menu", "board"} /\ Outside = {"login", "register"}
    BY DEF Running, Outside
<1>5. attempt[d] # {} => screen'[d] = "login"
    BY <1>2, <1>4 DEF SessionInv, OneAttempt
<1>6. OneAttempt'
    BY <1>1, <1>3, <1>5 DEF SessionInv, OneAttempt
<1>7. MenuOfSession'
    BY <1>1, <1>2, <1>3, <1>4 DEF SessionInv, MenuOfSession
<1>8. PageIsOfTheSession'
    BY <1>1, <1>2, <1>3, <1>4 DEF SessionInv, PageIsOfTheSession
<1>9. SessionsAreAuthentic'
    BY <1>1 DEF SessionInv, SessionsAreAuthentic
<1>q. QED BY <1>6, <1>7, <1>8, <1>9 DEF SessionInv

LEMMA SessionStep == TypeOK /\ SessionInv /\ [Next]_vars => SessionInv'
<1> SUFFICES ASSUME TypeOK, SessionInv, [Next]_vars PROVE SessionInv'
    OBVIOUS
<1>1. CASE UNCHANGED vars
    BY <1>1, SessionUntouched DEF vars, pageVars, historyVars, sessionVars
<1>2. ASSUME NEW d \in Devices,
             \/ \E n \in Names, p \in Passwords : RegisterAttempt(d, n, p)
             \/ LookupAnswered(d) \/ RegisterCallback(d) \/ Deliver(d) \/ UserData(d)
      PROVE  SessionInv'
    BY <1>2, SessionUntouched DEF RegisterAttempt, LookupAnswered, RegisterCallback,
       Deliver, UserData, pageVars, historyVars, sessionVars
<1>3. CASE Next
    BY <1>2, <1>3, LogInAttemptSession, TypeBehindCurtainsSession, LogInAnsweredSession,
       LogInCallbackSession, LoadUserDataSession, LaunchSession, SignOutSession,
       PagesSession DEF Next
<1>q. QED BY <1>1, <1>3

\* The stored session is of the account whose password was compared, unless the
\* fields changed during the log-in: for any devices, names and restarts.
THEOREM SessionsAlwaysAuthentic == Spec => []SessionsAreAuthentic
<1>1. Init => TypeOK /\ SessionInv
    BY TypeInit, SessionInit
<1>2. TypeOK /\ SessionInv /\ [Next]_vars => (TypeOK /\ SessionInv)'
    BY TypeStep, SessionStep
<1>3. SessionInv => SessionsAreAuthentic
    BY DEF SessionInv
<1>q. QED BY <1>1, <1>2, <1>3, PTL DEF Spec

\* The page that is open is the one of the stored session, over any sequence of
\* log-ins, log-outs, pages and restarts.
THEOREM PageAlwaysOfTheSession == Spec => []PageIsOfTheSession
<1>1. Init => TypeOK /\ SessionInv
    BY TypeInit, SessionInit
<1>2. TypeOK /\ SessionInv /\ [Next]_vars => (TypeOK /\ SessionInv)'
    BY TypeStep, SessionStep
<1>3. SessionInv => PageIsOfTheSession
    BY DEF SessionInv
<1>q. QED BY <1>1, <1>2, <1>3, PTL DEF Spec

(* ---------------------------- the leaderboard -------------------------- *)

\* Rows in which every name is at most once have different names at any two places.
LEMMA OnceEach ==
    ASSUME NEW N \in Nat, NEW rows, DOMAIN rows = 1..N,
           NEW n, RowsOf(n, rows) <= 1,
           NEW i \in 1..N, NEW j \in 1..N, rows[i].name = n, rows[j].name = n
    PROVE  i = j
<1> DEFINE places == {k \in DOMAIN rows : rows[k].name = n}
<1>1. i \in places /\ j \in places /\ places \in SUBSET (1..N)
    OBVIOUS
<1>2. IsFiniteSet(1..N)
    BY FS_Interval
<1>3. IsFiniteSet(places)
    BY <1>1, <1>2, FS_Subset
<1>4. Cardinality(places) <= 1
    BY DEF RowsOf
<1> HIDE DEF places
<1>5. Cardinality(places) # 0
    BY <1>1, <1>3, FS_EmptySet
<1>6. Cardinality(places) \in Nat
    BY <1>3, FS_CardinalityType
<1>7. Cardinality(places) = 1
    BY <1>4, <1>5, <1>6
<1>8. PICK k : places = {k}
    BY <1>3, <1>7, FS_Singleton, Zenon
<1>q. QED BY <1>1, <1>8

LEMMA AtMostOne ==
    ASSUME NEW found \in SUBSET Names, NEW n
    PROVE  Cardinality(found \cap {n}) \in Nat /\ Cardinality(found \cap {n}) <= 1
<1>1. IsFiniteSet({n}) /\ Cardinality({n}) = 1
    BY FS_Singleton
<1>2. found \cap {n} \in SUBSET {n}
    OBVIOUS
<1>3. IsFiniteSet(found \cap {n}) /\ Cardinality(found \cap {n}) <= 1
    BY <1>1, <1>2, FS_Subset
<1>q. QED BY <1>3, FS_CardinalityType

LEMMA NoRows == \A n : RowsOf(n, <<>>) = 0
<1>1. \A n : {i \in DOMAIN <<>> : <<>>[i].name = n} = {}
    OBVIOUS
<1>2. Cardinality({}) = 0
    BY FS_EmptySet
<1>q. QED BY <1>1, <1>2 DEF RowsOf

\* The rows that reach a leaderboard without any are ranked.
LEMMA UserDataRanked ==
    ASSUME TypeOK, BoardInv, NEW d \in Devices, UserData(d)
    PROVE  \A i, j \in DOMAIN board'[d].rows :
             i < j => /\ board'[d].rows[i].wins >= board'[d].rows[j].wins
                      /\ board'[d].rows[i].name # board'[d].rows[j].name
<1>1. board[d].rows = <<>>
    BY DEF BoardInv, AskedIsEmpty, UserData
<1>2. PICK found \in SUBSET Names :
        \E rows \in [1..(Len(board[d].rows) + Cardinality(found)) ->
                       [name : Names, wins : 0..MaxWins]] :
            /\ \A n \in Names :
                RowsOf(n, rows) = RowsOf(n, board[d].rows) + Cardinality(found \cap {n})
            /\ Descending(rows)
            /\ board' = [board EXCEPT ![d] = [asked |-> FALSE, rows |-> rows]]
    BY UserDataRows
<1>3. PICK rows \in [1..(Len(board[d].rows) + Cardinality(found)) ->
                       [name : Names, wins : 0..MaxWins]] :
        /\ \A n \in Names :
            RowsOf(n, rows) = RowsOf(n, board[d].rows) + Cardinality(found \cap {n})
        /\ Descending(rows)
        /\ board' = [board EXCEPT ![d] = [asked |-> FALSE, rows |-> rows]]
    BY <1>2
<1> DEFINE N == Len(board[d].rows) + Cardinality(found)
<1>4. N \in Nat /\ DOMAIN rows = 1..N
    BY RowsType DEF TypeOK
<1>5. \A i \in 1..N : rows[i].name \in Names /\ rows[i].wins \in 0..MaxWins
    BY <1>3
<1>6. \A n \in Names : RowsOf(n, rows) <= 1
    <2>1. TAKE n \in Names
    <2>2. RowsOf(n, rows) = 0 + Cardinality(found \cap {n})
        BY <1>1, <1>3, NoRows
    <2>3. Cardinality(found \cap {n}) \in Nat /\ Cardinality(found \cap {n}) <= 1
        BY AtMostOne
    <2>q. QED BY <2>2, <2>3
<1>7. board'[d].rows = rows
    BY <1>3 DEF TypeOK
<1>8. ASSUME NEW i \in 1..N, NEW j \in 1..N, i < j
      PROVE  rows[i].wins >= rows[j].wins /\ rows[i].name # rows[j].name
    <2>1. rows[i].wins >= rows[j].wins
        BY <1>3, <1>4, <1>8 DEF Descending
    <2>2. rows[i].name # rows[j].name
        <3> HIDE DEF N
        <3>1. SUFFICES ASSUME rows[i].name = rows[j].name PROVE FALSE
            OBVIOUS
        <3>2. i = j
            BY <1>4, <1>5, <1>6, <3>1, OnceEach
        <3>3. i \in Int /\ j \in Int
            BY <1>4
        <3>q. QED BY <1>8, <3>2, <3>3
    <2>q. QED BY <2>1, <2>2
<1>q. QED BY <1>4, <1>7, <1>8

LEMMA BoardStep == TypeOK /\ BoardInv /\ [Next]_vars => BoardInv'
<1> SUFFICES ASSUME TypeOK, BoardInv, [Next]_vars PROVE BoardInv'
    OBVIOUS
<1> DEFINE Ranked(rows) == \A i, j \in DOMAIN rows :
             i < j => rows[i].wins >= rows[j].wins /\ rows[i].name # rows[j].name
<1>1. BoardInv <=> \A d \in Devices :
        (board[d].asked => board[d].rows = <<>>) /\ Ranked(board[d].rows)
    BY DEF BoardInv, AskedIsEmpty, BoardIsRanked
<1>2. BoardInv' <=> \A d \in Devices :
        (board'[d].asked => board'[d].rows = <<>>) /\ Ranked(board'[d].rows)
    BY DEF BoardInv, AskedIsEmpty, BoardIsRanked
<1>3. Ranked(<<>>)
    OBVIOUS
<1>4. ASSUME NEW d \in Devices, NEW b, board' = [board EXCEPT ![d] = b],
             b.asked => b.rows = <<>>, Ranked(b.rows)
      PROVE  BoardInv'
    <2> HIDE DEF Ranked
    <2>1. board'[d] = b /\ \A e \in Devices : e # d => board'[e] = board[e]
        BY <1>4 DEF TypeOK
    <2>q. QED BY <1>1, <1>2, <1>4, <2>1
<1>5. CASE UNCHANGED board
    BY <1>1, <1>2, <1>5
<1>6. ASSUME NEW d \in Devices, Launch(d) \/ OpenLeaderboard(d) PROVE BoardInv'
    <2>1. NoBoard.rows = <<>> /\ OpenedBoard(d).rows = <<>>
        BY DEF NoBoard, OpenedBoard
    <2>2. \/ board' = [board EXCEPT ![d] = NoBoard]
          \/ board' = [board EXCEPT ![d] = OpenedBoard(d)]
        BY <1>6 DEF Launch, OpenLeaderboard
    <2> HIDE DEF Ranked
    <2>q. QED BY <1>3, <1>4, <2>1, <2>2
<1>7. ASSUME NEW d \in Devices, UserData(d) PROVE BoardInv'
    <2>1. PICK rows : board' = [board EXCEPT ![d] = [asked |-> FALSE, rows |-> rows]]
        BY <1>7 DEF UserData
    <2> DEFINE b == [asked |-> FALSE, rows |-> rows]
    <2>2. board' = [board EXCEPT ![d] = b] /\ b.asked = FALSE
        BY <2>1
    <2> HIDE DEF b
    <2>3. board'[d] = b
        BY <2>2 DEF TypeOK
    <2>4. Ranked(b.rows)
        BY <1>7, <2>3, UserDataRanked
    <2> HIDE DEF Ranked
    <2>q. QED BY <1>4, <2>2, <2>4
<1>8. CASE Next
    <2>1. CASE \E d \in Devices : Launch(d) \/ OpenLeaderboard(d) \/ UserData(d)
        BY <1>6, <1>7, <2>1
    <2>2. CASE ~ \E d \in Devices : Launch(d) \/ OpenLeaderboard(d) \/ UserData(d)
        BY <1>5, <1>8, <2>2 DEF Next, LogInAttempt, RegisterAttempt, TypeBehindCurtains,
           LogInAnswered, LogInCallback, LoadUserData, SignOut, SignUp, LeaveRegistration,
           LookupAnswered, RegisterCallback, Deliver, LeaveLeaderboard, pageVars
    <2>q. QED BY <2>1, <2>2
<1>q. QED BY <1>5, <1>8 DEF vars, pageVars

\* The leaderboard ranks by wins and lists nobody twice, however often it is
\* opened and left, for any number of accounts.
THEOREM BoardAlwaysRanked == Spec => []BoardIsRanked
<1>1. Init => BoardInv
    BY DEF Init, BoardInv, AskedIsEmpty, BoardIsRanked, NoBoard
<1>2. BoardInv => BoardIsRanked
    BY DEF BoardInv
<1>q. QED BY <1>1, <1>2, TypeInit, TypeStep, BoardStep, PTL DEF Spec

(* --------------------------- existing accounts ------------------------- *)

NamesStaySafe ==
    \A d \in Devices, n \in Names :
        accounts[n] # None /\ ~MayOverwrite(d, n) => ~MayOverwrite(d, n)'

\* A read brings into the cache only what is there, and loses nothing.
LEMMA CachedKeeps ==
    ASSUME TypeOK, KnownInv, NEW d \in Devices, NEW n \in Names, NEW answer,
           Cached(d, n, answer), NEW e \in Devices, NEW m \in Names
    PROVE  /\ seen[e][m] # None => seen'[e][m] # None
           /\ seen'[e][m] # None => accounts[m] # None
<1>1. seen'[e][m] \in {seen[e][m], accounts[m]}
    BY DEF Cached, TypeOK
<1>2. seen[e][m] # None => accounts[m] # None
    BY DEF KnownInv, SeenExists
<1>q. QED BY <1>1, <1>2

\* A password that is read is known afterwards, and an account that exists is
\* missed only by a device that may already overwrite it.
LEMMA AnswerKnows ==
    ASSUME TypeOK, KnownInv, NEW d \in Devices, NEW n \in Names,
           NEW answer \in Answer(d, n), Cached(d, n, answer)
    PROVE  /\ answer \in Passwords => HasOwn(d, n) \/ seen'[d][n] # None
           /\ accounts[n] # None /\ ~MayOverwrite(d, n) => answer # Nobody
<1>1. CASE HasOwn(d, n)
    BY <1>1 DEF MayOverwrite, HasOwn
<1>2. CASE ~HasOwn(d, n)
    <2>1. accounts[n] \in Passwords \cup {None} /\ seen[d][n] \in Passwords \cup {None}
        BY DEF TypeOK
    <2>2. Overlaid(d, n, accounts[n]) = accounts[n] /\ Overlaid(d, n, seen[d][n]) = seen[d][n]
        BY <1>2, OverlaidIs
    <2>3. Passwords \cap {Pending, Nobody, Failed} = {} /\ Failed # Nobody
        BY AnswersAssumption DEF Failed, Nobody
    <2>4. answer \in {Read(d, n, accounts[n], Nobody),
                      Read(d, n, seen[d][n], IF Listening(d, n) THEN Nobody ELSE Failed)}
        BY DEF Answer
    <2>5. Read(d, n, accounts[n], Nobody)
            = IF accounts[n] = None THEN Nobody ELSE accounts[n]
        BY <2>2 DEF Read
    <2>6. \A missing : Read(d, n, seen[d][n], missing)
            = IF seen[d][n] = None THEN missing ELSE seen[d][n]
        BY <2>2 DEF Read
    <2>7. answer \in Passwords =>
            \/ answer = accounts[n] /\ accounts[n] # None
            \/ seen[d][n] # None
        BY <2>3, <2>4, <2>5, <2>6, Zenon
    <2>8. answer = accounts[n] => seen'[d][n] = accounts[n]
        BY <2>2 DEF Cached, TypeOK
    <2>9. seen[d][n] # None => seen'[d][n] # None
        BY CachedKeeps
    <2>10. ASSUME accounts[n] # None, ~MayOverwrite(d, n), answer = Nobody PROVE FALSE
        <3>1. answer \notin Passwords
            BY <2>3, <2>10
        <3>2. seen[d][n] = None /\ Listening(d, n)
            BY <2>1, <2>3, <2>4, <2>5, <2>6, <2>10, <3>1
        <3>3. PICK k \in lookups[d] \cup attempt[d] :
                k.name = n /\ k.answer \notin {Pending, Failed}
            BY <3>2 DEF Listening
        <3>4. k.answer \in Passwords \cup {Pending, Nobody, Failed}
            BY DEF TypeOK, Answers
        <3>5. k.answer # Nobody
            BY <2>10, <3>3 DEF MayOverwrite, IsFree
        <3>6. k.answer \in Passwords
            BY <3>3, <3>4, <3>5
        <3>q. QED BY <1>2, <3>2, <3>3, <3>6 DEF KnownInv, ReadIsKnown
    <2>q. QED BY <2>7, <2>8, <2>9, <2>10
<1>q. QED BY <1>1, <1>2

\* What keeps the invariant: nothing seen or on its way is lost, what is seen
\* is there, and no password is read that is not known.
LEMMA KnownKept ==
    ASSUME TypeOK', KnownInv,
           \A e \in Devices, m \in Names :
               /\ seen[e][m] # None => seen'[e][m] # None
               /\ seen'[e][m] # None => accounts'[m] # None
               /\ HasOwn(e, m) => HasOwn(e, m)' \/ seen'[e][m] # None,
           \A e \in Devices : \A k \in lookups'[e] \cup attempt'[e] :
               k.answer \in Passwords =>
                   \/ k \in lookups[e] \cup attempt[e]
                   \/ HasOwn(e, k.name)' \/ seen'[e][k.name] # None
    PROVE  KnownInv'
<1>1. SeenExists'
    BY DEF SeenExists
<1>2. ASSUME NEW e \in Devices, NEW k \in lookups'[e] \cup attempt'[e], k.answer \in Passwords
      PROVE  HasOwn(e, k.name)' \/ seen'[e][k.name] # None
    <2>1. k.name \in Names
        BY DEF TypeOK
    <2>2. CASE k \in lookups[e] \cup attempt[e]
        <3>1. HasOwn(e, k.name) \/ seen[e][k.name] # None
            BY <1>2, <2>2 DEF KnownInv, ReadIsKnown
        <3>q. QED BY <2>1, <3>1
    <2>q. QED BY <1>2, <2>2
<1>3. ReadIsKnown'
    BY <1>2 DEF ReadIsKnown, HasOwn
<1>q. QED BY <1>1, <1>3 DEF KnownInv

\* A lookup that is answered, of a registration or a log-in.
LEMMA AnsweredKnown ==
    ASSUME TypeOK, TypeOK', KnownInv, NEW d \in Devices,
           NEW k \in lookups[d] \cup attempt[d], NEW answer \in Answer(d, k.name),
           Cached(d, k.name, answer), UNCHANGED <<accounts, outbox>>,
           \A e \in Devices : \A j \in lookups'[e] \cup attempt'[e] :
               \/ j \in lookups[e] \cup attempt[e]
               \/ e = d /\ j = [k EXCEPT !.answer = answer]
    PROVE  KnownInv' /\ NamesStaySafe
<1>1. k.name \in Names
    BY DEF TypeOK
<1> DEFINE now == [k EXCEPT !.answer = answer]
<1>2. now.name = k.name /\ now.answer = answer
    BY DEF TypeOK
<1> HIDE DEF now
<1>3. /\ answer \in Passwords => HasOwn(d, k.name) \/ seen'[d][k.name] # None
      /\ accounts[k.name] # None /\ ~MayOverwrite(d, k.name) => answer # Nobody
    BY <1>1, AnswerKnows
<1>4. \A e \in Devices, m \in Names :
        /\ seen[e][m] # None => seen'[e][m] # None
        /\ seen'[e][m] # None => accounts'[m] # None
    BY <1>1, CachedKeeps
<1>5. \A e, m : HasOwn(e, m)' <=> HasOwn(e, m)
    BY DEF HasOwn
<1>6. \A e \in Devices : \A j \in lookups'[e] \cup attempt'[e] :
        j \in lookups[e] \cup attempt[e] \/ (e = d /\ j = now)
    BY DEF now
<1>7. KnownInv'
    <2>1. \A e \in Devices : \A j \in lookups'[e] \cup attempt'[e] :
            j.answer \in Passwords =>
                \/ j \in lookups[e] \cup attempt[e]
                \/ HasOwn(e, j.name)' \/ seen'[e][j.name] # None
        BY <1>2, <1>3, <1>5, <1>6
    <2>q. QED BY <1>4, <1>5, <2>1, KnownKept
<1>8. ASSUME NEW e \in Devices, NEW n \in Names, accounts[n] # None, ~MayOverwrite(e, n),
             MayOverwrite(e, n)'
      PROVE  FALSE
    <2>1. ~HasOwn(e, n) /\ \A j \in lookups[e] \cup attempt[e] : ~(j.name = n /\ j.answer = Nobody)
        BY <1>8 DEF MayOverwrite, HasOwn, IsFree
    <2>2. PICK j \in lookups'[e] \cup attempt'[e] : j.name = n /\ j.answer = Nobody
        BY <1>5, <1>8, <2>1 DEF MayOverwrite, HasOwn, IsFree
    <2>3. e = d /\ j = now
        BY <1>6, <2>1, <2>2
    <2>q. QED BY <1>2, <1>3, <1>8, <2>2, <2>3
<1>q. QED BY <1>7, <1>8 DEF NamesStaySafe

LEMMA LookupAnsweredKnown ==
    ASSUME TypeOK, TypeOK', KnownInv, NEW d \in Devices, LookupAnswered(d)
    PROVE  KnownInv' /\ NamesStaySafe
<1>1. PICK l \in lookups[d] : \E answer \in Answer(d, l.name) :
        /\ lookups' = [lookups EXCEPT ![d] = (@ \ {l}) \cup {[l EXCEPT !.answer = answer]}]
        /\ Cached(d, l.name, answer)
    BY DEF LookupAnswered
<1>2. PICK answer \in Answer(d, l.name) :
        /\ lookups' = [lookups EXCEPT ![d] = (@ \ {l}) \cup {[l EXCEPT !.answer = answer]}]
        /\ Cached(d, l.name, answer)
    BY <1>1
<1>3. UNCHANGED <<accounts, outbox, attempt>>
    BY DEF LookupAnswered
<1> DEFINE now == [l EXCEPT !.answer = answer]
<1>4. \A e \in Devices : \A j \in lookups'[e] \cup attempt'[e] :
        j \in lookups[e] \cup attempt[e] \/ (e = d /\ j = now)
    <2>1. lookups' = [lookups EXCEPT ![d] = (lookups[d] \ {l}) \cup {now}]
        BY <1>2
    <2> HIDE DEF now
    <2>q. QED BY <2>1, <1>3 DEF TypeOK
<1>q. QED BY <1>2, <1>3, <1>4, AnsweredKnown

LEMMA LogInAnsweredKnown ==
    ASSUME TypeOK, TypeOK', KnownInv, NEW d \in Devices, LogInAnswered(d)
    PROVE  KnownInv' /\ NamesStaySafe
<1>1. PICK a \in attempt[d] : \E answer \in Answer(d, a.name) :
        /\ attempt' = [attempt EXCEPT ![d] = (@ \ {a}) \cup {[a EXCEPT !.answer = answer]}]
        /\ Cached(d, a.name, answer)
    BY DEF LogInAnswered
<1>2. PICK answer \in Answer(d, a.name) :
        /\ attempt' = [attempt EXCEPT ![d] = (@ \ {a}) \cup {[a EXCEPT !.answer = answer]}]
        /\ Cached(d, a.name, answer)
    BY <1>1
<1>3. UNCHANGED <<accounts, outbox, lookups>>
    BY DEF LogInAnswered
<1> DEFINE now == [a EXCEPT !.answer = answer]
<1>4. \A e \in Devices : \A j \in lookups'[e] \cup attempt'[e] :
        j \in lookups[e] \cup attempt[e] \/ (e = d /\ j = now)
    <2>1. attempt' = [attempt EXCEPT ![d] = (attempt[d] \ {a}) \cup {now}]
        BY <1>2
    <2> HIDE DEF now
    <2>q. QED BY <2>1, <1>3 DEF TypeOK
<1>q. QED BY <1>2, <1>3, <1>4, AnsweredKnown

\* A step that makes no answer and no write, and at most forgets or starts
\* lookups.
LEMMA QuietKnown ==
    ASSUME TypeOK, TypeOK', KnownInv, UNCHANGED <<accounts, outbox>>,
           \/ UNCHANGED seen
           \/ \E d \in Devices, n \in Names : \E answer : Cached(d, n, answer),
           \A e \in Devices : \A k \in lookups'[e] \cup attempt'[e] :
               k \in lookups[e] \cup attempt[e] \/ k.answer = Pending
    PROVE  KnownInv' /\ NamesStaySafe
<1>1. Pending \notin Passwords /\ Pending # Nobody
    BY AnswersAssumption DEF Pending, Nobody
<1>2. \A e \in Devices, m \in Names :
        /\ seen[e][m] # None => seen'[e][m] # None
        /\ seen'[e][m] # None => accounts'[m] # None
    <2>1. CASE UNCHANGED seen
        BY <2>1 DEF KnownInv, SeenExists
    <2>2. CASE \E d \in Devices, n \in Names : \E answer : Cached(d, n, answer)
        BY <2>2, CachedKeeps
    <2>q. QED BY <2>1, <2>2
<1>3. \A e, m : HasOwn(e, m)' <=> HasOwn(e, m)
    BY DEF HasOwn
<1>4. KnownInv'
    BY <1>1, <1>2, <1>3, KnownKept
<1>5. NamesStaySafe
    BY <1>1, <1>3 DEF NamesStaySafe, MayOverwrite, HasOwn, IsFree
<1>q. QED BY <1>4, <1>5

LEMMA RegisterCallbackKnown ==
    ASSUME TypeOK, TypeOK', KnownInv, NEW d \in Devices, RegisterCallback(d)
    PROVE  KnownInv' /\ NamesStaySafe
<1> DEFINE Own == [name : Names, password : Passwords]
<1>1. PICK l \in lookups[d] :
        /\ lookups' = [lookups EXCEPT ![d] = @ \ {l}]
        /\ outbox' = IF IsFree(l.answer)
                     THEN [outbox EXCEPT ![d] =
                            Append(@, [name |-> l.name, password |-> l.password])]
                     ELSE outbox
        /\ UNCHANGED <<accounts, seen, attempt>>
    BY DEF RegisterCallback
<1>2. \A e \in Devices : \A k \in lookups'[e] \cup attempt'[e] :
        k \in lookups[e] \cup attempt[e]
    BY <1>1 DEF TypeOK
<1>3. \A e \in Devices, m \in Names :
        /\ HasOwn(e, m) => HasOwn(e, m)'
        /\ HasOwn(e, m)' => HasOwn(e, m) \/ (e = d /\ m = l.name /\ IsFree(l.answer))
    <2>1. CASE ~IsFree(l.answer)
        BY <1>1, <2>1 DEF HasOwn
    <2>2. CASE IsFree(l.answer)
        <3> DEFINE w == [name |-> l.name, password |-> l.password]
        <3>1. w \in Own /\ w.name = l.name
            BY DEF TypeOK
        <3>2. outbox \in [Devices -> Seq(Own)]
            BY DEF TypeOK
        <3>3. outbox' = [outbox EXCEPT ![d] = Append(outbox[d], w)]
            BY <1>1, <2>2
        <3> HIDE DEF w, Own
        <3>4. outbox'[d] = Append(outbox[d], w) /\ outbox[d] \in Seq(Own)
              /\ \A e \in Devices : e # d => outbox'[e] = outbox[e]
            BY <3>2, <3>3
        <3>5. /\ Len(outbox'[d]) = Len(outbox[d]) + 1 /\ Len(outbox[d]) \in Nat
              /\ \A i \in 1..Len(outbox[d]) : outbox'[d][i] = outbox[d][i]
              /\ outbox'[d][Len(outbox[d]) + 1] = w
            BY <3>1, <3>4, AppendProperties
        <3>6. \A i : i \in 1..Len(outbox'[d]) <=> i \in 1..Len(outbox[d]) \/ i = Len(outbox[d]) + 1
            BY <3>5
        <3>q. QED BY <2>2, <3>1, <3>4, <3>5, <3>6 DEF HasOwn
    <2>q. QED BY <2>1, <2>2
<1>4. KnownInv'
    BY <1>1, <1>2, <1>3, KnownKept DEF KnownInv, SeenExists
<1>5. NamesStaySafe
    BY <1>2, <1>3 DEF NamesStaySafe, MayOverwrite, HasOwn
<1>q. QED BY <1>4, <1>5

LEMMA DeliverKnown ==
    ASSUME TypeOK, TypeOK', KnownInv, NEW d \in Devices, Deliver(d)
    PROVE  KnownInv' /\ NamesStaySafe
<1> DEFINE Own == [name : Names, password : Passwords]
           w == Head(outbox[d])
<1>1. /\ outbox \in [Devices -> Seq(Own)] /\ outbox[d] # <<>>
      /\ outbox' = [outbox EXCEPT ![d] = Tail(outbox[d])]
      /\ accounts' = [accounts EXCEPT ![w.name] = w.password]
      /\ seen' = [seen EXCEPT ![d][w.name] = w.password]
      /\ UNCHANGED <<lookups, attempt>>
    BY DEF TypeOK, Deliver, pageVars
<1>2. w \in Own /\ w = outbox[d][1] /\ Len(outbox[d]) \in Nat
      /\ Len(Tail(outbox[d])) = Len(outbox[d]) - 1
      /\ \A i \in 1..Len(Tail(outbox[d])) : Tail(outbox[d])[i] = outbox[d][i + 1]
    <2> HIDE DEF Own
    <2>q. QED BY <1>1, HeadTailProperties
<1>3. w.name \in Names /\ w.password \in Passwords /\ w.password # None
    BY <1>2, NoneAssumption
<1> HIDE DEF w, Own
<1>4. outbox'[d] = Tail(outbox[d]) /\ \A e \in Devices : e # d => outbox'[e] = outbox[e]
    BY <1>1
<1>5. /\ accounts'[w.name] = w.password /\ seen'[d][w.name] = w.password
      /\ \A m \in Names : m # w.name => accounts'[m] = accounts[m]
      /\ \A e \in Devices, m \in Names : e # d \/ m # w.name => seen'[e][m] = seen[e][m]
    BY <1>1, <1>3 DEF TypeOK
<1>6. \A e \in Devices, m \in Names : HasOwn(e, m)' => HasOwn(e, m)
    <2>1. \A i \in 1..Len(outbox'[d]) :
            i + 1 \in 1..Len(outbox[d]) /\ outbox'[d][i] = outbox[d][i + 1]
        BY <1>2, <1>4
    <2>2. ASSUME NEW m \in Names, HasOwn(d, m)' PROVE HasOwn(d, m)
        <3>1. PICK i \in 1..Len(outbox'[d]) : outbox'[d][i].name = m
            BY <2>2 DEF HasOwn
        <3>q. QED BY <2>1, <3>1 DEF HasOwn
    <2>q. QED BY <1>4, <2>2 DEF HasOwn
<1>7. \A e \in Devices, m \in Names : HasOwn(e, m) => HasOwn(e, m)' \/ seen'[e][m] # None
    <2>1. ASSUME NEW i \in 1..Len(outbox[d]), i # 1
          PROVE  i - 1 \in 1..Len(outbox'[d]) /\ outbox'[d][i - 1] = outbox[d][i]
        <3>1. i - 1 \in 1..Len(outbox'[d]) /\ (i - 1) + 1 = i
            BY <1>2, <1>4, <2>1
        <3>2. Tail(outbox[d])[i - 1] = outbox[d][(i - 1) + 1]
            BY <1>2, <1>4, <3>1
        <3>q. QED BY <1>4, <3>1, <3>2
    <2>2. ASSUME NEW m \in Names, HasOwn(d, m) PROVE HasOwn(d, m)' \/ seen'[d][m] # None
        <3>1. PICK i \in 1..Len(outbox[d]) : outbox[d][i].name = m
            BY <2>2 DEF HasOwn
        <3>2. CASE i = 1
            BY <1>2, <1>3, <1>5, <3>1, <3>2
        <3>3. CASE i # 1
            BY <2>1, <3>1, <3>3 DEF HasOwn
        <3>q. QED BY <3>2, <3>3
    <2>q. QED BY <1>4, <2>2 DEF HasOwn
<1>8. \A e \in Devices, m \in Names :
        /\ seen[e][m] # None => seen'[e][m] # None
        /\ seen'[e][m] # None => accounts'[m] # None
    BY <1>3, <1>5 DEF KnownInv, SeenExists
<1>9. KnownInv'
    BY <1>1, <1>7, <1>8, KnownKept
<1>10. NamesStaySafe
    BY <1>1, <1>6 DEF NamesStaySafe, MayOverwrite, HasOwn
<1>q. QED BY <1>9, <1>10

LEMMA KnownStep ==
    ASSUME TypeOK, KnownInv, [Next]_vars
    PROVE  KnownInv' /\ NamesStaySafe
<1>1. TypeOK'
    BY TypeStep
<1>2. CASE UNCHANGED vars
    BY <1>1, <1>2, QuietKnown DEF vars, pageVars
<1>3. ASSUME NEW d \in Devices, NEW n \in Names, NEW p \in Passwords, LogInAttempt(d, n, p)
      PROVE  KnownInv' /\ NamesStaySafe
    <2> DEFINE made == [name |-> n, answer |-> Pending]
    <2>1. /\ attempt' = [attempt EXCEPT ![d] = @ \cup {made}]
          /\ UNCHANGED <<accounts, outbox, seen, lookups>>
        BY <1>3 DEF LogInAttempt
    <2>2. made.answer = Pending
        OBVIOUS
    <2> HIDE DEF made
    <2>3. \A e \in Devices : \A k \in lookups'[e] \cup attempt'[e] :
            k \in lookups[e] \cup attempt[e] \/ k.answer = Pending
        BY <2>1, <2>2 DEF TypeOK
    <2>q. QED BY <1>1, <2>1, <2>3, QuietKnown
<1>4. ASSUME NEW d \in Devices, NEW n \in Names, NEW p \in Passwords, RegisterAttempt(d, n, p)
      PROVE  KnownInv' /\ NamesStaySafe
    <2> DEFINE made == [id |-> tries', name |-> n, password |-> p, answer |-> Pending]
    <2>1. /\ lookups' = [lookups EXCEPT ![d] = @ \cup {made}]
          /\ UNCHANGED <<accounts, outbox, seen, attempt>>
        BY <1>4 DEF RegisterAttempt
    <2>2. made.answer = Pending
        OBVIOUS
    <2> HIDE DEF made
    <2>3. \A e \in Devices : \A k \in lookups'[e] \cup attempt'[e] :
            k \in lookups[e] \cup attempt[e] \/ k.answer = Pending
        BY <2>1, <2>2 DEF TypeOK
    <2>q. QED BY <1>1, <2>1, <2>3, QuietKnown
<1>5. ASSUME NEW d \in Devices, LogInCallback(d) \/ Launch(d)
      PROVE  KnownInv' /\ NamesStaySafe
    <2>1. UNCHANGED <<accounts, outbox, seen>>
        BY <1>5 DEF LogInCallback, Launch
    <2>2. \A e \in Devices : \A k \in lookups'[e] \cup attempt'[e] :
            k \in lookups[e] \cup attempt[e]
        <3>1. CASE LogInCallback(d)
            <4>1. PICK a \in attempt[d] : attempt' = [attempt EXCEPT ![d] = @ \ {a}]
                BY <3>1 DEF LogInCallback
            <4>2. UNCHANGED lookups
                BY <3>1 DEF LogInCallback
            <4>q. QED BY <4>1, <4>2 DEF TypeOK
        <3>2. CASE Launch(d)
            BY <3>2 DEF Launch, TypeOK
        <3>q. QED BY <1>5, <3>1, <3>2
    <2>q. QED BY <1>1, <2>1, <2>2, QuietKnown
<1>6. ASSUME NEW d \in Devices, LoadUserData(d)
      PROVE  KnownInv' /\ NamesStaySafe
    <2>1. menu[d].name \in Names
        BY <1>6 DEF LoadUserData, TypeOK
    <2>2. \E answer : Cached(d, menu[d].name, answer)
        BY <1>6 DEF LoadUserData
    <2>3. UNCHANGED <<accounts, outbox, lookups, attempt>>
        BY <1>6 DEF LoadUserData, pageVars
    <2>q. QED BY <1>1, <2>1, <2>2, <2>3, QuietKnown
<1>7. ASSUME NEW d \in Devices,
             \/ \E text \in Texts : TypeBehindCurtains(d, text)
             \/ SignOut(d) \/ SignUp(d) \/ LeaveRegistration(d)
             \/ OpenLeaderboard(d) \/ UserData(d) \/ LeaveLeaderboard(d)
      PROVE  KnownInv' /\ NamesStaySafe
    <2>1. UNCHANGED <<accounts, outbox, seen, lookups, attempt>>
        BY <1>7 DEF TypeBehindCurtains, SignOut, SignUp, LeaveRegistration,
           OpenLeaderboard, UserData, LeaveLeaderboard, pageVars
    <2>q. QED BY <1>1, <2>1, QuietKnown
<1>8. CASE Next
    BY <1>1, <1>3, <1>4, <1>5, <1>6, <1>7, <1>8, LookupAnsweredKnown, LogInAnsweredKnown,
       RegisterCallbackKnown, DeliverKnown DEF Next
<1>q. QED BY <1>2, <1>8

\* "User Already Exists", for any number of devices and registrations: no step
\* lets a device register an existing name that it could not register before.
THEOREM ExistingNamesStaySafe == Spec => ExistingNamesAreSafe
<1>1. Init => KnownInv
    BY DEF Init, KnownInv, ReadIsKnown, SeenExists
<1>2. TypeOK /\ KnownInv /\ [Next]_vars => KnownInv'
    BY KnownStep
<1>3. TypeOK /\ KnownInv /\ [Next]_vars => [NamesStaySafe]_vars
    BY KnownStep
<1>4. NamesStaySafe <=>
        \A d \in Devices, n \in Names :
            accounts[n] # None /\ ~MayOverwrite(d, n) => ~MayOverwrite(d, n)'
    BY DEF NamesStaySafe
<1>q. QED BY <1>1, <1>2, <1>3, <1>4, TypeInit, TypeStep, PTL DEF Spec, ExistingNamesAreSafe
=============================================================================
