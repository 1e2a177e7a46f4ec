---------------------------- MODULE Matchmaking ----------------------------
(***************************************************************************)
(* The multiplayer queue of MainMenuVC.  Two documents of Firestore are    *)
(* shared by all devices: the lobby, with a field host0, host1, ... per    *)
(* room that is "open" once a host waits and "guest" once a guest came,    *)
(* and one document per room with the names of the two players.            *)
(*                                                                         *)
(* A device reads the lobby, picks a seat in the callback of the read,     *)
(* writes the seat to the lobby and enters the room: the host creates the  *)
(* room's document, the guest writes its name there.  Each listens to the  *)
(* room and opens GameVC when the document is modified.  Nothing joins the *)
(* read and the write of the lobby: two devices may decide on one snapshot.*)
(*                                                                         *)
(* The Firestore client is modelled from what this code relies on: the     *)
(* writes of a device are sent in order, are visible to its own reads and  *)
(* listeners at once, and survive the end of the application; an update of *)
(* a document that does not exist is rejected; a listener sees the newest  *)
(* state, reports a document as added first and as modified afterwards,    *)
(* and only when its content changed.  A read that gets no answer from the *)
(* server is answered from the cache of the phone, which may hold a lobby  *)
(* of any earlier day: multiplayerQueue does not ask where its answer came *)
(* from.  A returning player is a device of its own, whose cache and       *)
(* stored writes are those of the player's earlier visits.                 *)
(***************************************************************************)
EXTENDS Integers, Sequences

CONSTANTS
    Devices,
    Nobody,         \* in place of a player who has not come
    OldRooms,       \* bound on the rooms that earlier players filled
    LastRoom,       \* bound on the rooms; the code has none
    MayFail         \* whether devices are offline, and applications end, at any time

ASSUME DevicesAssumption == Nobody \notin Devices
ASSUME RoomsAssumption == LastRoom \in Nat /\ OldRooms \in 0..LastRoom
ASSUME FailAssumption == MayFail \in BOOLEAN

Rooms == 0..LastRoom
Seats == {"none", "open", "guest"}
EmptyLobby == [r \in Rooms |-> "none"]

LobbyWrites == {"createLobby", "openHost", "takeGuest"}
Writes == LobbyWrites \cup {"createRoom", "joinRoom", "activate"}

RoomDocs == [host : Devices \cup {Nobody}, guest : Devices \cup {Nobody},
             gameStatus : {"missing", "new", "Active"}]
Missing == [host |-> Nobody, guest |-> Nobody, gameStatus |-> "missing"]
NewRoom(d) == [host |-> d, guest |-> Nobody, gameStatus |-> "new"]
OldRoom == [host |-> Nobody, guest |-> Nobody, gameStatus |-> "Active"]

VARIABLES
    \* the documents on the server
    lobby, rooms,
    \* MainMenuVC on each device
    phase,          \* "menu", "reading", "deciding", "seated", "hung", "dead"
    userLoaded,     \* loggedInPlayer_MM holds the user's data
    snapshot,       \* the lobby as the read returned it
    room, role,
    pend,           \* writes the server has not applied yet, all about room
    seen,           \* the room's document as the listener last reported it
    \* the GameVC it presents
    vc,             \* "none", "presenting", "configured", "playing", "blank", "late"
    names,          \* hostName and guestName in the gameRoomData passed in
    \* history
    lobbies,        \* the lobbies there have been: what a cache may hold
    outdated        \* a device read a lobby that another was still deciding on, or
                    \* one that is not the newest

serverVars == <<lobby, rooms>>
queueVars == <<phase, userLoaded, snapshot, room, role>>
gameVars == <<vc, names>>
history == <<lobbies, outdated>>
vars == <<serverVars, queueVars, pend, seen, gameVars, history>>

NameData == [host : Devices \cup {Nobody}, guest : Devices \cup {Nobody}]
NoNames == [host |-> Nobody, guest |-> Nobody]

\* The lobby after the first n rooms were filled.
Filled(n) == [r \in Rooms |-> IF r < n THEN "guest" ELSE "none"]

\* The documents are never deleted: the rooms of earlier players are still
\* there, the names in them are those of nobody modelled.
Init ==
    /\ \E n \in 0..OldRooms :
         /\ lobby = Filled(n)
         /\ rooms = [r \in Rooms |-> IF r < n THEN OldRoom ELSE Missing]
         /\ lobbies = {Filled(k) : k \in 0..n}
              \cup {[Filled(k) EXCEPT ![k] = "open"] : k \in 0..(n - 1)}
    /\ phase = [d \in Devices |-> "menu"]
    /\ userLoaded = [d \in Devices |-> FALSE]
    /\ snapshot = [d \in Devices |-> EmptyLobby]
    /\ room = [d \in Devices |-> 0]
    /\ role = [d \in Devices |-> "none"]
    /\ pend = [d \in Devices |-> <<>>]
    /\ seen = [d \in Devices |-> Missing]
    /\ vc = [d \in Devices |-> "none"]
    /\ names = [d \in Devices |-> NoNames]
    /\ outdated = FALSE

-----------------------------------------------------------------------------
(* Taking a seat.                                                          *)

\* The callback of loadUserDataFromFirebase.
LoadUser(d) ==
    /\ phase[d] \notin {"hung", "dead"}
    /\ ~userLoaded[d]
    /\ userLoaded' = [userLoaded EXCEPT ![d] = TRUE]
    /\ UNCHANGED <<serverVars, phase, snapshot, room, role, pend, seen, gameVars, history>>

\* The Multiplayer button draws the curtains and asks for the lobby.
MultiplayerQueue(d) ==
    /\ phase[d] = "menu"
    /\ phase' = [phase EXCEPT ![d] = "reading"]
    /\ UNCHANGED <<serverVars, userLoaded, snapshot, room, role, pend, seen, gameVars, history>>

\* d has read a lobby that its own write is still to change.
HasLobbyWrite(d) == pend[d] # <<>> /\ Head(pend[d]) \in LobbyWrites
Deciding(d) == phase[d] = "deciding" \/ HasLobbyWrite(d)

\* The server answers the read of the lobby.
ServeLobby(d) ==
    /\ phase[d] = "reading"
    /\ phase' = [phase EXCEPT ![d] = "deciding"]
    /\ snapshot' = [snapshot EXCEPT ![d] = lobby]
    /\ outdated' = (outdated \/ \E e \in Devices \ {d} : Deciding(e))
    /\ UNCHANGED <<serverVars, userLoaded, room, role, pend, seen, gameVars, lobbies>>

\* The lobby after a write about room i.  The first write replaces the
\* document, the others update one field of it.
LobbyAfter_SetData(base, write, i) ==
    CASE write \in {"createLobby", "openHost"} -> [EmptyLobby EXCEPT ![i] = "open"]
      [] write = "takeGuest" -> [base EXCEPT ![i] = "guest"]
      [] OTHER -> base

LobbyAfter_SeatKept(base, write, i) ==
    CASE write = "createLobby" -> [EmptyLobby EXCEPT ![0] = "open"]
      [] write = "openHost"    -> [base EXCEPT ![i] = "open"]
      [] OTHER -> base

LobbyAfter(base, write, i) ==
    CASE write = "createLobby" -> [EmptyLobby EXCEPT ![0] = "open"]
      [] write = "openHost"    -> [base EXCEPT ![i] = "open"]
      [] write = "takeGuest"   -> [base EXCEPT ![i] = "guest"]
      [] OTHER -> base

\* What the cache of a phone may show of the lobby: one that was once read from
\* the server, below the write of an earlier visit that is still stored.  It is
\* no older than the lobby that write was decided on.
CachedLobbies ==
    lobbies \cup
    UNION { {LobbyAfter(base, Head(pend[e]), room[e]) :
               base \in {l \in lobbies : l # EmptyLobby \/ Head(pend[e]) = "createLobby"}} :
            e \in {c \in Devices : phase[c] = "dead" /\ HasLobbyWrite(c)} }

\* A device that is offline is answered from its cache, without an error.
CachedLobby(d) ==
    /\ MayFail
    /\ phase[d] = "reading"
    /\ phase' = [phase EXCEPT ![d] = "deciding"]
    /\ \E l \in CachedLobbies \ {lobby} : snapshot' = [snapshot EXCEPT ![d] = l]
    /\ outdated' = TRUE
    /\ UNCHANGED <<serverVars, userLoaded, room, role, pend, seen, gameVars, lobbies>>

\* The read fails, the cache being empty or the lobby missing altogether: the
\* callback only logs, and the curtains stay drawn.
ReadLobbyFails(d) ==
    /\ MayFail
    /\ phase[d] = "reading"
    /\ phase' = [phase EXCEPT ![d] = "hung"]
    /\ UNCHANGED <<serverVars, userLoaded, snapshot, room, role, pend, seen, gameVars, history>>

\* The forced cast of host0 finds a string, or is not reached.
Readable(snap) == snap = EmptyLobby \/ snap[0] # "none"

\* Variants of definitions, named Definition_Change, are only used to see
\* that a property notices the change.
IsSeat_OpensAnother(snap, i) ==
    snap[i] = "none" /\ \A j \in Rooms : j < i => snap[j] # "none"

\* Where the loop of assignHostGuest stops: the first room whose field is not
\* "guest".
IsSeat(snap, i) == snap[i] # "guest" /\ \A j \in Rooms : j < i => snap[j] = "guest"

SeatWrite_AlwaysGuest(snap, i) ==
    IF snap = EmptyLobby THEN "createLobby" ELSE "takeGuest"

SeatWrite(snap, i) ==
    IF snap = EmptyLobby THEN "createLobby"
    ELSE IF snap[i] = "open" THEN "takeGuest" ELSE "openHost"

RoleOf_Misspelt(write) == IF write = "takeGuest" THEN "Guest" ELSE "host"

RoleOf(write) == IF write = "takeGuest" THEN "guest" ELSE "host"

EnterRoom(write) == IF write = "takeGuest" THEN "joinRoom" ELSE "createRoom"

\* The callback of the read: assignHostGuest, connectToRoom and initializeHost
\* or initializeGuest.  A host's listener reports the room it just wrote as
\* added at once, from the cache.
AssignHostGuest(d) ==
    /\ phase[d] = "deciding" /\ userLoaded[d]
    /\ Readable(snapshot[d])
    /\ \E i \in Rooms :
         LET write == SeatWrite(snapshot[d], i) IN
         /\ IsSeat(snapshot[d], i)
         /\ room' = [room EXCEPT ![d] = i]
         /\ role' = [role EXCEPT ![d] = RoleOf(write)]
         /\ pend' = [pend EXCEPT ![d] = <<write, EnterRoom(write)>>]
         /\ seen' = [seen EXCEPT ![d] = IF RoleOf(write) = "host" THEN NewRoom(d) ELSE Missing]
    /\ phase' = [phase EXCEPT ![d] = "seated"]
    /\ snapshot' = [snapshot EXCEPT ![d] = EmptyLobby]
    /\ UNCHANGED <<serverVars, userLoaded, gameVars, history>>

\* A forced cast of assignHostGuest or of initializeHost and initializeGuest
\* finds no string and ends the application: host0 is not in the lobby, or the
\* user's data has not arrived.  In the second case the seat is already
\* written, and the write may or may not have reached the disk.
AssignTraps(d) ==
    /\ phase[d] = "deciding"
    /\ ~Readable(snapshot[d]) \/ ~userLoaded[d]
    /\ \/ UNCHANGED <<room, role, pend>>
       \/ /\ Readable(snapshot[d])
          /\ \E i \in Rooms :
               LET write == SeatWrite(snapshot[d], i) IN
               /\ IsSeat(snapshot[d], i)
               /\ room' = [room EXCEPT ![d] = i]
               /\ role' = [role EXCEPT ![d] = RoleOf(write)]
               /\ pend' = [pend EXCEPT ![d] = <<write>>]
    /\ phase' = [phase EXCEPT ![d] = "dead"]
    /\ snapshot' = [snapshot EXCEPT ![d] = EmptyLobby]
    /\ UNCHANGED <<serverVars, userLoaded, seen, gameVars, history>>

\* The document of d's room after a write of d.  An update of a missing
\* document is rejected.
RoomAfter_JoinReplaces(write, d) ==
    LET doc == rooms[room[d]] IN
    CASE write = "createRoom" -> NewRoom(d)
      [] write = "joinRoom" /\ doc # Missing -> [doc EXCEPT !.host = Nobody, !.guest = d]
      [] write = "activate" /\ doc # Missing -> [doc EXCEPT !.gameStatus = "Active"]
      [] OTHER -> doc

RoomAfter(write, d) ==
    LET doc == rooms[room[d]] IN
    CASE write = "createRoom" -> NewRoom(d)
      [] write = "joinRoom" /\ doc # Missing -> [doc EXCEPT !.guest = d]
      [] write = "activate" /\ doc # Missing -> [doc EXCEPT !.gameStatus = "Active"]
      [] OTHER -> doc

\* The server applies the next write of d.  Writes outlive the application:
\* the client sends what it stored when it is started again.
ApplyWrite(d) ==
    /\ pend[d] # <<>>
    /\ pend' = [pend EXCEPT ![d] = Tail(@)]
    /\ lobby' = LobbyAfter(lobby, Head(pend[d]), room[d])
    /\ rooms' = [rooms EXCEPT ![room[d]] = RoomAfter(Head(pend[d]), d)]
    /\ lobbies' = lobbies \cup {lobby'}
    /\ UNCHANGED <<queueVars, seen, gameVars, outdated>>

-----------------------------------------------------------------------------
(* Waiting in the room.                                                    *)

IsPending(d, write) == \E i \in 1..Len(pend[d]) : pend[d][i] = write

\* The room's document as d sees it: its pending writes over the server's.
LocalView(d) ==
    LET base == IF IsPending(d, "createRoom") THEN NewRoom(d) ELSE rooms[room[d]] IN
    IF base = Missing THEN Missing
    ELSE [base EXCEPT !.guest = IF IsPending(d, "joinRoom") THEN d ELSE @,
                      !.gameStatus = IF IsPending(d, "activate") THEN "Active" ELSE @]

\* The listener stands until GameVC got its data.
Listening(d) == phase[d] = "seated" /\ vc[d] \in {"none", "presenting", "blank"}

RoomAdded_Handled(d) ==
    /\ Listening(d)
    /\ seen[d] = Missing /\ LocalView(d) # Missing
    /\ seen' = [seen EXCEPT ![d] = LocalView(d)]
    /\ vc' = IF vc[d] = "none" THEN [vc EXCEPT ![d] = "presenting"] ELSE vc
    /\ UNCHANGED <<serverVars, queueVars, pend, names, history>>

\* The first report of a document has type added, which neither listener
\* handles.
RoomAdded(d) ==
    /\ Listening(d)
    /\ seen[d] = Missing /\ LocalView(d) # Missing
    /\ seen' = [seen EXCEPT ![d] = LocalView(d)]
    /\ UNCHANGED <<serverVars, queueVars, pend, gameVars, history>>

RoomModified_WhenActive(d) ==
    /\ Listening(d)
    /\ seen[d] # Missing /\ LocalView(d) # seen[d] /\ LocalView(d).gameStatus = "Active"
    /\ seen' = [seen EXCEPT ![d] = LocalView(d)]
    /\ pend' = IF role[d] = "host" THEN [pend EXCEPT ![d] = Append(@, "activate")] ELSE pend
    /\ vc' = IF vc[d] = "none" THEN [vc EXCEPT ![d] = "presenting"] ELSE vc
    /\ UNCHANGED <<serverVars, queueVars, names, history>>

\* listenForGuest on a host, listenForHost on a guest: the room changed.  A
\* second report finds GameVC already presented.
RoomModified(d) ==
    /\ Listening(d)
    /\ seen[d] # Missing /\ LocalView(d) # seen[d]
    /\ seen' = [seen EXCEPT ![d] = LocalView(d)]
    /\ pend' = IF role[d] = "host" THEN [pend EXCEPT ![d] = Append(@, "activate")] ELSE pend
    /\ vc' = IF vc[d] = "none" THEN [vc EXCEPT ![d] = "presenting"] ELSE vc
    /\ UNCHANGED <<serverVars, queueVars, names, history>>

\* The callback of the read in hostScreenTransition and guestScreenTransition
\* passes the room's data to GameVC and removes the listener.  A GameVC that
\* already appeared gets it too late to start its own listener.  A device that
\* is offline is answered with what its listener has last seen; a read that
\* fails leaves GameVC without data, as one that is never answered.
TransitionData(d) ==
    /\ phase[d] = "seated" /\ vc[d] \in {"presenting", "blank"}
    /\ \E doc \in {LocalView(d)} \cup (IF MayFail THEN {seen[d]} ELSE {}) :
         /\ doc # Missing
         /\ names' = [names EXCEPT ![d] = [host |-> doc.host, guest |-> doc.guest]]
    /\ vc' = [vc EXCEPT ![d] = IF @ = "presenting" THEN "configured" ELSE "late"]
    /\ UNCHANGED <<serverVars, queueVars, pend, seen, history>>

\* viewDidAppear of GameVC: initializePlayerName starts the match, or alerts
\* an unspecified game mode when the data has not come.
GameAppears(d) ==
    /\ phase[d] = "seated" /\ vc[d] \in {"presenting", "configured"}
    /\ vc' = [vc EXCEPT ![d] = IF @ = "configured" THEN "playing" ELSE "blank"]
    /\ UNCHANGED <<serverVars, queueVars, pend, seen, names, history>>

\* The application is closed or killed; its writes stay on the disk.
Quit(d) ==
    /\ MayFail
    /\ phase[d] # "dead"
    /\ phase' = [phase EXCEPT ![d] = "dead"]
    /\ snapshot' = [snapshot EXCEPT ![d] = EmptyLobby]
    /\ UNCHANGED <<serverVars, userLoaded, room, role, pend, seen, gameVars, history>>

-----------------------------------------------------------------------------
Next == \E d \in Devices :
    \/ LoadUser(d)
    \/ MultiplayerQueue(d)
    \/ ServeLobby(d)
    \/ CachedLobby(d)
    \/ ReadLobbyFails(d)
    \/ AssignHostGuest(d)
    \/ AssignTraps(d)
    \/ ApplyWrite(d)
    \/ RoomAdded(d)
    \/ RoomModified(d)
    \/ TransitionData(d)
    \/ GameAppears(d)
    \/ Quit(d)

Spec == Init /\ [][Next]_vars

\* The network delivers and the callbacks run; what the user does and what
\* fails is not fair.
Fairness == \A d \in Devices :
    /\ WF_vars(LoadUser(d))
    /\ WF_vars(ServeLobby(d))
    /\ WF_vars(AssignHostGuest(d))
    /\ WF_vars(ApplyWrite(d))
    /\ WF_vars(RoomAdded(d))
    /\ WF_vars(RoomModified(d))
    /\ WF_vars(TransitionData(d))
    /\ WF_vars(GameAppears(d))

FairSpec == Spec /\ Fairness

-----------------------------------------------------------------------------
TypeOK ==
    /\ lobby \in [Rooms -> Seats]
    /\ rooms \in [Rooms -> RoomDocs]
    /\ phase \in [Devices -> {"menu", "reading", "deciding", "seated", "hung", "dead"}]
    /\ userLoaded \in [Devices -> BOOLEAN]
    /\ snapshot \in [Devices -> [Rooms -> Seats]]
    /\ room \in [Devices -> Rooms]
    /\ role \in [Devices -> {"none", "host", "guest"}]
    /\ pend \in [Devices -> Seq(Writes)]
    /\ seen \in [Devices -> RoomDocs]
    /\ vc \in [Devices -> {"none", "presenting", "configured", "playing", "blank", "late"}]
    /\ names \in [Devices -> NameData]
    /\ lobbies \subseteq [Rooms -> Seats] /\ outdated \in BOOLEAN

\* Every lobby a device decides on is empty or has host0, whatever the races and
\* however old the cache it comes from:
\* the forced cast of the loop in assignHostGuest never fails.
LobbyReadable == \A d \in Devices :
    phase[d] = "deciding" => Readable(snapshot[d])

HasSeat(d, r, who) == role[d] = who /\ room[d] = r

\* Unless a device decided on an outdated lobby, no two devices are given the
\* same seat of the same room.
SeatsAreExclusive ==
    ~outdated => \A d, e \in Devices :
        d # e /\ role[d] # "none" => ~HasSeat(e, room[d], role[d])

\* Unless a device decided on an outdated lobby, a guest is only sent to a room
\* a host was given.
GuestHasHost ==
    ~outdated => \A d \in Devices :
        role[d] = "guest" => \E e \in Devices : HasSeat(e, room[d], "host")

\* Unless a device decided on an outdated lobby, a GameVC that was given names
\* got those of the host and of the guest of its room, on both sides, although
\* they are read at different moments, from the server or from a cache.
NamesAgree ==
    ~outdated => \A d \in Devices :
        vc[d] \in {"configured", "playing", "late"} =>
            \E h, g \in Devices :
                /\ names[d] = [host |-> h, guest |-> g] /\ d \in {h, g}
                /\ HasSeat(h, room[d], "host") /\ HasSeat(g, room[d], "guest")

\* Unless a device decided on an outdated lobby, a guest opens GameVC only after
\* its host did.
GuestFollowsHost ==
    ~outdated => \A d \in Devices :
        role[d] = "guest" /\ vc[d] # "none" =>
            \E e \in Devices : HasSeat(e, room[d], "host") /\ vc[e] # "none"

\* Who was given a seat of a room; without a race there is at most one.
Holder(r, who) ==
    IF \E d \in Devices : HasSeat(d, r, who)
    THEN CHOOSE d \in Devices : HasSeat(d, r, who)
    ELSE Nobody

Given(who) == [r \in Rooms |-> Holder(r, who)]
Shown == {d \in Devices : vc[d] # "none"}
Closed == {r \in Rooms : rooms[r] = OldRoom}

\* Unless a device decided on an outdated lobby, the queue is what its players
\* see of it: Pairing.  The lobby, the rooms, the writes on their way and the
\* listeners are how it is made, and neither failing reads nor applications that
\* end show in it.
Queue == INSTANCE Pairing WITH
    closed <- Closed, host <- Given("host"), guest <- Given("guest"),
    shown <- Shown, told <- names

PairsInOrder == Queue!Spec

Opened(d) == vc[d] \in {"playing", "late"}

\* A host whose room a guest wrote its name into opens GameVC with the room's
\* data, if no device decided on an outdated lobby and nothing fails.
HostEventuallyOpens == \A d \in Devices :
    (role[d] = "host" /\ rooms[room[d]].host = d /\ rooms[room[d]].guest # Nobody)
        ~> (Opened(d) \/ outdated)

-----------------------------------------------------------------------------
(* What a log line of the code claims and the code does not ensure.        *)

\* initializeGuest logs that the guest is connected to its room; then the
\* room's document is there when its name is written into it, at least while
\* the host it was paired with is there.
GuestJoinsExistingRoom ==
    [][ \A d \in Devices :
          ( /\ pend[d] # <<>> /\ pend'[d] = Tail(pend[d]) /\ Head(pend[d]) = "joinRoom"
            /\ \E e \in Devices : HasSeat(e, room[d], "host") /\ phase[e] = "seated" )
              => rooms[room[d]] # Missing ]_vars
=============================================================================
