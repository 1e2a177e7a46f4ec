------------------------- MODULE MatchmakingProofs -------------------------
(***************************************************************************)
(* Theorems about the multiplayer queue, for every set of devices and every *)
(* number of rooms.                                                        *)
(***************************************************************************)
EXTENDS Matchmaking, TLAPS

(* ------------------------------- types --------------------------------- *)

\* The documents written and seen are room documents.
LEMMA DocTypes ==
    /\ Missing \in RoomDocs /\ OldRoom \in RoomDocs
    /\ \A d \in Devices : NewRoom(d) \in RoomDocs
BY DEF Missing, OldRoom, NewRoom, RoomDocs

LEMMA LocalViewType ==
    ASSUME TypeOK, NEW d \in Devices
    PROVE  LocalView(d) \in RoomDocs
<1>1. rooms[room[d]] \in RoomDocs
    BY DEF TypeOK
<1> DEFINE base == IF IsPending(d, "createRoom") THEN NewRoom(d) ELSE rooms[room[d]]
<1>2. base \in RoomDocs
    BY <1>1, DocTypes
<1>3. [base EXCEPT !.guest = IF IsPending(d, "joinRoom") THEN d ELSE @,
                   !.gameStatus = IF IsPending(d, "activate") THEN "Active" ELSE @]
        \in RoomDocs
    <2> HIDE DEF base
    <2>q. QED BY <1>2 DEF RoomDocs
<1>q. QED BY <1>2, <1>3, DocTypes DEF LocalView

LEMMA RoomAfterType ==
    ASSUME TypeOK, NEW d \in Devices, NEW write
    PROVE  RoomAfter(write, d) \in RoomDocs
<1>1. rooms[room[d]] \in RoomDocs
    BY DEF TypeOK
<1>2. [rooms[room[d]] EXCEPT !.guest = d] \in RoomDocs
    BY <1>1 DEF RoomDocs
<1>3. [rooms[room[d]] EXCEPT !.gameStatus = "Active"] \in RoomDocs
    BY <1>1 DEF RoomDocs
<1>q. QED BY <1>1, <1>2, <1>3, DocTypes DEF RoomAfter

LEMMA LobbyAfterType ==
    ASSUME NEW base \in [Rooms -> Seats], NEW i \in Rooms, NEW write
    PROVE  LobbyAfter(base, write, i) \in [Rooms -> Seats]
BY RoomsAssumption DEF LobbyAfter, EmptyLobby, Seats, Rooms

\* A cache holds a lobby.
LEMMA CacheType ==
    ASSUME TypeOK, NEW l \in CachedLobbies
    PROVE  l \in [Rooms -> Seats]
<1>1. CASE l \in lobbies
    BY <1>1 DEF TypeOK
<1>2. ASSUME NEW e \in Devices, NEW base \in lobbies,
             l = LobbyAfter(base, Head(pend[e]), room[e])
      PROVE  l \in [Rooms -> Seats]
    <2>1. base \in [Rooms -> Seats] /\ room[e] \in Rooms
        BY DEF TypeOK
    <2>q. QED BY <1>2, <2>1, LobbyAfterType
<1>q. QED BY <1>1, <1>2 DEF CachedLobbies

LEMMA SeatTypes ==
    ASSUME NEW snap, NEW i
    PROVE  /\ SeatWrite(snap, i) \in LobbyWrites
           /\ RoleOf(SeatWrite(snap, i)) \in {"host", "guest"}
           /\ EnterRoom(SeatWrite(snap, i)) \in {"createRoom", "joinRoom"}
BY DEF SeatWrite, LobbyWrites, RoleOf, EnterRoom

LEMMA TypeInit == Init => TypeOK
<1> SUFFICES ASSUME Init PROVE TypeOK
    OBVIOUS
<1>1. /\ lobby \in [Rooms -> Seats]
      /\ rooms \in [Rooms -> RoomDocs]
      /\ lobbies \subseteq [Rooms -> Seats]
    BY DocTypes DEF Init, Filled, Seats
<1>2. 0 \in Rooms /\ EmptyLobby \in [Rooms -> Seats] /\ NoNames \in NameData
    BY RoomsAssumption DEF Rooms, EmptyLobby, Seats, NoNames, NameData
<1>3. pend \in [Devices -> Seq(Writes)]
    BY DEF Init
<1>q. QED BY <1>1, <1>2, <1>3, DocTypes DEF Init, TypeOK

LEMMA TypeStep == TypeOK /\ [Next]_vars => TypeOK'
<1> SUFFICES ASSUME TypeOK, [Next]_vars PROVE TypeOK'
    OBVIOUS
<1> USE DEF serverVars, queueVars, gameVars, history
<1>1. EmptyLobby \in [Rooms -> Seats]
    BY DEF EmptyLobby, Seats
<1>2. ASSUME NEW d \in Devices,
             \/ LoadUser(d) \/ MultiplayerQueue(d) \/ ServeLobby(d) \/ CachedLobby(d)
             \/ ReadLobbyFails(d) \/ GameAppears(d) \/ Quit(d)
      PROVE  TypeOK'
    <2>1. CASE LoadUser(d) \/ MultiplayerQueue(d) \/ ReadLobbyFails(d)
        BY <2>1 DEF TypeOK, LoadUser, MultiplayerQueue, ReadLobbyFails
    <2>2. CASE ServeLobby(d)
        BY <2>2 DEF TypeOK, ServeLobby
    <2>3. CASE GameAppears(d)
        BY <2>3 DEF TypeOK, GameAppears
    <2>4. CASE Quit(d)
        BY <1>1, <2>4 DEF TypeOK, Quit
    <2>5. CASE CachedLobby(d)
        BY <2>5, CacheType DEF TypeOK, CachedLobby
    <2>q. QED BY <1>2, <2>1, <2>2, <2>3, <2>4, <2>5
<1>3. ASSUME NEW d \in Devices, AssignHostGuest(d) PROVE TypeOK'
    <2>1. PICK i \in Rooms :
            LET write == SeatWrite(snapshot[d], i) IN
            /\ room' = [room EXCEPT ![d] = i]
            /\ role' = [role EXCEPT ![d] = RoleOf(write)]
            /\ pend' = [pend EXCEPT ![d] = <<write, EnterRoom(write)>>]
            /\ seen' = [seen EXCEPT ![d] =
                          IF RoleOf(write) = "host" THEN NewRoom(d) ELSE Missing]
        BY <1>3 DEF AssignHostGuest
    <2> DEFINE write == SeatWrite(snapshot[d], i)
    <2>2. <<write, EnterRoom(write)>> \in Seq(Writes)
        <3>1. write \in Writes /\ EnterRoom(write) \in Writes
            BY SeatTypes DEF Writes
        <3> HIDE DEF write
        <3>q. QED BY <3>1
    <2>3. pend' \in [Devices -> Seq(Writes)]
        BY <2>1, <2>2 DEF TypeOK
    <2>4. /\ role' \in [Devices -> {"none", "host", "guest"}]
          /\ room' \in [Devices -> Rooms]
        BY <2>1, SeatTypes DEF TypeOK
    <2>5. seen' \in [Devices -> RoomDocs]
        BY <2>1, DocTypes DEF TypeOK
    <2>6. /\ phase' \in [Devices -> {"menu", "reading", "deciding", "seated", "hung", "dead"}]
          /\ snapshot' \in [Devices -> [Rooms -> Seats]]
          /\ UNCHANGED <<serverVars, userLoaded, gameVars, history>>
        BY <1>1, <1>3 DEF AssignHostGuest, TypeOK
    <2>q. QED BY <2>3, <2>4, <2>5, <2>6 DEF TypeOK
<1>4. ASSUME NEW d \in Devices, AssignTraps(d) PROVE TypeOK'
    <2>1. /\ role' \in [Devices -> {"none", "host", "guest"}]
          /\ room' \in [Devices -> Rooms]
          /\ pend' \in [Devices -> Seq(Writes)]
        <3>1. CASE UNCHANGED <<room, role, pend>>
            BY <3>1 DEF TypeOK
        <3>2. ASSUME NEW i \in Rooms,
                     room' = [room EXCEPT ![d] = i],
                     role' = [role EXCEPT ![d] = RoleOf(SeatWrite(snapshot[d], i))],
                     pend' = [pend EXCEPT ![d] = <<SeatWrite(snapshot[d], i)>>]
              PROVE  /\ role' \in [Devices -> {"none", "host", "guest"}]
                     /\ room' \in [Devices -> Rooms]
                     /\ pend' \in [Devices -> Seq(Writes)]
            <4>1. <<SeatWrite(snapshot[d], i)>> \in Seq(Writes)
                BY SeatTypes DEF Writes
            <4>q. QED BY <3>2, <4>1, SeatTypes DEF TypeOK
        <3>q. QED BY <1>4, <3>1, <3>2 DEF AssignTraps
    <2>2. /\ phase' \in [Devices -> {"menu", "reading", "deciding", "seated", "hung", "dead"}]
          /\ snapshot' \in [Devices -> [Rooms -> Seats]]
          /\ UNCHANGED <<serverVars, userLoaded, seen, gameVars, history>>
        BY <1>1, <1>4 DEF AssignTraps, TypeOK
    <2>q. QED BY <2>1, <2>2 DEF TypeOK
<1>5. ASSUME NEW d \in Devices, ApplyWrite(d) PROVE TypeOK'
    <2>1. /\ pend[d] \in Seq(Writes) /\ pend[d] # <<>>
          /\ room[d] \in Rooms
        BY <1>5 DEF ApplyWrite, TypeOK
    <2>2. Tail(pend[d]) \in Seq(Writes)
        BY <2>1
    <2>3. pend' \in [Devices -> Seq(Writes)]
        BY <1>5, <2>2 DEF ApplyWrite, TypeOK
    <2>4. lobby' \in [Rooms -> Seats] /\ lobbies' \subseteq [Rooms -> Seats]
        <3>1. lobby' \in [Rooms -> Seats]
            BY <1>5, <2>1, LobbyAfterType DEF ApplyWrite, TypeOK
        <3>q. QED BY <1>5, <3>1 DEF ApplyWrite, TypeOK
    <2>5. rooms' \in [Rooms -> RoomDocs]
        BY <1>5, <2>1, RoomAfterType DEF ApplyWrite, TypeOK
    <2>q. QED BY <1>5, <2>3, <2>4, <2>5 DEF ApplyWrite, TypeOK
<1>6. ASSUME NEW d \in Devices, RoomAdded(d) PROVE TypeOK'
    BY <1>6, LocalViewType DEF RoomAdded, TypeOK
<1>7. ASSUME NEW d \in Devices, RoomModified(d) PROVE TypeOK'
    <2>1. Append(pend[d], "activate") \in Seq(Writes)
        BY DEF TypeOK, Writes
    <2>2. pend' \in [Devices -> Seq(Writes)]
        BY <1>7, <2>1 DEF RoomModified, TypeOK
    <2>3. vc' \in [Devices -> {"none", "presenting", "configured", "playing", "blank", "late"}]
        BY <1>7 DEF RoomModified, TypeOK
    <2>q. QED BY <1>7, <2>2, <2>3, LocalViewType DEF RoomModified, TypeOK
<1>8. ASSUME NEW d \in Devices, TransitionData(d) PROVE TypeOK'
    <2>1. /\ [host |-> LocalView(d).host, guest |-> LocalView(d).guest] \in NameData
          /\ [host |-> seen[d].host, guest |-> seen[d].guest] \in NameData
        BY LocalViewType DEF RoomDocs, NameData, TypeOK
    <2>2. PICK doc \in {LocalView(d), seen[d]} :
            names' = [names EXCEPT ![d] = [host |-> doc.host, guest |-> doc.guest]]
        BY <1>8 DEF TransitionData
    <2>3. names' \in [Devices -> NameData]
        BY <2>1, <2>2 DEF TypeOK
    <2>4. vc' \in [Devices -> {"none", "presenting", "configured", "playing", "blank", "late"}]
        BY <1>8 DEF TransitionData, TypeOK
    <2>q. QED BY <1>8, <2>3, <2>4 DEF TransitionData, TypeOK
<1>9. CASE UNCHANGED vars
    BY <1>9 DEF vars, TypeOK
<1>q. QED BY <1>2, <1>3, <1>4, <1>5, <1>6, <1>7, <1>8, <1>9 DEF Next

\* Every variable of the queue keeps its type.
THEOREM QueueTypeCorrect == Spec => []TypeOK
BY TypeInit, TypeStep, PTL DEF Spec

(* ------------------------ host0 is in the lobby ------------------------- *)

\* The lobby with nothing but the first host, which a device may also see before
\* the server has it: in its cache, as its own stored write.
JustOpened == [EmptyLobby EXCEPT ![0] = "open"]

\* Why LobbyReadable is kept: once host0 is in the lobby it stays, a device
\* that read it and one whose write names a later room both know that it is
\* there, and every lobby a cache may hold has it or is empty.
HostZero ==
    /\ Readable(lobby)
    /\ \A l \in lobbies : l # EmptyLobby => l[0] # "none" /\ lobby[0] # "none"
    /\ \A d \in Devices : phase[d] = "deciding" =>
         /\ Readable(snapshot[d])
         /\ snapshot[d] # EmptyLobby => lobby[0] # "none" \/ snapshot[d] = JustOpened
    /\ \A d \in Devices : IsPending(d, "openHost") \/ IsPending(d, "takeGuest") =>
         lobby[0] # "none" \/ room[d] = 0

LEMMA HeadIsPending ==
    ASSUME TypeOK, NEW d \in Devices, pend[d] # <<>>
    PROVE  IsPending(d, Head(pend[d]))
<1>1. pend[d] \in Seq(Writes)
    BY DEF TypeOK
<1>2. 1 \in 1..Len(pend[d]) /\ pend[d][1] = Head(pend[d])
    BY <1>1
<1>q. QED BY <1>2 DEF IsPending

LEMMA TailIsPending ==
    ASSUME TypeOK, NEW d \in Devices, ApplyWrite(d), NEW e \in Devices, NEW write,
           IsPending(e, write)'
    PROVE  IsPending(e, write)
<1>1. pend[e] \in Seq(Writes) /\ pend[d] \in Seq(Writes)
    BY DEF TypeOK
<1>2. pend' = [pend EXCEPT ![d] = Tail(@)] /\ pend[d] # <<>>
    BY DEF ApplyWrite
<1>3. CASE e # d
    <2>1. pend'[e] = pend[e]
        BY <1>2, <1>3 DEF TypeOK
    <2>q. QED BY <2>1 DEF IsPending
<1>4. CASE e = d
    <2>1. pend'[e] = Tail(pend[e])
        BY <1>2, <1>4 DEF TypeOK
    <2>2. PICK i \in 1..Len(Tail(pend[e])) : Tail(pend[e])[i] = write
        BY <2>1 DEF IsPending
    <2>3. i + 1 \in 1..Len(pend[e]) /\ pend[e][i + 1] = write
        BY <1>1, <1>2, <1>4, <2>2
    <2>q. QED BY <2>3 DEF IsPending
<1>q. QED BY <1>3, <1>4

LEMMA HostZeroStays ==
    ASSUME TypeOK, NEW d \in Devices, ApplyWrite(d), lobby[0] # "none"
    PROVE  lobby'[0] # "none"
BY RoomsAssumption DEF TypeOK, ApplyWrite, LobbyAfter, EmptyLobby, Rooms

LEMMA HostZeroInit == Init => HostZero
<1> SUFFICES ASSUME Init PROVE HostZero
    OBVIOUS
<1>1. PICK n \in 0..OldRooms :
         /\ lobby = Filled(n)
         /\ lobbies = {Filled(k) : k \in 0..n}
              \cup {[Filled(k) EXCEPT ![k] = "open"] : k \in 0..(n - 1)}
    BY DEF Init
<1>2. 0 \in Rooms /\ Filled(0) = EmptyLobby
    BY RoomsAssumption DEF Filled, EmptyLobby, Rooms
<1>3. \A k \in 0..n : k # 0 => Filled(k)[0] # "none"
    BY <1>2 DEF Filled
<1>4. \A k \in 0..(n - 1) : [Filled(k) EXCEPT ![k] = "open"][0] # "none"
    BY <1>2, RoomsAssumption DEF Filled, Rooms
<1>5. n # 0 => lobby[0] # "none"
    BY <1>1, <1>3
<1>6. Readable(lobby)
    BY <1>1, <1>2, <1>5 DEF Readable
<1>7. ASSUME NEW l \in lobbies, l # EmptyLobby
      PROVE  l[0] # "none" /\ lobby[0] # "none"
    <2>1. CASE n = 0
        BY <1>1, <1>2, <1>7, <2>1
    <2>2. CASE n # 0
        BY <1>1, <1>2, <1>3, <1>4, <1>5, <1>7, <2>2
    <2>q. QED BY <2>1, <2>2
<1>q. QED BY <1>6, <1>7 DEF HostZero, IsPending, Init

\* A write over a lobby with host0 leaves it there, the first write puts it there.
LEMMA WrittenOver ==
    ASSUME NEW base \in [Rooms -> Seats], NEW i \in Rooms, NEW write \in LobbyWrites
    PROVE  /\ base[0] # "none" => LobbyAfter(base, write, i)[0] # "none"
           /\ write = "createLobby" => LobbyAfter(base, write, i) = JustOpened
           /\ i = 0 => LobbyAfter(base, write, i)[0] # "none"
           /\ JustOpened[0] = "open"
<1>1. 0 \in Rooms
    BY RoomsAssumption DEF Rooms
<1>2. JustOpened[0] = "open"
    BY <1>1 DEF JustOpened, EmptyLobby
<1>3. CASE write = "createLobby"
    BY <1>2, <1>3 DEF LobbyAfter, JustOpened
<1>4. CASE write # "createLobby"
    BY <1>1, <1>2, <1>4 DEF LobbyAfter, LobbyWrites
<1>q. QED BY <1>3, <1>4

\* What a cache shows is empty, has host0 as the lobby does, or is the first
\* write of an earlier visit.
LEMMA CacheReadable ==
    ASSUME TypeOK, HostZero, NEW l \in CachedLobbies
    PROVE  /\ Readable(l)
           /\ l # EmptyLobby => lobby[0] # "none" \/ l = JustOpened
<1>1. CASE l \in lobbies
    BY <1>1 DEF HostZero, Readable
<1>2. ASSUME NEW e \in Devices, HasLobbyWrite(e), NEW base \in lobbies,
             base # EmptyLobby \/ Head(pend[e]) = "createLobby",
             l = LobbyAfter(base, Head(pend[e]), room[e])
      PROVE  /\ Readable(l)
             /\ lobby[0] # "none" \/ l = JustOpened
    <2>1. base \in [Rooms -> Seats] /\ room[e] \in Rooms /\ Head(pend[e]) \in LobbyWrites
        BY <1>2 DEF TypeOK, HasLobbyWrite
    <2>2. base # EmptyLobby => base[0] # "none" /\ lobby[0] # "none"
        BY DEF HostZero
    <2>q. QED BY <1>2, <2>1, <2>2, WrittenOver DEF Readable
<1>q. QED BY <1>1, <1>2 DEF CachedLobbies

\* A device that sees nothing but the first host is sent to its room.
LEMMA JustOpenedSeat ==
    ASSUME NEW i \in Rooms, IsSeat(JustOpened, i) PROVE i = 0
<1>1. 0 \in Rooms /\ JustOpened[0] = "open"
    BY RoomsAssumption DEF Rooms, JustOpened, EmptyLobby
<1>q. QED BY <1>1 DEF IsSeat, Rooms

LEMMA HostZeroStep == TypeOK /\ HostZero /\ [Next]_vars => HostZero'
<1> SUFFICES ASSUME TypeOK, HostZero, [Next]_vars PROVE HostZero'
    OBVIOUS
<1> USE DEF serverVars, queueVars, gameVars, history
<1>1. ASSUME NEW d \in Devices, UNCHANGED <<lobby, lobbies, pend, room>>,
             \/ LoadUser(d) \/ MultiplayerQueue(d) \/ ReadLobbyFails(d)
             \/ RoomAdded(d) \/ TransitionData(d) \/ GameAppears(d) \/ Quit(d)
      PROVE  HostZero'
    <2>1. \A e \in Devices : phase'[e] = "deciding" =>
            phase[e] = "deciding" /\ snapshot'[e] = snapshot[e]
        BY <1>1 DEF TypeOK, LoadUser, MultiplayerQueue, ReadLobbyFails,
                    RoomAdded, TransitionData, GameAppears, Quit
    <2>q. QED BY <1>1, <2>1 DEF HostZero, Readable, IsPending, EmptyLobby, JustOpened
<1>2. ASSUME NEW d \in Devices, ServeLobby(d) \/ CachedLobby(d) PROVE HostZero'
    <2>1. UNCHANGED <<lobby, lobbies, pend, room>>
        BY <1>2 DEF ServeLobby, CachedLobby
    <2>2. \A e \in Devices : phase'[e] = "deciding" =>
            \/ phase[e] = "deciding" /\ snapshot'[e] = snapshot[e]
            \/ snapshot'[e] = lobby
            \/ snapshot'[e] \in CachedLobbies
        BY <1>2 DEF ServeLobby, CachedLobby, TypeOK
    <2>3. \A e \in Devices : phase'[e] = "deciding" =>
            /\ Readable(snapshot'[e])
            /\ snapshot'[e] # EmptyLobby => lobby[0] # "none" \/ snapshot'[e] = JustOpened
        BY <2>2, CacheReadable DEF HostZero, Readable
    <2>q. QED BY <2>1, <2>3 DEF HostZero, Readable, IsPending, EmptyLobby, JustOpened
<1>3. ASSUME NEW d \in Devices, AssignHostGuest(d) \/ AssignTraps(d) PROVE HostZero'
    <2>1. /\ UNCHANGED <<lobby, lobbies>> /\ phase[d] = "deciding"
          /\ \A e \in Devices : phase'[e] = "deciding" =>
               phase[e] = "deciding" /\ snapshot'[e] = snapshot[e]
        BY <1>3 DEF AssignHostGuest, AssignTraps, TypeOK
    <2>2. \/ UNCHANGED <<pend, room>>
          \/ \E i \in Rooms :
               LET write == SeatWrite(snapshot[d], i) IN
               /\ IsSeat(snapshot[d], i)
               /\ room' = [room EXCEPT ![d] = i]
               /\ \/ pend' = [pend EXCEPT ![d] = <<write, EnterRoom(write)>>]
                  \/ pend' = [pend EXCEPT ![d] = <<write>>]
        BY <1>3 DEF AssignHostGuest, AssignTraps
    <2>3. ASSUME NEW e \in Devices,
                 IsPending(e, "openHost")' \/ IsPending(e, "takeGuest")'
          PROVE  lobby[0] # "none" \/ room'[e] = 0
        <3>1. CASE pend'[e] = pend[e] /\ room'[e] = room[e]
            BY <2>3, <3>1 DEF HostZero, IsPending
        <3>2. ASSUME NEW i \in Rooms, e = d, IsSeat(snapshot[d], i), room'[d] = i,
                     \/ pend'[e] = <<SeatWrite(snapshot[d], i),
                                     EnterRoom(SeatWrite(snapshot[d], i))>>
                     \/ pend'[e] = <<SeatWrite(snapshot[d], i)>>
              PROVE  lobby[0] # "none" \/ room'[e] = 0
            <4>1. SeatWrite(snapshot[d], i) \in {"openHost", "takeGuest"}
                BY <2>3, <3>2, SeatTypes DEF IsPending
            <4>2. snapshot[d] # EmptyLobby
                BY <4>1 DEF SeatWrite
            <4>3. lobby[0] # "none" \/ snapshot[d] = JustOpened
                BY <2>1, <4>2 DEF HostZero
            <4>q. QED BY <3>2, <4>3, JustOpenedSeat
        <3>3. pend \in [Devices -> Seq(Writes)] /\ room \in [Devices -> Rooms]
            BY DEF TypeOK
        <3>q. QED BY <2>2, <3>1, <3>2, <3>3
    <2>q. QED BY <2>1, <2>3 DEF HostZero, Readable, EmptyLobby, JustOpened
<1>4. ASSUME NEW d \in Devices, ApplyWrite(d) PROVE HostZero'
    <2>1. UNCHANGED <<phase, snapshot, room>> /\ lobbies' = lobbies \cup {lobby'}
        BY <1>4 DEF ApplyWrite
    <2>2. lobby[0] # "none" => lobby'[0] # "none"
        BY <1>4, HostZeroStays
    <2>3. lobby' = lobby \/ lobby'[0] # "none"
        <3>1. CASE lobby[0] # "none"
            BY <2>2, <3>1
        <3>2. CASE lobby[0] = "none" /\ Head(pend[d]) \in LobbyWrites
            <4>1. Head(pend[d]) \in {"openHost", "takeGuest"} => room[d] = 0
                BY <1>4, <3>2, HeadIsPending DEF HostZero, ApplyWrite
            <4>2. lobby \in [Rooms -> Seats] /\ room[d] \in Rooms
                BY DEF TypeOK
            <4>3. lobby' = LobbyAfter(lobby, Head(pend[d]), room[d])
                BY <1>4 DEF ApplyWrite
            <4>q. QED BY <3>2, <4>1, <4>2, <4>3, WrittenOver DEF LobbyWrites
        <3>3. CASE Head(pend[d]) \notin LobbyWrites
            BY <1>4, <3>3 DEF ApplyWrite, LobbyAfter, LobbyWrites
        <3>q. QED BY <3>1, <3>2, <3>3
    <2>4. ASSUME NEW e \in Devices,
                 IsPending(e, "openHost")' \/ IsPending(e, "takeGuest")'
          PROVE  lobby'[0] # "none" \/ room[e] = 0
        BY <1>4, <2>2, <2>4, TailIsPending DEF HostZero
    <2>5. Readable(lobby')
        BY <2>3 DEF HostZero, Readable
    <2>6. ASSUME NEW l \in lobbies', l # EmptyLobby
          PROVE  l[0] # "none" /\ lobby'[0] # "none"
        BY <2>1, <2>2, <2>5, <2>6 DEF HostZero, Readable
    <2>q. QED BY <2>1, <2>2, <2>4, <2>5, <2>6 DEF HostZero, Readable, EmptyLobby, JustOpened
<1>5. ASSUME NEW d \in Devices, RoomModified(d) PROVE HostZero'
    <2>1. UNCHANGED <<lobby, lobbies, room, phase, snapshot>>
        BY <1>5 DEF RoomModified
    <2>2. ASSUME NEW e \in Devices, NEW write \in {"openHost", "takeGuest"},
                 IsPending(e, write)'
          PROVE  IsPending(e, write)
        <3>1. pend'[e] = pend[e] \/ pend'[e] = Append(pend[e], "activate")
            BY <1>5 DEF RoomModified, TypeOK
        <3>2. pend[e] \in Seq(Writes)
            BY DEF TypeOK
        <3>3. PICK i \in 1..Len(pend'[e]) : pend'[e][i] = write
            BY <2>2 DEF IsPending
        <3>4. i \in 1..Len(pend[e]) /\ pend[e][i] = write
            BY <2>2, <3>1, <3>2, <3>3
        <3>q. QED BY <3>4 DEF IsPending
    <2>q. QED BY <2>1, <2>2 DEF HostZero, Readable, EmptyLobby, JustOpened
<1>6. CASE UNCHANGED vars
    BY <1>6 DEF vars, HostZero, Readable, IsPending, EmptyLobby, JustOpened
<1>q. QED
    <2>1. ASSUME NEW d \in Devices,
                 \/ LoadUser(d) \/ MultiplayerQueue(d) \/ ReadLobbyFails(d)
                 \/ RoomAdded(d) \/ TransitionData(d) \/ GameAppears(d) \/ Quit(d)
          PROVE  UNCHANGED <<lobby, lobbies, pend, room>>
        BY <2>1 DEF LoadUser, MultiplayerQueue, ReadLobbyFails, RoomAdded,
                    TransitionData, GameAppears, Quit
    <2>q. QED BY <1>1, <1>2, <1>3, <1>4, <1>5, <1>6, <2>1 DEF Next

\* However the devices race, fail and end, and however old the cache a device is
\* answered from, the loop of assignHostGuest never meets a lobby without host0:
\* its forced cast cannot fail.
THEOREM LobbyAlwaysReadable == Spec => []LobbyReadable
<1>1. HostZero => LobbyReadable
    BY DEF HostZero, LobbyReadable
<1>q. QED BY <1>1, TypeInit, TypeStep, HostZeroInit, HostZeroStep, PTL DEF Spec

(* --------------------------- exclusive seats ---------------------------- *)

\* A device has no seat before it decided, no writes without a seat, and the
\* write to the lobby, which fits its role, is the first of its writes.
Structure == \A d \in Devices :
    /\ phase[d] \notin {"seated", "dead"} => role[d] = "none"
    /\ role[d] = "none" => pend[d] = <<>>
    /\ \A i \in 2..Len(pend[d]) : pend[d][i] \notin LobbyWrites
    /\ HasLobbyWrite(d) => role[d] = RoleOf(Head(pend[d]))

OneDecides == \A d, e \in Devices : Deciding(d) /\ Deciding(e) => d = e

SnapshotFresh == \A d \in Devices : phase[d] = "deciding" => snapshot[d] = lobby

\* The write under way finds the lobby it was decided on.
WriteFits == \A d \in Devices : HasLobbyWrite(d) =>
    /\ lobby[room[d]] = IF Head(pend[d]) = "takeGuest" THEN "open" ELSE "none"
    /\ Head(pend[d]) = "createLobby" => lobby = EmptyLobby /\ room[d] = 0

\* A seat is in the lobby once its write is applied.
SeatRecorded == \A d \in Devices : ~HasLobbyWrite(d) =>
    /\ role[d] = "host" => lobby[room[d]] # "none"
    /\ role[d] = "guest" => lobby[room[d]] = "guest"

OpenHasHost == \A r \in Rooms :
    lobby[r] = "open" => \E e \in Devices : HasSeat(e, r, "host")

\* Why seats are exclusive: devices that decide, one at a time, on the lobby as
\* it is find there every seat that was given.
UpToDate == ~outdated =>
    /\ OneDecides /\ SnapshotFresh /\ WriteFits /\ SeatRecorded /\ OpenHasHost
    /\ SeatsAreExclusive /\ GuestHasHost

Seating == Structure /\ UpToDate

LEMMA SeatingInit == Init => Seating
<1> SUFFICES ASSUME Init PROVE Seating
    OBVIOUS
<1>1. \A d \in Devices : pend[d] = <<>> /\ role[d] = "none" /\ phase[d] = "menu"
    BY DEF Init
<1>2. \A r \in Rooms : lobby[r] # "open"
    BY DEF Init, Filled
<1>3. \A d \in Devices : ~HasLobbyWrite(d) /\ ~Deciding(d)
    BY <1>1 DEF HasLobbyWrite, Deciding
<1>4. Structure
    <2>1. Len(<<>>) = 0
        OBVIOUS
    <2>2. \A d \in Devices : \A i \in 2..Len(pend[d]) : FALSE
        BY <1>1, <2>1
    <2>q. QED BY <1>1, <1>3, <2>2 DEF Structure
<1>q. QED
    BY <1>1, <1>2, <1>3, <1>4 DEF Seating, UpToDate, OneDecides, SnapshotFresh,
       WriteFits, SeatRecorded, OpenHasHost, SeatsAreExclusive, GuestHasHost

LEMMA StructureStep == TypeOK /\ Structure /\ [Next]_vars => Structure'
<1> SUFFICES ASSUME TypeOK, Structure, [Next]_vars PROVE Structure'
    OBVIOUS
<1> USE DEF serverVars, queueVars, gameVars, history
<1>1. CASE UNCHANGED <<pend, role>> /\ \A e \in Devices :
              phase[e] \in {"seated", "dead"} => phase'[e] \in {"seated", "dead"}
    BY <1>1 DEF Structure, HasLobbyWrite
<1>2. ASSUME NEW d \in Devices,
             \/ LoadUser(d) \/ MultiplayerQueue(d) \/ ServeLobby(d) \/ CachedLobby(d) \/ ReadLobbyFails(d)
             \/ RoomAdded(d) \/ TransitionData(d) \/ GameAppears(d) \/ Quit(d)
      PROVE  /\ UNCHANGED <<pend, role>>
             /\ \A e \in Devices :
                  phase[e] \in {"seated", "dead"} => phase'[e] \in {"seated", "dead"}
    BY <1>2 DEF TypeOK, LoadUser, MultiplayerQueue, ServeLobby, CachedLobby, ReadLobbyFails,
                RoomAdded, TransitionData, GameAppears, Quit
<1>3. ASSUME NEW d \in Devices, NEW i \in Rooms, NEW write,
             write = SeatWrite(snapshot[d], i),
             role' = [role EXCEPT ![d] = RoleOf(write)],
             \/ pend' = [pend EXCEPT ![d] = <<write, EnterRoom(write)>>]
             \/ pend' = [pend EXCEPT ![d] = <<write>>],
             phase' \in {[phase EXCEPT ![d] = "seated"], [phase EXCEPT ![d] = "dead"]}
      PROVE  Structure'
    <2>1. ASSUME NEW e \in Devices, e # d
          PROVE  pend'[e] = pend[e] /\ role'[e] = role[e] /\ phase'[e] = phase[e]
        BY <1>3, <2>1 DEF TypeOK
    <2>2. /\ role'[d] = RoleOf(write) /\ role'[d] # "none"
          /\ phase'[d] \in {"seated", "dead"}
        BY <1>3, SeatTypes DEF TypeOK
    <2>3. /\ pend'[d] # <<>> /\ Head(pend'[d]) = write
          /\ \A j \in 2..Len(pend'[d]) : pend'[d][j] \notin LobbyWrites
        <3>1. EnterRoom(write) \notin LobbyWrites
            BY <1>3, SeatTypes DEF LobbyWrites
        <3>2. pend'[d] = <<write, EnterRoom(write)>> \/ pend'[d] = <<write>>
            BY <1>3 DEF TypeOK
        <3>q. QED BY <3>1, <3>2
    <2>q. QED BY <2>1, <2>2, <2>3 DEF Structure, HasLobbyWrite
<1>4. ASSUME NEW d \in Devices, AssignHostGuest(d) PROVE Structure'
    BY <1>3, <1>4 DEF AssignHostGuest
<1>5. ASSUME NEW d \in Devices, AssignTraps(d) PROVE Structure'
    <2>1. CASE UNCHANGED <<room, role, pend>>
        <3>1. \A e \in Devices :
                phase[e] \in {"seated", "dead"} => phase'[e] \in {"seated", "dead"}
            BY <1>5 DEF AssignTraps, TypeOK
        <3>q. QED BY <1>1, <2>1, <3>1
    <2>q. QED BY <1>3, <1>5, <2>1 DEF AssignTraps
<1>6. ASSUME NEW d \in Devices, ApplyWrite(d) PROVE Structure'
    <2>1. UNCHANGED <<phase, role>>
        BY <1>6 DEF ApplyWrite
    <2>2. \A e \in Devices : e # d => pend'[e] = pend[e]
        BY <1>6 DEF ApplyWrite, TypeOK
    <2>3. /\ pend[d] \in Seq(Writes) /\ pend[d] # <<>> /\ pend'[d] = Tail(pend[d])
          /\ role[d] # "none"
        BY <1>6 DEF ApplyWrite, TypeOK, Structure
    <2>4. \A j \in 1..Len(pend'[d]) : pend'[d][j] \notin LobbyWrites
        <3> TAKE j \in 1..Len(pend'[d])
        <3>1. j + 1 \in 2..Len(pend[d]) /\ pend'[d][j] = pend[d][j + 1]
            BY <2>3
        <3>q. QED BY <3>1 DEF Structure
    <2>5. ~HasLobbyWrite(d)'
        <3>1. SUFFICES ASSUME pend'[d] # <<>> PROVE Head(pend'[d]) \notin LobbyWrites
            BY DEF HasLobbyWrite
        <3>2. 1 \in 1..Len(pend'[d]) /\ Head(pend'[d]) = pend'[d][1]
            BY <2>3, <3>1
        <3>q. QED BY <2>4, <3>2
    <2>6. \A j \in 2..Len(pend'[d]) : pend'[d][j] \notin LobbyWrites
        BY <2>3, <2>4
    <2>q. QED BY <2>1, <2>2, <2>3, <2>5, <2>6 DEF Structure, HasLobbyWrite
<1>7. ASSUME NEW d \in Devices, RoomModified(d) PROVE Structure'
    <2>1. UNCHANGED <<phase, role>>
        BY <1>7 DEF RoomModified
    <2>2. CASE UNCHANGED pend
        BY <1>1, <2>1, <2>2
    <2>3. CASE role[d] = "host" /\ pend' = [pend EXCEPT ![d] = Append(@, "activate")]
        <3>1. \A e \in Devices : e # d => pend'[e] = pend[e]
            BY <2>3 DEF TypeOK
        <3>2. pend[d] \in Seq(Writes) /\ pend'[d] = Append(pend[d], "activate")
            BY <2>3 DEF TypeOK
        <3>3. \A j \in 2..Len(pend'[d]) : pend'[d][j] \notin LobbyWrites
            <4> TAKE j \in 2..Len(pend'[d])
            <4>1. \/ j \in 2..Len(pend[d]) /\ pend'[d][j] = pend[d][j]
                  \/ pend'[d][j] = "activate"
                BY <3>2
            <4>q. QED BY <4>1 DEF Structure, LobbyWrites
        <3>4. HasLobbyWrite(d)' => HasLobbyWrite(d) /\ Head(pend'[d]) = Head(pend[d])
            BY <3>2 DEF HasLobbyWrite, LobbyWrites
        <3>q. QED BY <2>1, <2>3, <3>1, <3>3, <3>4 DEF Structure, HasLobbyWrite
    <2>q. QED BY <1>7, <2>2, <2>3 DEF RoomModified
<1>8. CASE UNCHANGED vars
    BY <1>1, <1>8 DEF vars
<1>q. QED BY <1>1, <1>2, <1>4, <1>5, <1>6, <1>7, <1>8 DEF Next

\* Steps that give no seat, read no lobby and write none keep all of it.
Quiet ==
    /\ UNCHANGED <<lobby, room, role, outdated>>
    /\ \A d \in Devices : phase'[d] = "deciding" =>
         phase[d] = "deciding" /\ snapshot'[d] = snapshot[d]
    /\ \A d \in Devices :
         /\ HasLobbyWrite(d)' <=> HasLobbyWrite(d)
         /\ HasLobbyWrite(d) => Head(pend[d])' = Head(pend[d])

LEMMA QuietKeeps ==
    ASSUME UpToDate, Quiet PROVE UpToDate'
<1>1. SUFFICES ASSUME ~outdated
               PROVE  /\ OneDecides' /\ SnapshotFresh' /\ WriteFits' /\ SeatRecorded'
                      /\ OpenHasHost' /\ SeatsAreExclusive' /\ GuestHasHost'
    BY DEF UpToDate, Quiet
<1>2. OneDecides'
    BY <1>1 DEF UpToDate, Quiet, OneDecides, Deciding
<1>3. SnapshotFresh'
    BY <1>1 DEF UpToDate, Quiet, SnapshotFresh
<1>4. WriteFits'
    BY <1>1 DEF UpToDate, Quiet, WriteFits, EmptyLobby
<1>5. SeatRecorded'
    BY <1>1 DEF UpToDate, Quiet, SeatRecorded
<1>6. OpenHasHost' /\ SeatsAreExclusive' /\ GuestHasHost'
    BY <1>1 DEF UpToDate, Quiet, OpenHasHost, SeatsAreExclusive, GuestHasHost, HasSeat
<1>q. QED BY <1>2, <1>3, <1>4, <1>5, <1>6

\* A device that decides is given a seat that the lobby shows free.
LEMMA SeatIsFree ==
    ASSUME TypeOK, NEW d \in Devices, NEW i \in Rooms, IsSeat(snapshot[d], i),
           snapshot[d] = EmptyLobby \/ snapshot[d][0] # "none"
    PROVE  /\ SeatWrite(snapshot[d], i) = "takeGuest" <=> snapshot[d][i] = "open"
           /\ SeatWrite(snapshot[d], i) # "takeGuest" <=> snapshot[d][i] = "none"
           /\ SeatWrite(snapshot[d], i) = "createLobby" => snapshot[d] = EmptyLobby /\ i = 0
<1>1. snapshot[d][i] \in Seats /\ 0 \in Rooms
    BY RoomsAssumption DEF TypeOK, Rooms
<1>2. CASE snapshot[d] = EmptyLobby
    <2>1. i = 0
        BY <1>1, <1>2 DEF IsSeat, EmptyLobby, Rooms
    <2>q. QED BY <1>2, <2>1 DEF SeatWrite, EmptyLobby, Rooms
<1>3. CASE snapshot[d] # EmptyLobby
    BY <1>1, <1>3 DEF SeatWrite, IsSeat, Seats
<1>q. QED BY <1>2, <1>3

\* Giving a seat on a fresh snapshot keeps the seats exclusive.
LEMMA AssignKeeps ==
    ASSUME TypeOK, Structure, UpToDate, NEW d \in Devices, NEW i \in Rooms, NEW write,
           phase[d] = "deciding", IsSeat(snapshot[d], i), Readable(snapshot[d]),
           write = SeatWrite(snapshot[d], i),
           room' = [room EXCEPT ![d] = i],
           role' = [role EXCEPT ![d] = RoleOf(write)],
           pend' = [pend EXCEPT ![d] = <<write>>]
             \/ pend' = [pend EXCEPT ![d] = <<write, EnterRoom(write)>>],
           phase'[d] # "deciding",
           \A e \in Devices \ {d} : phase'[e] = phase[e] /\ snapshot'[e] = snapshot[e],
           UNCHANGED <<lobby, outdated>>
    PROVE  UpToDate'
<1>1. SUFFICES ASSUME ~outdated
               PROVE  /\ OneDecides' /\ SnapshotFresh' /\ WriteFits' /\ SeatRecorded'
                      /\ OpenHasHost' /\ SeatsAreExclusive' /\ GuestHasHost'
    BY DEF UpToDate
<1>2. \A e \in Devices \ {d} : ~Deciding(e)
    BY <1>1 DEF UpToDate, OneDecides, Deciding
<1>3. snapshot[d] = lobby /\ role[d] = "none"
    BY <1>1 DEF UpToDate, SnapshotFresh, Structure
<1>4. /\ \A e \in Devices \ {d} : /\ role'[e] = role[e] /\ room'[e] = room[e]
                                  /\ pend'[e] = pend[e]
      /\ role'[d] = RoleOf(write) /\ room'[d] = i
      /\ pend'[d] = <<write>> \/ pend'[d] = <<write, EnterRoom(write)>>
    BY DEF TypeOK
<1>5. /\ write = "takeGuest" <=> lobby[i] = "open"
      /\ write # "takeGuest" <=> lobby[i] = "none"
      /\ write = "createLobby" => lobby = EmptyLobby /\ i = 0
      /\ write \in LobbyWrites
    BY <1>3, SeatIsFree, SeatTypes DEF Readable
<1>6. HasLobbyWrite(d)' /\ Head(pend[d])' = write
    BY <1>4, <1>5 DEF HasLobbyWrite
<1>7. \A e \in Devices \ {d} : ~HasLobbyWrite(e) /\ ~HasLobbyWrite(e)' /\ ~Deciding(e)'
    BY <1>2, <1>4 DEF Deciding, HasLobbyWrite
<1>8. OneDecides'
    BY <1>7 DEF OneDecides
<1>9. SnapshotFresh'
    BY <1>2 DEF SnapshotFresh, Deciding
<1>10. WriteFits'
    BY <1>4, <1>5, <1>6, <1>7 DEF WriteFits, EmptyLobby
<1>11. SeatRecorded'
    BY <1>1, <1>4, <1>6, <1>7 DEF UpToDate, SeatRecorded
<1>12. OpenHasHost'
    BY <1>1, <1>3, <1>4 DEF UpToDate, OpenHasHost, HasSeat
<1>13. \A e \in Devices \ {d} :
          /\ role[e] = "host" => lobby[room[e]] # "none"
          /\ role[e] = "guest" => lobby[room[e]] = "guest"
    BY <1>1, <1>7 DEF UpToDate, SeatRecorded
<1>14. \A e \in Devices \ {d} : ~(role[e] = RoleOf(write) /\ room[e] = i)
    BY <1>5, <1>13 DEF RoleOf
<1>15. SeatsAreExclusive'
    BY <1>1, <1>4, <1>14 DEF UpToDate, SeatsAreExclusive, HasSeat
<1>16. GuestHasHost'
    <2>1. \A e \in Devices : HasSeat(e, room[e], "host") /\ e # d
             => HasSeat(e, room[e], "host")'
        BY <1>4 DEF HasSeat
    <2>2. \A g \in Devices \ {d} : role'[g] = "guest" =>
             \E e \in Devices : HasSeat(e, room[g], "host")'
        BY <1>1, <1>3, <1>4 DEF UpToDate, GuestHasHost, HasSeat
    <2>3. role'[d] = "guest" => \E e \in Devices : HasSeat(e, i, "host")'
        BY <1>1, <1>3, <1>4, <1>5 DEF UpToDate, OpenHasHost, HasSeat, RoleOf
    <2>q. QED BY <1>4, <2>2, <2>3 DEF GuestHasHost, HasSeat
<1>q. QED BY <1>8, <1>9, <1>10, <1>11, <1>12, <1>15, <1>16

\* The write that comes first leaves no other write to the lobby behind it.
LEMMA WriteIsDone ==
    ASSUME TypeOK, Structure, NEW d \in Devices, ApplyWrite(d)
    PROVE  /\ ~HasLobbyWrite(d)'
           /\ \A e \in Devices \ {d} :
                /\ HasLobbyWrite(e)' <=> HasLobbyWrite(e)
                /\ Head(pend[e])' = Head(pend[e])
<1>1. /\ pend[d] \in Seq(Writes) /\ pend[d] # <<>>
      /\ pend'[d] = Tail(pend[d])
      /\ \A e \in Devices \ {d} : pend'[e] = pend[e]
    BY DEF ApplyWrite, TypeOK
<1>2. ASSUME pend'[d] # <<>> PROVE Head(pend'[d]) \notin LobbyWrites
    <2>1. 2 \in 2..Len(pend[d]) /\ Head(pend'[d]) = pend[d][2]
        BY <1>1, <1>2
    <2>q. QED BY <2>1 DEF Structure
<1>q. QED BY <1>1, <1>2 DEF HasLobbyWrite

\* Applying a write to the lobby keeps the seats exclusive.
LEMMA ApplyKeeps ==
    ASSUME TypeOK, Structure, UpToDate, NEW d \in Devices, ApplyWrite(d)
    PROVE  UpToDate'
<1> USE DEF serverVars, queueVars, gameVars, history
<1> DEFINE write == Head(pend[d])
<1>1. /\ UNCHANGED <<phase, snapshot, room, role, outdated>>
      /\ lobby' = LobbyAfter(lobby, write, room[d]) /\ pend[d] # <<>>
    BY DEF ApplyWrite
<1>2. CASE write \notin LobbyWrites
    <2>1. UNCHANGED lobby
        BY <1>1, <1>2 DEF LobbyAfter, LobbyWrites
    <2>2. ~HasLobbyWrite(d)
        BY <1>2 DEF HasLobbyWrite
    <2>3. Quiet
        BY <1>1, <2>1, <2>2, WriteIsDone DEF Quiet
    <2>q. QED BY <2>3, QuietKeeps
<1>3. CASE write \in LobbyWrites
    <2>1. SUFFICES ASSUME ~outdated
                   PROVE  /\ OneDecides' /\ SnapshotFresh' /\ WriteFits' /\ SeatRecorded'
                          /\ OpenHasHost' /\ SeatsAreExclusive' /\ GuestHasHost'
        BY <1>1 DEF UpToDate
    <2>2. HasLobbyWrite(d) /\ Deciding(d)
        BY <1>1, <1>3 DEF HasLobbyWrite, Deciding
    <2>3. \A e \in Devices \ {d} : ~Deciding(e)
        BY <2>1, <2>2 DEF UpToDate, OneDecides
    <2>4. \A e \in Devices : ~HasLobbyWrite(e)'
        BY <2>3, WriteIsDone DEF Deciding
    <2>5. role[d] = RoleOf(write) /\ role[d] # "none" /\ phase[d] # "deciding"
        BY <2>2 DEF Structure, RoleOf
    <2>6. \A e \in Devices : ~Deciding(e)' /\ phase'[e] # "deciding"
        BY <1>1, <2>3, <2>4, <2>5 DEF Deciding
    <2>7. OneDecides' /\ SnapshotFresh' /\ WriteFits'
        BY <2>4, <2>6 DEF OneDecides, SnapshotFresh, WriteFits
    <2>8. SeatsAreExclusive' /\ GuestHasHost'
        BY <1>1, <2>1 DEF UpToDate, SeatsAreExclusive, GuestHasHost, HasSeat
    <2>9. /\ lobby[room[d]] = IF write = "takeGuest" THEN "open" ELSE "none"
          /\ write = "createLobby" => lobby = EmptyLobby /\ room[d] = 0
        BY <2>1, <2>2 DEF UpToDate, WriteFits
    <2>10. /\ lobby' = [lobby EXCEPT ![room[d]] = IF write = "takeGuest" THEN "guest" ELSE "open"]
           /\ room[d] \in Rooms
        BY <1>1, <1>3, <2>9 DEF LobbyAfter, LobbyWrites, TypeOK
    <2>11. /\ lobby'[room[d]] = IF write = "takeGuest" THEN "guest" ELSE "open"
           /\ \A r \in Rooms \ {room[d]} : lobby'[r] = lobby[r]
        BY <2>10 DEF TypeOK
    <2>12. SeatRecorded'
        <3>1. ASSUME NEW e \in Devices
              PROVE  /\ role[e] = "host" => lobby'[room[e]] # "none"
                     /\ role[e] = "guest" => lobby'[room[e]] = "guest"
            <4>1. CASE e = d
                BY <2>5, <2>11, <4>1 DEF RoleOf
            <4>2. CASE e # d
                <5>1. ~HasLobbyWrite(e) /\ room[e] \in Rooms
                    BY <2>3, <4>2 DEF Deciding, TypeOK
                <5>2. /\ role[e] = "host" => lobby[room[e]] # "none"
                      /\ role[e] = "guest" => lobby[room[e]] = "guest"
                    BY <2>1, <5>1 DEF UpToDate, SeatRecorded
                <5>q. QED BY <2>9, <2>11, <5>1, <5>2
            <4>q. QED BY <4>1, <4>2
        <3>q. QED BY <1>1, <3>1 DEF SeatRecorded
    <2>13. OpenHasHost'
        <3>1. ASSUME NEW r \in Rooms, lobby'[r] = "open"
              PROVE  \E e \in Devices : HasSeat(e, r, "host")
            <4>1. CASE r = room[d]
                BY <2>5, <2>11, <3>1, <4>1 DEF HasSeat, RoleOf
            <4>2. CASE r # room[d]
                BY <2>1, <2>11, <3>1, <4>2 DEF UpToDate, OpenHasHost
            <4>q. QED BY <4>1, <4>2
        <3>q. QED BY <1>1, <3>1 DEF OpenHasHost, HasSeat
    <2>q. QED BY <2>7, <2>8, <2>12, <2>13
<1>q. QED BY <1>2, <1>3

LEMMA UpToDateStep == TypeOK /\ Structure /\ UpToDate /\ [Next]_vars => UpToDate'
<1> SUFFICES ASSUME TypeOK, Structure, UpToDate, [Next]_vars PROVE UpToDate'
    OBVIOUS
<1> USE DEF serverVars, queueVars, gameVars, history
<1>1. ASSUME NEW d \in Devices,
             \/ LoadUser(d) \/ MultiplayerQueue(d) \/ ReadLobbyFails(d)
             \/ RoomAdded(d) \/ TransitionData(d) \/ GameAppears(d) \/ Quit(d)
      PROVE  UpToDate'
    <2>1. UNCHANGED <<lobby, room, role, outdated, pend>>
        BY <1>1 DEF LoadUser, MultiplayerQueue, ReadLobbyFails, RoomAdded,
                    TransitionData, GameAppears, Quit
    <2>2. \A e \in Devices : phase'[e] = "deciding" =>
            phase[e] = "deciding" /\ snapshot'[e] = snapshot[e]
        BY <1>1 DEF TypeOK, LoadUser, MultiplayerQueue, ReadLobbyFails, RoomAdded,
                    TransitionData, GameAppears, Quit
    <2>3. Quiet
        BY <2>1, <2>2 DEF Quiet, HasLobbyWrite
    <2>q. QED BY <2>3, QuietKeeps
<1>2. ASSUME NEW d \in Devices, ServeLobby(d) PROVE UpToDate'
    <2>1. /\ UNCHANGED <<lobby, room, role, pend>> /\ phase[d] = "reading"
          /\ phase'[d] = "deciding" /\ snapshot'[d] = lobby
          /\ \A e \in Devices \ {d} : phase'[e] = phase[e] /\ snapshot'[e] = snapshot[e]
          /\ outdated' = (outdated \/ \E e \in Devices \ {d} : Deciding(e))
        BY <1>2 DEF ServeLobby, TypeOK
    <2>2. SUFFICES ASSUME ~outdated, \A e \in Devices \ {d} : ~Deciding(e)
                   PROVE  /\ OneDecides' /\ SnapshotFresh' /\ WriteFits' /\ SeatRecorded'
                          /\ OpenHasHost' /\ SeatsAreExclusive' /\ GuestHasHost'
        BY <2>1 DEF UpToDate
    <2>3. \A e \in Devices : HasLobbyWrite(e)' <=> HasLobbyWrite(e)
        BY <2>1 DEF HasLobbyWrite
    <2>4. \A e \in Devices \ {d} : ~Deciding(e)' /\ phase'[e] # "deciding"
        BY <2>1, <2>2, <2>3 DEF Deciding
    <2>5. OneDecides' /\ SnapshotFresh'
        BY <2>1, <2>4 DEF OneDecides, SnapshotFresh
    <2>6. WriteFits'
        BY <2>1, <2>2, <2>3 DEF UpToDate, WriteFits, EmptyLobby
    <2>7. SeatRecorded'
        BY <2>1, <2>2, <2>3 DEF UpToDate, SeatRecorded
    <2>8. OpenHasHost' /\ SeatsAreExclusive' /\ GuestHasHost'
        BY <2>1, <2>2 DEF UpToDate, OpenHasHost, SeatsAreExclusive, GuestHasHost, HasSeat
    <2>q. QED BY <2>5, <2>6, <2>7, <2>8
<1>3. ASSUME NEW d \in Devices, AssignHostGuest(d) PROVE UpToDate'
    <2>1. /\ phase[d] = "deciding" /\ Readable(snapshot[d]) /\ phase'[d] # "deciding"
          /\ \A e \in Devices \ {d} : phase'[e] = phase[e] /\ snapshot'[e] = snapshot[e]
          /\ UNCHANGED <<lobby, outdated>>
        BY <1>3 DEF AssignHostGuest, TypeOK
    <2>2. PICK i \in Rooms :
            /\ IsSeat(snapshot[d], i)
            /\ room' = [room EXCEPT ![d] = i]
            /\ role' = [role EXCEPT ![d] = RoleOf(SeatWrite(snapshot[d], i))]
            /\ pend' = [pend EXCEPT ![d] = <<SeatWrite(snapshot[d], i),
                                             EnterRoom(SeatWrite(snapshot[d], i))>>]
        BY <1>3 DEF AssignHostGuest
    <2>q. QED BY <2>1, <2>2, AssignKeeps
<1>4. ASSUME NEW d \in Devices, AssignTraps(d) PROVE UpToDate'
    <2>1. /\ phase[d] = "deciding" /\ phase'[d] # "deciding"
          /\ \A e \in Devices \ {d} : phase'[e] = phase[e] /\ snapshot'[e] = snapshot[e]
          /\ UNCHANGED <<lobby, outdated>>
        BY <1>4 DEF AssignTraps, TypeOK
    <2>2. CASE UNCHANGED <<room, role, pend>>
        <3>1. Quiet
            BY <2>1, <2>2 DEF Quiet, HasLobbyWrite
        <3>q. QED BY <3>1, QuietKeeps
    <2>3. ASSUME NEW i \in Rooms, Readable(snapshot[d]), IsSeat(snapshot[d], i),
                 room' = [room EXCEPT ![d] = i],
                 role' = [role EXCEPT ![d] = RoleOf(SeatWrite(snapshot[d], i))],
                 pend' = [pend EXCEPT ![d] = <<SeatWrite(snapshot[d], i)>>]
          PROVE  UpToDate'
        BY <2>1, <2>3, AssignKeeps
    <2>q. QED BY <1>4, <2>2, <2>3 DEF AssignTraps
<1>5. ASSUME NEW d \in Devices, ApplyWrite(d) PROVE UpToDate'
    BY <1>5, ApplyKeeps
<1>6. ASSUME NEW d \in Devices, RoomModified(d) PROVE UpToDate'
    <2>1. UNCHANGED <<lobby, room, role, outdated, phase, snapshot>>
        BY <1>6 DEF RoomModified
    <2>2. ASSUME NEW e \in Devices
          PROVE  /\ HasLobbyWrite(e)' <=> HasLobbyWrite(e)
                 /\ HasLobbyWrite(e) => Head(pend[e])' = Head(pend[e])
        <3>1. pend'[e] = pend[e] \/ pend'[e] = Append(pend[e], "activate")
            BY <1>6 DEF RoomModified, TypeOK
        <3>2. pend[e] \in Seq(Writes)
            BY DEF TypeOK
        <3>q. QED BY <3>1, <3>2 DEF HasLobbyWrite, LobbyWrites
    <2>3. Quiet
        BY <2>1, <2>2 DEF Quiet
    <2>q. QED BY <2>3, QuietKeeps
<1>7. CASE UNCHANGED vars
    <2>1. Quiet
        BY <1>7 DEF vars, Quiet, HasLobbyWrite
    <2>q. QED BY <2>1, QuietKeeps
<1>8. ASSUME NEW d \in Devices, CachedLobby(d) PROVE UpToDate'
    BY <1>8 DEF CachedLobby, UpToDate
<1>q. QED BY <1>1, <1>2, <1>3, <1>4, <1>5, <1>6, <1>7, <1>8 DEF Next

LEMMA SeatingInvariant == Spec => []Seating
<1>1. TypeOK /\ Seating /\ [Next]_vars => Seating'
    BY StructureStep, UpToDateStep DEF Seating
<1>q. QED BY <1>1, TypeInit, TypeStep, SeatingInit, PTL DEF Spec

\* Devices of which none decides on an outdated lobby are never given the same
\* seat, whatever else fails or comes late.
THEOREM SeatsExclusive == Spec => []SeatsAreExclusive
<1>1. Seating => SeatsAreExclusive
    BY DEF Seating, UpToDate, SeatsAreExclusive
<1>q. QED BY <1>1, SeatingInvariant, PTL

\* A guest is only sent to a room that a host was given.
THEOREM GuestAlwaysHasHost == Spec => []GuestHasHost
<1>1. Seating => GuestHasHost
    BY DEF Seating, UpToDate, GuestHasHost
<1>q. QED BY <1>1, SeatingInvariant, PTL

(* --------------------------- rooms and names ---------------------------- *)

Entering == {"createRoom", "joinRoom"}

\* The write that enters a room is one, behind nothing but that to the lobby,
\* and fits the role; who has no seat has seen no room.
RoomWrites == \A d \in Devices :
    /\ \A i, j \in 1..Len(pend[d]) :
         i < j /\ pend[d][j] \in Entering => pend[d][i] \in LobbyWrites
    /\ IsPending(d, "createRoom") \/ IsPending(d, "activate") => role[d] = "host"
    /\ IsPending(d, "joinRoom") => role[d] = "guest"
    /\ role[d] = "none" => seen[d] = Missing /\ vc[d] = "none"
    /\ phase[d] = "seated" => role[d] # "none"

\* A room of earlier players, for which no seat is given any more.
Earlier(r) ==
    /\ rooms[r] = OldRoom /\ lobby[r] = "guest"
    /\ \A d \in Devices : role[d] # "none" => room[d] # r

\* A room names the devices that have its seats, and is active only once the
\* guest is in it and the host has opened GameVC.
Owned(r) ==
    /\ rooms[r].host \in Devices /\ HasSeat(rooms[r].host, r, "host")
    /\ rooms[r].guest # Nobody =>
         rooms[r].guest \in Devices /\ HasSeat(rooms[r].guest, r, "guest")
    /\ rooms[r].gameStatus # "missing"
    /\ rooms[r].gameStatus = "Active" =>
         rooms[r].guest # Nobody /\ vc[rooms[r].host] # "none"

\* A host sees its room change only by a guest that comes into it.
HostRoom(h) ==
    /\ phase[h] = "seated" => seen[h] # Missing
    /\ IsPending(h, "createRoom") => rooms[room[h]] = Missing
    /\ seen[h] # Missing =>
         /\ IsPending(h, "createRoom") \/ rooms[room[h]] # Missing
         /\ seen[h] = NewRoom(h) \/ rooms[room[h]].guest # Nobody
    /\ vc[h] # "none" => rooms[room[h]].guest # Nobody
    /\ IsPending(h, "activate") => vc[h] # "none"

\* A guest sees its room change only by a host that activates it.
GuestRoom(g) ==
    /\ seen[g] # Missing =>
         /\ rooms[room[g]] # Missing
         /\ LocalView(g) = seen[g] \/ rooms[room[g]].gameStatus = "Active"
    /\ vc[g] # "none" => rooms[room[g]].gameStatus = "Active"

\* The names GameVC was given, and those its listener saw before it presented
\* GameVC, are those of the room.
NamesOf(d) ==
    /\ vc[d] \in {"configured", "playing", "late"} =>
         \E h, g \in Devices :
            /\ names[d] = [host |-> h, guest |-> g] /\ d \in {h, g}
            /\ HasSeat(h, room[d], "host") /\ HasSeat(g, room[d], "guest")
    /\ vc[d] # "none" =>
         \E h, g \in Devices :
            /\ seen[d].host = h /\ seen[d].guest = g /\ d \in {h, g}
            /\ HasSeat(h, room[d], "host") /\ HasSeat(g, room[d], "guest")

DeviceRoom(d) ==
    /\ role[d] = "host" => HostRoom(d)
    /\ role[d] = "guest" => GuestRoom(d)
    /\ NamesOf(d)

\* Why the names agree and guests follow: without an outdated decision each room
\* is between one host and one guest, who change it in one order.
Paired == ~outdated =>
    /\ \A r \in Rooms : rooms[r] # Missing => Earlier(r) \/ Owned(r)
    /\ \A d \in Devices : DeviceRoom(d)

LEMMA RoomsInit == Init => RoomWrites /\ Paired
<1> SUFFICES ASSUME Init PROVE RoomWrites /\ Paired
    OBVIOUS
<1>1. \A d \in Devices : pend[d] = <<>> /\ role[d] = "none" /\ seen[d] = Missing
                          /\ vc[d] = "none" /\ phase[d] = "menu"
    BY DEF Init
<1>2. \A d \in Devices : 1..Len(pend[d]) = {}
    <2>1. 1..Len(<<>>) = {}
        OBVIOUS
    <2>q. QED BY <1>1, <2>1
<1>3. RoomWrites
    BY <1>1, <1>2 DEF RoomWrites, IsPending
<1>4. \A r \in Rooms : rooms[r] # Missing => Earlier(r)
    BY <1>1 DEF Init, Earlier, Filled
<1>5. \A d \in Devices : DeviceRoom(d)
    BY <1>1 DEF DeviceRoom, NamesOf
<1>q. QED BY <1>3, <1>4, <1>5 DEF Paired

\* What an appended write leaves pending.
LEMMA AppendedPending ==
    ASSUME TypeOK, NEW d \in Devices, pend' = [pend EXCEPT ![d] = Append(@, "activate")],
           NEW e \in Devices, NEW write
    PROVE  IsPending(e, write)' <=> IsPending(e, write) \/ (e = d /\ write = "activate")
<1>1. pend[d] \in Seq(Writes) /\ pend'[d] = Append(pend[d], "activate")
    BY DEF TypeOK
<1>2. CASE e # d
    <2>1. pend'[e] = pend[e]
        BY <1>2 DEF TypeOK
    <2>q. QED BY <1>2, <2>1 DEF IsPending
<1>3. CASE e = d
    <2>1. /\ Len(pend[d]) \in Nat /\ Len(pend'[d]) = Len(pend[d]) + 1
          /\ \A i \in 1..Len(pend[d]) : pend'[d][i] = pend[d][i]
          /\ pend'[d][Len(pend[d]) + 1] = "activate"
        BY <1>1
    <2>2. \A i : i \in 1..Len(pend'[d]) <=> i \in 1..Len(pend[d]) \/ i = Len(pend[d]) + 1
        BY <2>1
    <2>q. QED BY <1>3, <2>1, <2>2 DEF IsPending
<1>q. QED BY <1>2, <1>3

LEMMA ActivateCreates ==
    ASSUME TypeOK, NEW d \in Devices, pend' = [pend EXCEPT ![d] = Append(@, "activate")],
           ~IsPending(d, "createRoom")
    PROVE  ~IsPending(d, "createRoom")'
<1>1. pend[d] \in Seq(Writes) /\ pend'[d] = Append(pend[d], "activate")
    BY DEF TypeOK
<1>2. ASSUME NEW i \in 1..Len(pend'[d]), pend'[d][i] = "createRoom" PROVE FALSE
    <2>1. i # Len(pend[d]) + 1
        BY <1>1, <1>2
    <2>2. i \in 1..Len(pend[d]) /\ pend'[d][i] = pend[d][i]
        BY <1>1, <2>1
    <2>q. QED BY <1>2, <2>2 DEF IsPending
<1>q. QED BY <1>2 DEF IsPending

\* What the write that is applied leaves pending.
LEMMA AppliedPending ==
    ASSUME TypeOK, NEW d \in Devices, ApplyWrite(d), NEW e \in Devices, NEW write,
           e # d \/ write # Head(pend[d]), IsPending(e, write)
    PROVE  IsPending(e, write)'
<1>1. pend[d] \in Seq(Writes) /\ pend[d] # <<>>
      /\ pend' = [pend EXCEPT ![d] = Tail(@)]
    BY DEF ApplyWrite, TypeOK
<1>2. CASE e # d
    <2>1. pend'[e] = pend[e]
        BY <1>1, <1>2 DEF TypeOK
    <2>q. QED BY <2>1 DEF IsPending
<1>3. CASE e = d
    <2>1. pend'[d] = Tail(pend[d])
        BY <1>1 DEF TypeOK
    <2>2. PICK i \in 1..Len(pend[d]) : pend[d][i] = write
        BY <1>3 DEF IsPending
    <2>3. i # 1
        BY <1>1, <1>3, <2>2
    <2>4. i - 1 \in 1..Len(Tail(pend[d])) /\ Tail(pend[d])[i - 1] = write
        BY <1>1, <2>2, <2>3
    <2>q. QED BY <1>3, <2>1, <2>4 DEF IsPending
<1>q. QED BY <1>2, <1>3

\* The write that enters a room is made once.
LEMMA EnteredOnce ==
    ASSUME TypeOK, RoomWrites, NEW d \in Devices, ApplyWrite(d), Head(pend[d]) \in Entering
    PROVE  ~IsPending(d, "createRoom")' /\ ~IsPending(d, "joinRoom")'
<1>1. pend[d] \in Seq(Writes) /\ pend[d] # <<>> /\ pend'[d] = Tail(pend[d])
    BY DEF ApplyWrite, TypeOK
<1>2. ASSUME NEW i \in 1..Len(pend'[d]), pend'[d][i] \in Entering PROVE FALSE
    <2>1. /\ 1 \in 1..Len(pend[d]) /\ i + 1 \in 1..Len(pend[d]) /\ 1 < i + 1
          /\ pend[d][i + 1] = pend'[d][i] /\ pend[d][1] = Head(pend[d])
        BY <1>1
    <2>2. pend[d][1] \in LobbyWrites
        BY <1>2, <2>1 DEF RoomWrites
    <2>q. QED BY <2>1, <2>2 DEF Entering, LobbyWrites
<1>q. QED BY <1>2 DEF IsPending, Entering

LEMMA RoomWritesStep == TypeOK /\ Structure /\ RoomWrites /\ [Next]_vars => RoomWrites'
<1> SUFFICES ASSUME TypeOK, Structure, RoomWrites, [Next]_vars PROVE RoomWrites'
    OBVIOUS
<1> USE DEF serverVars, queueVars, gameVars, history
<1>1. ASSUME UNCHANGED <<pend, role>>,
             \A e \in Devices :
                /\ phase'[e] = "seated" => phase[e] = "seated"
                /\ role[e] = "none" => seen'[e] = seen[e] /\ vc'[e] = vc[e]
      PROVE  RoomWrites'
    BY <1>1 DEF RoomWrites, IsPending
<1>2. ASSUME NEW d \in Devices,
             \/ LoadUser(d) \/ MultiplayerQueue(d) \/ ServeLobby(d) \/ CachedLobby(d) \/ ReadLobbyFails(d)
             \/ Quit(d)
      PROVE  RoomWrites'
    <2>1. UNCHANGED <<pend, role, seen, vc>>
        BY <1>2 DEF LoadUser, MultiplayerQueue, ServeLobby, CachedLobby, ReadLobbyFails, Quit
    <2>2. \A e \in Devices : phase'[e] = "seated" => phase[e] = "seated"
        BY <1>2 DEF TypeOK, LoadUser, MultiplayerQueue, ServeLobby, CachedLobby, ReadLobbyFails, Quit
    <2>q. QED BY <1>1, <2>1, <2>2
<1>3. ASSUME NEW d \in Devices, RoomAdded(d) \/ TransitionData(d) \/ GameAppears(d)
      PROVE  RoomWrites'
    <2>1. UNCHANGED <<pend, role, phase>> /\ phase[d] = "seated"
        BY <1>3 DEF RoomAdded, TransitionData, GameAppears, Listening
    <2>2. role[d] # "none"
        BY <2>1 DEF RoomWrites
    <2>3. \A e \in Devices : e # d => seen'[e] = seen[e] /\ vc'[e] = vc[e]
        BY <1>3 DEF RoomAdded, TransitionData, GameAppears, TypeOK
    <2>q. QED BY <1>1, <2>1, <2>2, <2>3
<1>4. ASSUME NEW d \in Devices, RoomModified(d) PROVE RoomWrites'
    <2>1. UNCHANGED <<role, phase>> /\ phase[d] = "seated" /\ role[d] # "none"
        BY <1>4 DEF RoomModified, Listening, RoomWrites
    <2>2. \A e \in Devices : e # d => seen'[e] = seen[e] /\ vc'[e] = vc[e]
        BY <1>4 DEF RoomModified, TypeOK
    <2>3. CASE UNCHANGED pend
        BY <1>1, <2>1, <2>2, <2>3
    <2>4. CASE role[d] = "host" /\ pend' = [pend EXCEPT ![d] = Append(@, "activate")]
        <3>1. \A e \in Devices :
                /\ IsPending(e, "createRoom")' \/ IsPending(e, "activate")' => role[e] = "host"
                /\ IsPending(e, "joinRoom")' => role[e] = "guest"
            BY <2>4, AppendedPending DEF RoomWrites
        <3>2. ASSUME NEW e \in Devices, NEW i \in 1..Len(pend'[e]), NEW j \in 1..Len(pend'[e]),
                     i < j, pend'[e][j] \in Entering
              PROVE  pend'[e][i] \in LobbyWrites
            <4>1. CASE e # d
                <5>1. pend'[e] = pend[e]
                    BY <2>4, <4>1 DEF TypeOK
                <5>q. QED BY <3>2, <5>1 DEF RoomWrites
            <4>2. CASE e = d
                <5>1. pend[d] \in Seq(Writes) /\ pend'[d] = Append(pend[d], "activate")
                    BY <2>4 DEF TypeOK
                <5>2. j # Len(pend[d]) + 1
                    BY <3>2, <4>2, <5>1 DEF Entering
                <5>3. /\ i \in 1..Len(pend[d]) /\ j \in 1..Len(pend[d])
                      /\ pend'[d][i] = pend[d][i] /\ pend'[d][j] = pend[d][j]
                    BY <3>2, <4>2, <5>1, <5>2
                <5>q. QED BY <3>2, <4>2, <5>3 DEF RoomWrites
            <4>q. QED BY <4>1, <4>2
        <3>3. \A e \in Devices : \A i, j \in 1..Len(pend'[e]) :
                i < j /\ pend'[e][j] \in Entering => pend'[e][i] \in LobbyWrites
            BY <3>2
        <3>q. QED BY <2>1, <2>2, <3>1, <3>3 DEF RoomWrites
    <2>q. QED BY <1>4, <2>3, <2>4 DEF RoomModified
<1>5. ASSUME NEW d \in Devices, NEW i \in Rooms, NEW write,
             write = SeatWrite(snapshot[d], i),
             role' = [role EXCEPT ![d] = RoleOf(write)],
             \/ pend' = [pend EXCEPT ![d] = <<write, EnterRoom(write)>>]
             \/ pend' = [pend EXCEPT ![d] = <<write>>],
             UNCHANGED vc, \A e \in Devices : e # d => phase'[e] = phase[e] /\ seen'[e] = seen[e]
      PROVE  RoomWrites'
    <2>1. \A e \in Devices : e # d => pend'[e] = pend[e] /\ role'[e] = role[e]
        BY <1>5 DEF TypeOK
    <2>2. /\ role'[d] = RoleOf(write) /\ role'[d] # "none"
          /\ \/ pend'[d] = <<write, EnterRoom(write)>>
             \/ pend'[d] = <<write>>
        BY <1>5, SeatTypes DEF TypeOK
    <2>3. /\ write \in LobbyWrites
          /\ EnterRoom(write) = "createRoom" => RoleOf(write) = "host"
          /\ EnterRoom(write) = "joinRoom" => RoleOf(write) = "guest"
          /\ EnterRoom(write) # "activate"
        BY <1>5, SeatTypes DEF EnterRoom, RoleOf
    <2>4. \A j, k \in 1..Len(pend'[d]) : j < k => pend'[d][j] \in LobbyWrites
        BY <2>2, <2>3
    <2>5. \A w : IsPending(d, w)' => w = write \/ w = EnterRoom(write)
        BY <2>2 DEF IsPending
    <2>6. \A w \in {"createRoom", "joinRoom", "activate"} : w # write
        BY <2>3 DEF LobbyWrites
    <2>7. /\ IsPending(d, "createRoom")' \/ IsPending(d, "activate")' => role'[d] = "host"
          /\ IsPending(d, "joinRoom")' => role'[d] = "guest"
        BY <2>2, <2>3, <2>5, <2>6
    <2>q. QED BY <1>5, <2>1, <2>2, <2>4, <2>7 DEF RoomWrites, IsPending
<1>6. ASSUME NEW d \in Devices, AssignHostGuest(d) \/ AssignTraps(d) PROVE RoomWrites'
    <2>1. /\ UNCHANGED vc
          /\ \A e \in Devices : e # d => phase'[e] = phase[e] /\ seen'[e] = seen[e]
        BY <1>6 DEF AssignHostGuest, AssignTraps, TypeOK
    <2>2. CASE UNCHANGED <<pend, role>> /\ AssignTraps(d)
        <3>1. UNCHANGED seen /\ phase'[d] = "dead"
            BY <2>2 DEF AssignTraps, TypeOK
        <3>q. QED BY <1>1, <2>1, <2>2, <3>1
    <2>3. CASE \E i \in Rooms :
            /\ role' = [role EXCEPT ![d] = RoleOf(SeatWrite(snapshot[d], i))]
            /\ \/ pend' = [pend EXCEPT ![d] = <<SeatWrite(snapshot[d], i),
                                                EnterRoom(SeatWrite(snapshot[d], i))>>]
               \/ pend' = [pend EXCEPT ![d] = <<SeatWrite(snapshot[d], i)>>]
        BY <1>5, <2>1, <2>3
    <2>q. QED BY <1>6, <2>2, <2>3 DEF AssignHostGuest, AssignTraps
<1>7. ASSUME NEW d \in Devices, ApplyWrite(d) PROVE RoomWrites'
    <2>1. UNCHANGED <<phase, role, seen, vc>>
        BY <1>7 DEF ApplyWrite
    <2>2. ASSUME NEW e \in Devices, NEW i \in 1..Len(pend'[e]), NEW j \in 1..Len(pend'[e]),
                 i < j, pend'[e][j] \in Entering
          PROVE  pend'[e][i] \in LobbyWrites
        <3>1. CASE e # d
            <4>1. pend'[e] = pend[e]
                BY <1>7, <3>1 DEF ApplyWrite, TypeOK
            <4>q. QED BY <2>2, <4>1 DEF RoomWrites
        <3>2. CASE e = d
            <4>1. pend[d] \in Seq(Writes) /\ pend[d] # <<>> /\ pend'[d] = Tail(pend[d])
                BY <1>7 DEF ApplyWrite, TypeOK
            <4>2. /\ i + 1 \in 1..Len(pend[d]) /\ j + 1 \in 1..Len(pend[d]) /\ i + 1 < j + 1
                  /\ pend'[d][i] = pend[d][i + 1] /\ pend'[d][j] = pend[d][j + 1]
                BY <2>2, <3>2, <4>1
            <4>q. QED BY <2>2, <3>2, <4>2 DEF RoomWrites
        <3>q. QED BY <3>1, <3>2
    <2>3. \A e \in Devices : \A i, j \in 1..Len(pend'[e]) :
            i < j /\ pend'[e][j] \in Entering => pend'[e][i] \in LobbyWrites
        BY <2>2
    <2>4. \A e \in Devices, w \in Writes : IsPending(e, w)' => IsPending(e, w)
        BY <1>7, TailIsPending
    <2>5. {"createRoom", "joinRoom", "activate"} \subseteq Writes
        BY DEF Writes
    <2>q. QED BY <2>1, <2>3, <2>4, <2>5 DEF RoomWrites
<1>8. CASE UNCHANGED vars
    BY <1>1, <1>8 DEF vars
<1>q. QED BY <1>2, <1>3, <1>4, <1>6, <1>7, <1>8 DEF Next

LEMMA ViewKept ==
    ASSUME NEW e \in Devices, rooms'[room'[e]] = rooms[room[e]],
           \A write \in {"createRoom", "joinRoom", "activate"} :
             IsPending(e, write)' <=> IsPending(e, write)
    PROVE  LocalView(e)' = LocalView(e)
<1> DEFINE View(base, guest, status) ==
             IF base = Missing THEN Missing
             ELSE [base EXCEPT !.guest = guest, !.gameStatus = status]
           base == IF IsPending(e, "createRoom") THEN NewRoom(e) ELSE rooms[room[e]]
           base1 == IF IsPending(e, "createRoom")' THEN NewRoom(e) ELSE rooms'[room'[e]]
<1>1. LocalView(e) = View(base, IF IsPending(e, "joinRoom") THEN e ELSE base.guest,
                          IF IsPending(e, "activate") THEN "Active" ELSE base.gameStatus)
    BY DEF LocalView
<1>2. LocalView(e)' = View(base1, IF IsPending(e, "joinRoom")' THEN e ELSE base1.guest,
                           IF IsPending(e, "activate")' THEN "Active" ELSE base1.gameStatus)
    BY DEF LocalView, NewRoom
<1>3. base = base1
    OBVIOUS
<1> HIDE DEF View, base, base1
<1>q. QED BY <1>1, <1>2, <1>3

\* What is assumed of a state without an outdated decision.
Settled == TypeOK /\ Seating /\ RoomWrites /\ Paired /\ ~outdated

\* The room of a device that has a seat is missing, or is that of its seat.
LEMMA SeatedRoom ==
    ASSUME Settled, NEW d \in Devices, role[d] # "none", rooms[room[d]] # Missing
    PROVE  /\ Owned(room[d])
           /\ role[d] = "host" => rooms[room[d]].host = d
           /\ role[d] = "guest" /\ rooms[room[d]].guest # Nobody => rooms[room[d]].guest = d
<1>1. room[d] \in Rooms
    BY DEF Settled, TypeOK
<1>2. Owned(room[d])
    BY <1>1 DEF Settled, Paired, Earlier
<1>3. \A e \in Devices : HasSeat(e, room[d], role[d]) => e = d
    BY DEF Settled, Seating, UpToDate, SeatsAreExclusive, HasSeat
<1>4. role[d] = "host" => rooms[room[d]].host = d
    BY <1>2, <1>3 DEF Owned
<1>5. role[d] = "guest" /\ rooms[room[d]].guest # Nobody => rooms[room[d]].guest = d
    BY <1>2, <1>3 DEF Owned
<1>q. QED BY <1>2, <1>4, <1>5

LEMMA MissingRoom ==
    /\ Missing.guest = Nobody /\ Missing.host = Nobody /\ Missing.gameStatus = "missing"
    /\ \A d \in Devices : NewRoom(d) # Missing
BY DevicesAssumption DEF Missing, NewRoom

\* A host sees its new room, or the room on the server.
LEMMA HostView ==
    ASSUME Settled, NEW h \in Devices, role[h] = "host"
    PROVE  /\ IsPending(h, "createRoom") => LocalView(h) = NewRoom(h)
           /\ ~IsPending(h, "createRoom") /\ rooms[room[h]] # Missing =>
                /\ LocalView(h) # Missing
                /\ LocalView(h).host = rooms[room[h]].host
                /\ LocalView(h).guest = rooms[room[h]].guest
                /\ ~IsPending(h, "activate") => LocalView(h) = rooms[room[h]]
<1>1. rooms[room[h]] \in RoomDocs /\ ~IsPending(h, "joinRoom") /\ HostRoom(h)
    BY DEF Settled, TypeOK, RoomWrites, Paired, DeviceRoom
<1>2. ASSUME IsPending(h, "createRoom") PROVE LocalView(h) = NewRoom(h)
    <2>1. ~IsPending(h, "activate")
        BY <1>1, <1>2, MissingRoom DEF HostRoom
    <2>2. [NewRoom(h) EXCEPT !.guest = NewRoom(h).guest,
                             !.gameStatus = NewRoom(h).gameStatus] = NewRoom(h)
        BY DEF NewRoom
    <2>q. QED BY <1>1, <1>2, <2>1, <2>2, MissingRoom DEF LocalView
<1>3. ASSUME ~IsPending(h, "createRoom"), rooms[room[h]] # Missing
      PROVE  /\ LocalView(h) # Missing
             /\ LocalView(h).host = rooms[room[h]].host
             /\ LocalView(h).guest = rooms[room[h]].guest
             /\ ~IsPending(h, "activate") => LocalView(h) = rooms[room[h]]
    <2>1. LocalView(h) = [rooms[room[h]] EXCEPT
            !.guest = rooms[room[h]].guest,
            !.gameStatus = IF IsPending(h, "activate") THEN "Active"
                           ELSE rooms[room[h]].gameStatus]
        BY <1>1, <1>3 DEF LocalView
    <2>2. /\ LocalView(h).host = rooms[room[h]].host
          /\ LocalView(h).guest = rooms[room[h]].guest
          /\ ~IsPending(h, "activate") => LocalView(h) = rooms[room[h]]
        BY <1>1, <2>1 DEF RoomDocs
    <2>3. rooms[room[h]].host = h
        BY <1>3, SeatedRoom
    <2>q. QED BY <2>2, <2>3, MissingRoom, DevicesAssumption
<1>q. QED BY <1>2, <1>3

\* A guest sees the room on the server, with itself in it as long as its name
\* is on its way.
LEMMA GuestView ==
    ASSUME Settled, NEW g \in Devices, role[g] = "guest"
    PROVE  /\ rooms[room[g]] = Missing => LocalView(g) = Missing
           /\ rooms[room[g]] # Missing =>
                LocalView(g) = IF IsPending(g, "joinRoom")
                               THEN [rooms[room[g]] EXCEPT !.guest = g]
                               ELSE rooms[room[g]]
<1>1. rooms[room[g]] \in RoomDocs
    BY DEF Settled, TypeOK
<1>2. ~IsPending(g, "createRoom") /\ ~IsPending(g, "activate")
    BY DEF Settled, RoomWrites
<1>3. CASE rooms[room[g]] = Missing
    BY <1>2, <1>3 DEF LocalView
<1>4. CASE rooms[room[g]] # Missing
    <2>1. LocalView(g) = [rooms[room[g]] EXCEPT
            !.guest = IF IsPending(g, "joinRoom") THEN g ELSE rooms[room[g]].guest,
            !.gameStatus = rooms[room[g]].gameStatus]
        BY <1>2, <1>4 DEF LocalView
    <2>q. QED BY <1>1, <1>4, <2>1 DEF RoomDocs
<1>q. QED BY <1>3, <1>4

\* The names a device gets once it was told of a change are those of its room.
LEMMA ViewNames ==
    ASSUME Settled, NEW d \in Devices, vc[d] # "none"
    PROVE  \E h, g \in Devices :
             /\ LocalView(d).host = h /\ LocalView(d).guest = g /\ d \in {h, g}
             /\ HasSeat(h, room[d], "host") /\ HasSeat(g, room[d], "guest")
<1> DEFINE doc == rooms[room[d]]
<1>1. role[d] \in {"host", "guest"}
    BY DEF Settled, RoomWrites, TypeOK
<1>2. CASE role[d] = "host"
    <2>1. doc.guest # Nobody /\ doc # Missing
        BY <1>2, MissingRoom DEF Settled, Paired, DeviceRoom, HostRoom
    <2>2. Owned(room[d]) /\ doc.host = d
        BY <1>2, <2>1, SeatedRoom
    <2>3. ~IsPending(d, "createRoom")
        BY <1>2, <2>1 DEF Settled, Paired, DeviceRoom, HostRoom
    <2>4. LocalView(d).host = doc.host /\ LocalView(d).guest = doc.guest
        BY <1>2, <2>1, <2>3, HostView
    <2>5. doc.guest \in Devices /\ HasSeat(doc.guest, room[d], "guest")
        BY <2>1, <2>2 DEF Owned
    <2>q. QED BY <1>2, <2>2, <2>4, <2>5 DEF HasSeat
<1>3. CASE role[d] = "guest"
    <2>1. doc.gameStatus = "Active" /\ doc # Missing
        BY <1>3, MissingRoom DEF Settled, Paired, DeviceRoom, GuestRoom
    <2>2. Owned(room[d]) /\ doc.guest = d
        BY <1>3, <2>1, SeatedRoom DEF Owned
    <2>3. doc \in RoomDocs
        BY DEF Settled, TypeOK
    <2>4. LocalView(d) = [doc EXCEPT !.guest = d] \/ LocalView(d) = doc
        BY <1>3, <2>1, GuestView
    <2>5. LocalView(d).host = doc.host /\ LocalView(d).guest = d
        BY <2>2, <2>3, <2>4 DEF RoomDocs
    <2>q. QED BY <1>3, <2>2, <2>5 DEF Owned, HasSeat
<1>q. QED BY <1>1, <1>2, <1>3

\* Names stay those of the room as long as seats are kept.
LEMMA NamesKept ==
    ASSUME NEW e \in Devices, NamesOf(e), vc'[e] = vc[e], names'[e] = names[e],
           seen'[e] = seen[e], room'[e] = room[e],
           \A h \in Devices : role[h] # "none" => role'[h] = role[h] /\ room'[h] = room[h]
    PROVE  NamesOf(e)'
<1>1. \A h \in Devices : \A who \in {"host", "guest"} :
        HasSeat(h, room[e], who) => HasSeat(h, room[e], who)'
    BY DEF HasSeat
<1>q. QED BY <1>1 DEF NamesOf

\* A step of one device that changes no document and gives no seat.
LEMMA OneDevice ==
    ASSUME Settled, NEW d \in Devices, UNCHANGED <<lobby, rooms, room, role>>,
           vc[d] # "none" => vc'[d] # "none",
           \A e \in Devices : e # d =>
             /\ pend'[e] = pend[e] /\ seen'[e] = seen[e] /\ vc'[e] = vc[e]
             /\ names'[e] = names[e] /\ phase'[e] = phase[e],
           DeviceRoom(d)'
    PROVE  Paired'
<1>1. ASSUME NEW r \in Rooms, rooms'[r] # Missing PROVE Earlier(r)' \/ Owned(r)'
    <2>1. Earlier(r) \/ Owned(r)
        BY <1>1 DEF Settled, Paired
    <2>2. CASE Earlier(r)
        BY <2>2 DEF Earlier
    <2>3. CASE Owned(r)
        BY <2>3 DEF Owned, HasSeat
    <2>q. QED BY <2>1, <2>2, <2>3
<1>2. ASSUME NEW e \in Devices, e # d PROVE DeviceRoom(e)'
    <2>1. DeviceRoom(e)
        BY DEF Settled, Paired
    <2>2. \A write : IsPending(e, write)' <=> IsPending(e, write)
        BY <1>2 DEF IsPending
    <2>3. LocalView(e)' = LocalView(e)
        BY <2>2 DEF LocalView
    <2>4. role[e] = "host" => HostRoom(e)'
        BY <1>2, <2>1, <2>2 DEF DeviceRoom, HostRoom
    <2>5. role[e] = "guest" => GuestRoom(e)'
        BY <1>2, <2>1, <2>3 DEF DeviceRoom, GuestRoom
    <2>6. NamesOf(e)'
        BY <1>2, <2>1, NamesKept DEF DeviceRoom
    <2>q. QED BY <2>4, <2>5, <2>6 DEF DeviceRoom
<1>q. QED BY <1>1, <1>2 DEF Paired

LEMMA QuietRooms ==
    ASSUME Settled, UNCHANGED <<lobby, rooms, room, role, pend, seen, vc, names>>,
           \A e \in Devices : phase'[e] = "seated" => phase[e] = "seated"
    PROVE  Paired'
<1>1. \A r \in Rooms : rooms'[r] # Missing => Earlier(r)' \/ Owned(r)'
    BY DEF Settled, Paired, Earlier, Owned, HasSeat
<1>2. ASSUME NEW e \in Devices PROVE DeviceRoom(e)'
    <2>1. DeviceRoom(e)
        BY DEF Settled, Paired
    <2>2. \A write : IsPending(e, write)' <=> IsPending(e, write)
        BY DEF IsPending
    <2>3. LocalView(e)' = LocalView(e)
        BY <2>2 DEF LocalView
    <2>q. QED BY <2>1, <2>2, <2>3 DEF DeviceRoom, HostRoom, GuestRoom, NamesOf, HasSeat
<1>q. QED BY <1>1, <1>2 DEF Paired

LEMMA RoomAddedPairs ==
    ASSUME Settled, NEW d \in Devices, RoomAdded(d)
    PROVE  Paired'
<1>1. /\ UNCHANGED <<lobby, rooms, room, role, phase, pend, vc, names>>
      /\ seen' = [seen EXCEPT ![d] = LocalView(d)] /\ seen[d] = Missing
      /\ LocalView(d) # Missing /\ phase[d] = "seated"
    BY DEF RoomAdded, Listening, serverVars, queueVars, gameVars
<1>2. /\ seen'[d] = LocalView(d)
      /\ \A e \in Devices : e # d => seen'[e] = seen[e]
    BY <1>1 DEF Settled, TypeOK
<1>3. DeviceRoom(d)
    BY DEF Settled, Paired
<1>4. role[d] = "guest"
    BY <1>1, <1>3 DEF Settled, RoomWrites, TypeOK, DeviceRoom, HostRoom
<1>5. LocalView(d)' = LocalView(d)
    BY <1>1 DEF LocalView, IsPending
<1>6. GuestRoom(d)'
    BY <1>1, <1>2, <1>3, <1>4, <1>5, GuestView DEF DeviceRoom, GuestRoom
<1>7. NamesOf(d)'
    <2>1. vc[d] = "none"
        BY <1>1, <1>3, MissingRoom, DevicesAssumption DEF DeviceRoom, NamesOf
    <2>q. QED BY <1>1, <2>1 DEF NamesOf
<1>8. DeviceRoom(d)'
    BY <1>1, <1>4, <1>6, <1>7 DEF DeviceRoom
<1>q. QED BY <1>1, <1>2, <1>8, OneDevice

LEMMA RoomModifiedPairs ==
    ASSUME Settled, NEW d \in Devices, RoomModified(d)
    PROVE  Paired'
<1>1. /\ UNCHANGED <<lobby, rooms, room, role, phase, names>>
      /\ seen' = [seen EXCEPT ![d] = LocalView(d)]
      /\ seen[d] # Missing /\ LocalView(d) # seen[d] /\ phase[d] = "seated"
      /\ vc[d] \in {"none", "presenting", "blank"}
      /\ pend' = IF role[d] = "host" THEN [pend EXCEPT ![d] = Append(@, "activate")] ELSE pend
      /\ vc' = IF vc[d] = "none" THEN [vc EXCEPT ![d] = "presenting"] ELSE vc
    BY DEF RoomModified, Listening, serverVars, queueVars
<1>2. /\ seen'[d] = LocalView(d)
      /\ vc'[d] \in {"presenting", "blank"}
      /\ \A e \in Devices : e # d => seen'[e] = seen[e] /\ vc'[e] = vc[e] /\ pend'[e] = pend[e]
    BY <1>1 DEF Settled, TypeOK
<1>3. DeviceRoom(d) /\ role[d] \in {"host", "guest"}
    BY <1>1 DEF Settled, Paired, RoomWrites, TypeOK
<1>4. ASSUME NEW h \in Devices, NEW g \in Devices,
             LocalView(d).host = h, LocalView(d).guest = g, d \in {h, g},
             HasSeat(h, room[d], "host"), HasSeat(g, room[d], "guest")
      PROVE  NamesOf(d)'
    BY <1>1, <1>2, <1>4 DEF NamesOf, HasSeat
<1>5. CASE role[d] = "host"
    <2>1. HostRoom(d)
        BY <1>3, <1>5 DEF DeviceRoom
    <2>2. ASSUME rooms[room[d]].guest = Nobody PROVE FALSE
        <3>1. ~IsPending(d, "activate") /\ seen[d] = NewRoom(d)
            BY <1>1, <2>1, <2>2 DEF HostRoom
        <3>2. ~IsPending(d, "createRoom") /\ rooms[room[d]] # Missing
            BY <1>1, <1>5, <2>1, <3>1, HostView DEF HostRoom
        <3>3. rooms[room[d]] = LocalView(d) /\ rooms[room[d]].host = d /\ Owned(room[d])
            BY <1>5, <3>1, <3>2, HostView, SeatedRoom
        <3>4. rooms[room[d]].gameStatus = "new"
            BY <2>2, <3>3 DEF Owned, Settled, TypeOK, RoomDocs
        <3>5. rooms[room[d]] \in RoomDocs
            BY DEF Settled, TypeOK
        <3>6. rooms[room[d]] = NewRoom(d)
            BY <2>2, <3>3, <3>4, <3>5 DEF RoomDocs, NewRoom
        <3>q. QED BY <1>1, <3>1, <3>3, <3>6
    <2>3. rooms[room[d]] # Missing /\ ~IsPending(d, "createRoom")
        BY <2>1, <2>2, MissingRoom DEF HostRoom
    <2>4. LocalView(d) # Missing
        BY <1>5, <2>3, HostView
    <2>5. ~IsPending(d, "createRoom")'
        <3>1. pend' = [pend EXCEPT ![d] = Append(@, "activate")]
            BY <1>1, <1>5
        <3>2. TypeOK
            BY DEF Settled
        <3>q. QED BY <2>3, <3>1, <3>2, ActivateCreates
    <2>6. HostRoom(d)'
        BY <1>1, <1>2, <2>2, <2>3, <2>4, <2>5 DEF HostRoom
    <2>7. NamesOf(d)'
        <3>1. /\ LocalView(d).host = rooms[room[d]].host
              /\ LocalView(d).guest = rooms[room[d]].guest
            BY <1>5, <2>3, HostView
        <3>2. Owned(room[d]) /\ rooms[room[d]].host = d
            BY <1>5, <2>3, SeatedRoom
        <3>3. /\ rooms[room[d]].guest \in Devices
              /\ HasSeat(rooms[room[d]].guest, room[d], "guest")
            BY <2>2, <3>2 DEF Owned
        <3>q. QED BY <1>4, <1>5, <3>1, <3>2, <3>3 DEF HasSeat
    <2>8. DeviceRoom(d)'
        BY <1>1, <1>5, <2>6, <2>7 DEF DeviceRoom
    <2>q. QED BY <1>1, <1>2, <2>8, OneDevice
<1>6. CASE role[d] = "guest"
    <2>1. UNCHANGED pend
        BY <1>1, <1>6
    <2>2. LocalView(d)' = LocalView(d)
        BY <1>1, <2>1 DEF LocalView, IsPending
    <2>3. rooms[room[d]] # Missing /\ rooms[room[d]].gameStatus = "Active"
        BY <1>1, <1>3, <1>6 DEF DeviceRoom, GuestRoom
    <2>4. GuestRoom(d)'
        BY <1>1, <1>2, <2>2, <2>3 DEF GuestRoom
    <2>5. NamesOf(d)'
        <3>1. Owned(room[d]) /\ rooms[room[d]].guest = d
            BY <1>6, <2>3, SeatedRoom DEF Owned
        <3>2. LocalView(d).host = rooms[room[d]].host /\ LocalView(d).guest = d
            <4>1. rooms[room[d]] \in RoomDocs
                BY DEF Settled, TypeOK
            <4>2. \/ LocalView(d) = [rooms[room[d]] EXCEPT !.guest = d]
                  \/ LocalView(d) = rooms[room[d]]
                BY <1>6, <2>3, GuestView
            <4>q. QED BY <3>1, <4>1, <4>2 DEF RoomDocs
        <3>q. QED BY <1>4, <1>6, <3>1, <3>2 DEF Owned, HasSeat
    <2>6. DeviceRoom(d)'
        BY <1>1, <1>6, <2>4, <2>5 DEF DeviceRoom
    <2>q. QED BY <1>1, <1>2, <2>6, OneDevice
<1>q. QED BY <1>3, <1>5, <1>6

LEMMA GameSteps ==
    ASSUME Settled, NEW d \in Devices, TransitionData(d) \/ GameAppears(d)
    PROVE  Paired'
<1>1. /\ UNCHANGED <<lobby, rooms, room, role, phase, pend, seen>>
      /\ vc[d] # "none"
    BY DEF TransitionData, GameAppears, serverVars, queueVars
<1>2. vc'[d] # "none" /\ \A e \in Devices : e # d => vc'[e] = vc[e] /\ names'[e] = names[e]
    BY DEF TransitionData, GameAppears, Settled, TypeOK
<1>3. DeviceRoom(d) /\ role[d] \in {"host", "guest"}
    BY <1>1 DEF Settled, Paired, RoomWrites, TypeOK
<1>4. NamesOf(d)'
    <2>1. CASE TransitionData(d)
        <3>1. \/ names'[d] = [host |-> LocalView(d).host, guest |-> LocalView(d).guest]
              \/ names'[d] = [host |-> seen[d].host, guest |-> seen[d].guest]
            BY <2>1 DEF TransitionData, Settled, TypeOK
        <3>2. NamesOf(d)
            BY <1>3 DEF DeviceRoom
        <3>q. QED BY <1>1, <3>1, <3>2, ViewNames DEF NamesOf, HasSeat
    <2>2. CASE GameAppears(d)
        <3>1. vc'[d] \in {"configured", "playing", "late"} => vc[d] = "configured"
            BY <2>2 DEF GameAppears, Settled, TypeOK
        <3>2. UNCHANGED names
            BY <2>2 DEF GameAppears
        <3>q. QED BY <1>1, <1>3, <3>1, <3>2 DEF DeviceRoom, NamesOf, HasSeat
    <2>q. QED BY <2>1, <2>2
<1>5. \A write : IsPending(d, write)' <=> IsPending(d, write)
    BY <1>1 DEF IsPending
<1>6. LocalView(d)' = LocalView(d)
    BY <1>1, <1>5 DEF LocalView
<1>7. DeviceRoom(d)'
    BY <1>1, <1>2, <1>3, <1>4, <1>5, <1>6 DEF DeviceRoom, HostRoom, GuestRoom
<1>q. QED BY <1>1, <1>2, <1>7, OneDevice

\* A seat that is given is one of a room that is not there, or that waits for
\* its guest.
LEMMA AssignPairs ==
    ASSUME Settled, NEW d \in Devices, NEW i \in Rooms, NEW write,
           phase[d] = "deciding", IsSeat(snapshot[d], i), Readable(snapshot[d]),
           write = SeatWrite(snapshot[d], i),
           room' = [room EXCEPT ![d] = i],
           role' = [role EXCEPT ![d] = RoleOf(write)],
           \/ /\ pend' = [pend EXCEPT ![d] = <<write>>]
              /\ phase'[d] = "dead" /\ UNCHANGED seen
           \/ /\ pend' = [pend EXCEPT ![d] = <<write, EnterRoom(write)>>]
              /\ seen' = [seen EXCEPT ![d] =
                            IF RoleOf(write) = "host" THEN NewRoom(d) ELSE Missing],
           \A e \in Devices \ {d} : phase'[e] = phase[e],
           UNCHANGED <<lobby, rooms, vc, names>>
    PROVE  Paired'
<1> USE DEF Settled
<1>1. /\ snapshot[d] = lobby /\ role[d] = "none" /\ seen[d] = Missing /\ vc[d] = "none"
      /\ \A e \in Devices \ {d} : ~Deciding(e)
    BY DEF Seating, Structure, UpToDate, SnapshotFresh, OneDecides, Deciding, RoomWrites
<1>2. /\ \A e \in Devices \ {d} : /\ role'[e] = role[e] /\ room'[e] = room[e]
                                  /\ pend'[e] = pend[e] /\ seen'[e] = seen[e]
      /\ role'[d] = RoleOf(write) /\ room'[d] = i
      /\ \/ pend'[d] = <<write>> /\ phase'[d] = "dead" /\ seen'[d] = Missing
         \/ /\ pend'[d] = <<write, EnterRoom(write)>>
            /\ seen'[d] = IF RoleOf(write) = "host" THEN NewRoom(d) ELSE Missing
    BY <1>1 DEF TypeOK
<1>3. /\ write = "takeGuest" <=> lobby[i] = "open"
      /\ write # "takeGuest" <=> lobby[i] = "none"
      /\ write \in LobbyWrites
    BY <1>1, SeatIsFree, SeatTypes DEF Readable
<1>4. ASSUME NEW r \in Rooms, rooms'[r] # Missing PROVE Earlier(r)' \/ Owned(r)'
    <2>1. CASE Earlier(r)
        <3>1. r # i
            BY <1>3, <2>1 DEF Earlier
        <3>q. QED BY <1>2, <2>1, <3>1 DEF Earlier
    <2>2. CASE Owned(r)
        <3>1. rooms[r].host # d /\ rooms[r].guest # d
            BY <1>1, <2>2, DevicesAssumption DEF Owned, HasSeat
        <3>q. QED BY <1>2, <2>2, <3>1 DEF Owned, HasSeat
    <2>q. QED BY <1>4, <2>1, <2>2 DEF Paired
<1>5. ASSUME NEW e \in Devices, NamesOf(e), e # d PROVE NamesOf(e)'
    <2>1. \A h \in Devices : role[h] # "none" => role'[h] = role[h] /\ room'[h] = room[h]
        BY <1>1, <1>2
    <2>q. QED BY <1>2, <1>5, <2>1, NamesKept
<1>6. ASSUME NEW e \in Devices, e # d PROVE DeviceRoom(e)'
    <2>1. DeviceRoom(e)
        BY DEF Paired
    <2>2. \A w : IsPending(e, w)' <=> IsPending(e, w)
        BY <1>2, <1>6 DEF IsPending
    <2>3. LocalView(e)' = LocalView(e)
        <3>1. rooms'[room'[e]] = rooms[room[e]]
            BY <1>2, <1>6
        <3>q. QED BY <2>2, <3>1, ViewKept
    <2>4. role[e] = "host" => HostRoom(e)'
        BY <1>2, <1>6, <2>1, <2>2 DEF DeviceRoom, HostRoom
    <2>5. role[e] = "guest" => GuestRoom(e)'
        BY <1>2, <1>6, <2>1, <2>3 DEF DeviceRoom, GuestRoom
    <2>q. QED BY <1>2, <1>5, <1>6, <2>1, <2>4, <2>5 DEF DeviceRoom
<1>7. ASSUME RoleOf(write) = "host" PROVE HostRoom(d)'
    <2>1. lobby[i] = "none"
        BY <1>3, <1>7 DEF RoleOf
    <2>2. rooms[i] = Missing
        <3>1. ~Earlier(i)
            BY <2>1 DEF Earlier
        <3>2. ~Owned(i)
            <4>1. \A e \in Devices \ {d} : ~HasLobbyWrite(e)
                BY <1>1 DEF Deciding
            <4>2. \A e \in Devices : HasSeat(e, i, "host") => FALSE
                BY <1>1, <2>1, <4>1 DEF Seating, UpToDate, SeatRecorded, HasSeat
            <4>q. QED BY <4>2 DEF Owned
        <3>q. QED BY <3>1, <3>2 DEF Paired
    <2>3. write # "activate" /\ EnterRoom(write) # "activate"
        BY <1>3, SeatTypes DEF LobbyWrites
    <2>4. ~IsPending(d, "activate")'
        BY <1>2, <2>3 DEF IsPending
    <2>5. EnterRoom(write) = "createRoom"
        BY <1>7 DEF RoleOf, EnterRoom
    <2>6. CASE pend'[d] = <<write, EnterRoom(write)>>
        <3>1. IsPending(d, "createRoom")'
            <4>1. 2 \in 1..Len(pend'[d]) /\ pend'[d][2] = "createRoom"
                BY <2>5, <2>6
            <4>q. QED BY <4>1 DEF IsPending
        <3>2. pend'[d] # <<write>>
            BY <2>6
        <3>3. seen'[d] = NewRoom(d)
            BY <1>2, <1>7, <3>2
        <3>q. QED BY <1>1, <1>2, <2>2, <2>4, <3>1, <3>3, MissingRoom DEF HostRoom
    <2>7. CASE seen'[d] = Missing /\ phase'[d] = "dead"
        BY <1>1, <1>2, <2>2, <2>4, <2>7 DEF HostRoom
    <2>q. QED BY <1>2, <2>6, <2>7
<1>8. ASSUME RoleOf(write) = "guest" PROVE GuestRoom(d)'
    BY <1>1, <1>2, <1>8 DEF GuestRoom
<1>9. NamesOf(d)'
    BY <1>1 DEF NamesOf
<1>10. DeviceRoom(d)'
    BY <1>2, <1>7, <1>8, <1>9 DEF DeviceRoom
<1>q. QED BY <1>4, <1>6, <1>10 DEF Paired

\* What the application of a write leaves alone: the other rooms, and who has
\* no seat in the room written.
LEMMA ApplyFrame ==
    ASSUME Settled, NEW d \in Devices, ApplyWrite(d)
    PROVE  /\ UNCHANGED <<room, role, seen, vc, names, phase>>
           /\ rooms'[room[d]] = RoomAfter(Head(pend[d]), d)
           /\ role[d] \in {"host", "guest"} /\ DeviceRoom(d)
           /\ IsPending(d, Head(pend[d])) /\ Head(pend[d]) \in Writes
           /\ \A e \in Devices \ {d} : \A write : IsPending(e, write)' <=> IsPending(e, write)
           /\ \A e \in Devices : NamesOf(e)'
           /\ \A r \in Rooms \ {room[d]} : rooms'[r] # Missing => Earlier(r)' \/ Owned(r)'
           /\ \A e \in Devices \ {d} :
                DeviceRoom(e)' \/ (room[e] = room[d] /\ role[e] # "none" /\ role[e] # role[d])
<1> USE DEF Settled
<1>1. /\ UNCHANGED <<room, role, seen, vc, names, phase>>
      /\ lobby' = LobbyAfter(lobby, Head(pend[d]), room[d])
      /\ pend[d] # <<>>
    BY DEF ApplyWrite, queueVars, gameVars
<1>2. /\ rooms'[room[d]] = RoomAfter(Head(pend[d]), d)
      /\ \A r \in Rooms \ {room[d]} : rooms'[r] = rooms[r]
    BY DEF ApplyWrite, TypeOK
<1>3. /\ role[d] \in {"host", "guest"} /\ room[d] \in Rooms
      /\ \A e \in Devices : DeviceRoom(e)
    BY <1>1 DEF Seating, Structure, TypeOK, Paired
<1>4. IsPending(d, Head(pend[d])) /\ Head(pend[d]) \in Writes
    <2>1. pend[d] \in Seq(Writes)
        BY DEF TypeOK
    <2>q. QED BY <1>1, <2>1, HeadIsPending
<1>5. \A e \in Devices \ {d} : \A write : IsPending(e, write)' <=> IsPending(e, write)
    <2>1. \A e \in Devices \ {d} : pend'[e] = pend[e]
        BY DEF ApplyWrite, TypeOK
    <2>q. QED BY <2>1 DEF IsPending
<1>6. \A e \in Devices : NamesOf(e)'
    BY <1>1, <1>3, NamesKept DEF DeviceRoom
<1>7. ASSUME NEW r \in Rooms \ {room[d]}, rooms'[r] # Missing
      PROVE  Earlier(r)' \/ Owned(r)'
    <2>1. rooms'[r] = rooms[r] /\ rooms[r] # Missing
        BY <1>2, <1>7
    <2>2. CASE Earlier(r)
        <3>1. Head(pend[d]) # "createLobby"
            <4>1. Head(pend[d]) = "createLobby" => lobby = EmptyLobby
                BY <1>1 DEF Seating, UpToDate, WriteFits, HasLobbyWrite, LobbyWrites
            <4>q. QED BY <2>2, <4>1 DEF Earlier, EmptyLobby
        <3>2. lobby'[r] = lobby[r]
            BY <1>1, <1>3, <3>1 DEF LobbyAfter, TypeOK
        <3>q. QED BY <1>1, <2>1, <2>2, <3>2 DEF Earlier
    <2>3. CASE Owned(r)
        BY <1>1, <2>1, <2>3 DEF Owned, HasSeat
    <2>q. QED BY <2>1, <2>2, <2>3 DEF Paired
<1>8. ASSUME NEW e \in Devices \ {d}
      PROVE  DeviceRoom(e)' \/ (room[e] = room[d] /\ role[e] # "none" /\ role[e] # role[d])
    <2>1. CASE role[e] = "none"
        BY <1>1, <1>6, <2>1 DEF DeviceRoom
    <2>2. CASE role[e] # "none" /\ room[e] # room[d]
        <3>1. rooms'[room'[e]] = rooms[room[e]]
            BY <1>1, <1>2, <2>2 DEF TypeOK
        <3>2. LocalView(e)' = LocalView(e)
            BY <1>5, <3>1, ViewKept
        <3>3. HostRoom(e) => HostRoom(e)'
            BY <1>1, <1>5, <3>1 DEF HostRoom
        <3>4. GuestRoom(e) => GuestRoom(e)'
            BY <1>1, <3>1, <3>2 DEF GuestRoom
        <3>q. QED BY <1>1, <1>3, <1>6, <3>3, <3>4 DEF DeviceRoom
    <2>3. CASE role[e] # "none" /\ room[e] = room[d]
        <3>1. role[e] # role[d]
            BY <1>3, <2>3 DEF Seating, UpToDate, SeatsAreExclusive, HasSeat
        <3>q. QED BY <2>3, <3>1
    <2>q. QED BY <2>1, <2>2, <2>3
<1>q. QED BY <1>1, <1>2, <1>3, <1>4, <1>5, <1>6, <1>7, <1>8

\* A write of d that leaves the room as it was.
LEMMA ApplyElsewhere ==
    ASSUME Settled, NEW d \in Devices, ApplyWrite(d), rooms'[room[d]] = rooms[room[d]],
           DeviceRoom(d)'
    PROVE  Paired'
<1>1. /\ UNCHANGED <<room, role, seen, vc, names, phase>>
      /\ room[d] \in Rooms /\ role[d] # "none" /\ role[d] \in {"host", "guest"}
      /\ \A e \in Devices : DeviceRoom(e) /\ NamesOf(e)'
    BY ApplyFrame DEF Settled, TypeOK, Paired
<1>2. rooms'[room[d]] # Missing => Owned(room[d])'
    BY <1>1, SeatedRoom DEF Owned, HasSeat
<1>3. \A r \in Rooms : rooms'[r] # Missing => Earlier(r)' \/ Owned(r)'
    BY <1>1, <1>2, ApplyFrame
<1>4. ASSUME NEW e \in Devices \ {d}, room[e] = room[d] PROVE DeviceRoom(e)'
    <2>1. rooms'[room'[e]] = rooms[room[e]]
        BY <1>1, <1>4
    <2>2. \A write : IsPending(e, write)' <=> IsPending(e, write)
        BY ApplyFrame
    <2>3. LocalView(e)' = LocalView(e)
        BY <2>1, <2>2, ViewKept
    <2>4. HostRoom(e) => HostRoom(e)'
        BY <1>1, <2>1, <2>2 DEF HostRoom
    <2>5. GuestRoom(e) => GuestRoom(e)'
        BY <1>1, <2>1, <2>3 DEF GuestRoom
    <2>q. QED BY <1>1, <2>4, <2>5 DEF DeviceRoom
<1>5. \A e \in Devices : DeviceRoom(e)'
    BY <1>4, ApplyFrame
<1>q. QED BY <1>3, <1>5 DEF Paired

\* A write of d that changes its room: what is left to see is the room, d, and
\* the device d shares it with.
LEMMA ApplyHere ==
    ASSUME Settled, NEW d \in Devices, ApplyWrite(d), Owned(room[d])', DeviceRoom(d)',
           \A e \in Devices \ {d} : room[e] = room[d] =>
             /\ role[e] = "host" /\ role[d] = "guest" => HostRoom(e)'
             /\ role[e] = "guest" /\ role[d] = "host" => GuestRoom(e)'
    PROVE  Paired'
<1>1. UNCHANGED <<room, role>> /\ room[d] \in Rooms /\ role[d] \in {"host", "guest"}
    BY ApplyFrame DEF Settled, TypeOK
<1>2. \A r \in Rooms : rooms'[r] # Missing => Earlier(r)' \/ Owned(r)'
    BY <1>1, ApplyFrame
<1>3. ASSUME NEW e \in Devices \ {d} PROVE DeviceRoom(e)'
    <2>1. NamesOf(e)'
        BY ApplyFrame
    <2>2. CASE room[e] = room[d] /\ role[e] # "none" /\ role[e] # role[d]
        BY <1>1, <2>1, <2>2 DEF DeviceRoom
    <2>q. QED BY <2>2, ApplyFrame
<1>q. QED BY <1>2, <1>3 DEF Paired

\* A write to the lobby.
LEMMA SeatApplied ==
    ASSUME Settled, NEW d \in Devices, ApplyWrite(d), Head(pend[d]) \in LobbyWrites
    PROVE  Paired'
<1>1. /\ UNCHANGED <<room, role, seen, vc, names, phase>>
      /\ rooms'[room[d]] = rooms[room[d]]
    BY ApplyFrame DEF RoomAfter, LobbyWrites
<1>2. \A write \in {"createRoom", "joinRoom", "activate"} :
        IsPending(d, write)' <=> IsPending(d, write)
    BY AppliedPending, TailIsPending DEF Settled, LobbyWrites
<1>3. LocalView(d)' = LocalView(d)
    BY <1>1, <1>2, ViewKept
<1>4. HostRoom(d) => HostRoom(d)'
    BY <1>1, <1>2 DEF HostRoom
<1>5. GuestRoom(d) => GuestRoom(d)'
    BY <1>1, <1>3 DEF GuestRoom
<1>6. DeviceRoom(d) /\ NamesOf(d)'
    BY ApplyFrame
<1>7. DeviceRoom(d)'
    BY <1>1, <1>4, <1>5, <1>6 DEF DeviceRoom
<1>q. QED BY <1>1, <1>7, ApplyElsewhere

\* The host creates its room.
LEMMA RoomCreated ==
    ASSUME Settled, NEW d \in Devices, ApplyWrite(d), Head(pend[d]) = "createRoom"
    PROVE  Paired'
<1>1. /\ UNCHANGED <<room, role, seen, vc, names, phase>>
      /\ rooms'[room[d]] = NewRoom(d)
      /\ DeviceRoom(d) /\ NamesOf(d)' /\ IsPending(d, "createRoom")
    BY ApplyFrame DEF RoomAfter
<1>2. role[d] = "host" /\ HostRoom(d) /\ rooms[room[d]] = Missing
    BY <1>1 DEF Settled, RoomWrites, DeviceRoom, HostRoom
<1>3. vc[d] = "none" /\ (seen[d] # Missing => seen[d] = NewRoom(d))
      /\ ~IsPending(d, "activate")
    BY <1>2, MissingRoom DEF HostRoom
<1>4. ~IsPending(d, "createRoom")' /\ ~IsPending(d, "activate")'
    <2>1. ~IsPending(d, "createRoom")'
        BY EnteredOnce DEF Entering, Settled
    <2>2. ~IsPending(d, "activate")'
        BY <1>3, TailIsPending DEF Settled
    <2>q. QED BY <2>1, <2>2
<1>5. HostRoom(d)'
    BY <1>1, <1>2, <1>3, <1>4, MissingRoom DEF HostRoom
<1>6. DeviceRoom(d)'
    BY <1>1, <1>2, <1>5 DEF DeviceRoom
<1>7. Owned(room[d])'
    BY <1>1, <1>2 DEF Owned, HasSeat, NewRoom
<1>8. ASSUME NEW e \in Devices \ {d}, room[e] = room[d], role[e] = "guest"
      PROVE  GuestRoom(e)'
    <2>1. GuestRoom(e)
        BY <1>8 DEF Settled, Paired, DeviceRoom
    <2>2. seen[e] = Missing /\ vc[e] = "none"
        BY <1>2, <1>8, <2>1, MissingRoom DEF GuestRoom
    <2>q. QED BY <1>1, <2>2 DEF GuestRoom
<1>q. QED BY <1>2, <1>6, <1>7, <1>8, ApplyHere

\* The guest writes its name into the room.
LEMMA RoomJoined ==
    ASSUME Settled, NEW d \in Devices, ApplyWrite(d), Head(pend[d]) = "joinRoom"
    PROVE  Paired'
<1>1. /\ UNCHANGED <<room, role, seen, vc, names, phase>>
      /\ DeviceRoom(d) /\ NamesOf(d)' /\ IsPending(d, "joinRoom")
      /\ rooms'[room[d]] = IF rooms[room[d]] = Missing THEN Missing
                           ELSE [rooms[room[d]] EXCEPT !.guest = d]
    BY ApplyFrame DEF RoomAfter
<1>2. role[d] = "guest" /\ GuestRoom(d)
    BY <1>1 DEF Settled, RoomWrites, DeviceRoom
<1>3. CASE rooms[room[d]] = Missing
    <2>1. seen[d] = Missing /\ vc[d] = "none"
        BY <1>2, <1>3, MissingRoom DEF GuestRoom
    <2>2. GuestRoom(d)'
        BY <1>1, <2>1 DEF GuestRoom
    <2>3. DeviceRoom(d)'
        BY <1>1, <1>2, <2>2 DEF DeviceRoom
    <2>q. QED BY <1>1, <1>3, <2>3, ApplyElsewhere
<1>4. CASE rooms[room[d]] # Missing
    <2>1. /\ Owned(room[d]) /\ (rooms[room[d]].guest # Nobody => rooms[room[d]].guest = d)
          /\ rooms[room[d]] \in RoomDocs /\ rooms'[room[d]] = [rooms[room[d]] EXCEPT !.guest = d]
        BY <1>1, <1>2, <1>4, SeatedRoom DEF Settled, TypeOK
    <2>2. /\ rooms'[room[d]].host = rooms[room[d]].host /\ rooms'[room[d]].guest = d
          /\ rooms'[room[d]].gameStatus = rooms[room[d]].gameStatus
        BY <2>1 DEF RoomDocs
    <2>3. rooms'[room[d]] # Missing
        BY <2>2, MissingRoom, DevicesAssumption
    <2>4. Owned(room[d])'
        BY <1>1, <1>2, <2>1, <2>2, DevicesAssumption DEF Owned, HasSeat
    <2>5. /\ ~IsPending(d, "createRoom") /\ ~IsPending(d, "activate")
          /\ ~IsPending(d, "createRoom")' /\ ~IsPending(d, "activate")'
          /\ ~IsPending(d, "joinRoom")'
        <3>1. ~IsPending(d, "createRoom") /\ ~IsPending(d, "activate")
            BY <1>2 DEF Settled, RoomWrites
        <3>2. ~IsPending(d, "createRoom")' /\ ~IsPending(d, "joinRoom")'
            BY EnteredOnce DEF Entering, Settled
        <3>3. ~IsPending(d, "activate")'
            BY <3>1, TailIsPending DEF Settled
        <3>q. QED BY <3>1, <3>2, <3>3
    <2>6. LocalView(d)' = LocalView(d)
        <3>1. LocalView(d) = rooms'[room[d]]
            BY <1>1, <1>2, <1>4, <2>1, GuestView
        <3>2. LocalView(d)' = [rooms'[room[d]] EXCEPT
                !.guest = rooms'[room[d]].guest,
                !.gameStatus = rooms'[room[d]].gameStatus]
            BY <1>1, <2>3, <2>5 DEF LocalView
        <3>3. rooms'[room[d]] \in RoomDocs
            BY <2>1 DEF RoomDocs
        <3>q. QED BY <3>1, <3>2, <3>3 DEF RoomDocs
    <2>7. GuestRoom(d)'
        BY <1>1, <1>2, <2>2, <2>3, <2>6 DEF GuestRoom
    <2>8. DeviceRoom(d)'
        BY <1>1, <1>2, <2>7 DEF DeviceRoom
    <2>9. ASSUME NEW e \in Devices \ {d}, room[e] = room[d], role[e] = "host"
          PROVE  HostRoom(e)'
        <3>1. HostRoom(e)
            BY <2>9 DEF Settled, Paired, DeviceRoom
        <3>2. \A write : IsPending(e, write)' <=> IsPending(e, write)
            BY ApplyFrame
        <3>3. ~IsPending(e, "createRoom")
            BY <1>4, <2>9, <3>1 DEF HostRoom
        <3>4. rooms'[room'[e]] # Missing /\ rooms'[room'[e]].guest # Nobody
            BY <1>1, <2>2, <2>3, <2>9, DevicesAssumption
        <3>q. QED BY <1>1, <3>1, <3>2, <3>3, <3>4 DEF HostRoom
    <2>q. QED BY <1>2, <2>4, <2>8, <2>9, ApplyHere
<1>q. QED BY <1>3, <1>4

\* The host activates the room after it was told of its guest.
LEMMA RoomActivated ==
    ASSUME Settled, NEW d \in Devices, ApplyWrite(d), Head(pend[d]) = "activate"
    PROVE  Paired'
<1>1. /\ UNCHANGED <<room, role, seen, vc, names, phase>>
      /\ DeviceRoom(d) /\ NamesOf(d)' /\ IsPending(d, "activate")
    BY ApplyFrame
<1>2. role[d] = "host" /\ HostRoom(d) /\ vc[d] # "none" /\ rooms[room[d]].guest # Nobody
    BY <1>1 DEF Settled, RoomWrites, DeviceRoom, HostRoom
<1>3. rooms[room[d]] # Missing /\ rooms[room[d]] \in RoomDocs
    BY <1>2, MissingRoom DEF Settled, TypeOK
<1>4. rooms'[room[d]] = [rooms[room[d]] EXCEPT !.gameStatus = "Active"]
    BY <1>3, ApplyFrame DEF RoomAfter
<1>5. /\ rooms'[room[d]].host = rooms[room[d]].host
      /\ rooms'[room[d]].guest = rooms[room[d]].guest
      /\ rooms'[room[d]].gameStatus = "Active"
    BY <1>3, <1>4 DEF RoomDocs
<1>6. rooms'[room[d]] # Missing
    BY <1>5, MissingRoom
<1>7. Owned(room[d]) /\ rooms[room[d]].host = d
    BY <1>2, <1>3, SeatedRoom
<1>8. Owned(room[d])'
    BY <1>1, <1>2, <1>5, <1>7 DEF Owned, HasSeat
<1>9. ~IsPending(d, "createRoom")'
    BY <1>2, <1>3, TailIsPending DEF HostRoom, Settled
<1>10. HostRoom(d)'
    BY <1>1, <1>2, <1>5, <1>6, <1>9 DEF HostRoom
<1>11. DeviceRoom(d)'
    BY <1>1, <1>2, <1>10 DEF DeviceRoom
<1>12. ASSUME NEW e \in Devices \ {d}, room[e] = room[d], role[e] = "guest"
       PROVE  GuestRoom(e)'
    BY <1>1, <1>5, <1>6, <1>12 DEF GuestRoom
<1>q. QED BY <1>2, <1>8, <1>11, <1>12, ApplyHere

LEMMA ApplyPairs ==
    ASSUME Settled, NEW d \in Devices, ApplyWrite(d)
    PROVE  Paired'
<1>1. Head(pend[d]) \in LobbyWrites \cup {"createRoom", "joinRoom", "activate"}
    BY ApplyFrame DEF Writes
<1>q. QED BY <1>1, SeatApplied, RoomCreated, RoomJoined, RoomActivated

LEMMA PairedStep == TypeOK /\ Seating /\ RoomWrites /\ Paired /\ [Next]_vars => Paired'
<1> SUFFICES ASSUME TypeOK, Seating, RoomWrites, Paired, [Next]_vars, ~outdated' PROVE Paired'
    BY DEF Paired
<1>1. ~outdated
    <2>1. ASSUME NEW d \in Devices, ServeLobby(d) \/ CachedLobby(d) PROVE outdated => outdated'
        BY <2>1 DEF ServeLobby, CachedLobby
    <2>q. QED BY <2>1 DEF Next, vars, history, LoadUser, MultiplayerQueue, ReadLobbyFails,
                          AssignHostGuest, AssignTraps, ApplyWrite, RoomAdded,
                          RoomModified, TransitionData, GameAppears, Quit
<1>2. Settled
    BY <1>1 DEF Settled
<1>3. ASSUME NEW d \in Devices,
             \/ LoadUser(d) \/ MultiplayerQueue(d) \/ ServeLobby(d) \/ CachedLobby(d) \/ ReadLobbyFails(d)
             \/ Quit(d)
      PROVE  Paired'
    <2>1. UNCHANGED <<lobby, rooms, room, role, pend, seen, vc, names>>
        BY <1>3 DEF LoadUser, MultiplayerQueue, ServeLobby, CachedLobby, ReadLobbyFails, Quit,
                    serverVars, gameVars
    <2>2. \A e \in Devices : phase'[e] = "seated" => phase[e] = "seated"
        BY <1>3 DEF TypeOK, LoadUser, MultiplayerQueue, ServeLobby, CachedLobby, ReadLobbyFails, Quit
    <2>q. QED BY <1>2, <2>1, <2>2, QuietRooms
<1>4. ASSUME NEW d \in Devices, AssignHostGuest(d) PROVE Paired'
    <2>1. /\ phase[d] = "deciding" /\ Readable(snapshot[d])
          /\ \A e \in Devices \ {d} : phase'[e] = phase[e]
          /\ UNCHANGED <<lobby, rooms, vc, names>>
        BY <1>4 DEF AssignHostGuest, TypeOK, serverVars, gameVars
    <2>2. PICK i \in Rooms :
            /\ IsSeat(snapshot[d], i)
            /\ room' = [room EXCEPT ![d] = i]
            /\ role' = [role EXCEPT ![d] = RoleOf(SeatWrite(snapshot[d], i))]
            /\ pend' = [pend EXCEPT ![d] = <<SeatWrite(snapshot[d], i),
                                             EnterRoom(SeatWrite(snapshot[d], i))>>]
            /\ seen' = [seen EXCEPT ![d] =
                          IF RoleOf(SeatWrite(snapshot[d], i)) = "host"
                          THEN NewRoom(d) ELSE Missing]
        BY <1>4 DEF AssignHostGuest
    <2>q. QED BY <1>2, <2>1, <2>2, AssignPairs
<1>5. ASSUME NEW d \in Devices, AssignTraps(d) PROVE Paired'
    <2>1. /\ phase[d] = "deciding" /\ phase'[d] = "dead"
          /\ \A e \in Devices \ {d} : phase'[e] = phase[e]
          /\ UNCHANGED <<lobby, rooms, seen, vc, names>>
        BY <1>5 DEF AssignTraps, TypeOK, serverVars, gameVars
    <2>2. CASE UNCHANGED <<room, role, pend>>
        <3>1. \A e \in Devices : phase'[e] = "seated" => phase[e] = "seated"
            BY <2>1
        <3>q. QED BY <1>2, <2>1, <2>2, <3>1, QuietRooms
    <2>3. ASSUME NEW i \in Rooms, Readable(snapshot[d]), IsSeat(snapshot[d], i),
                 room' = [room EXCEPT ![d] = i],
                 role' = [role EXCEPT ![d] = RoleOf(SeatWrite(snapshot[d], i))],
                 pend' = [pend EXCEPT ![d] = <<SeatWrite(snapshot[d], i)>>]
          PROVE  Paired'
        BY <1>2, <2>1, <2>3, AssignPairs
    <2>q. QED BY <1>5, <2>2, <2>3 DEF AssignTraps
<1>6. CASE UNCHANGED vars
    <2>1. UNCHANGED <<lobby, rooms, room, role, pend, seen, vc, names, phase>>
        BY <1>6 DEF vars, serverVars, queueVars, gameVars, history
    <2>q. QED BY <1>2, <2>1, QuietRooms
<1>q. QED BY <1>2, <1>3, <1>4, <1>5, <1>6, ApplyPairs, RoomAddedPairs, RoomModifiedPairs,
             GameSteps DEF Next

LEMMA PairedInvariant == Spec => [](TypeOK /\ Seating /\ RoomWrites /\ Paired)
<1>1. TypeOK /\ Seating /\ [Next]_vars => Seating'
    BY StructureStep, UpToDateStep DEF Seating
<1>2. TypeOK /\ Seating /\ RoomWrites /\ [Next]_vars => RoomWrites'
    BY RoomWritesStep DEF Seating
<1>q. QED BY <1>1, <1>2, TypeInit, TypeStep, SeatingInit, RoomsInit, PairedStep, PTL DEF Spec

\* Two devices that open GameVC for one room were given the names of the same
\* two players, although each read them at its own moment, behind its own
\* writes, and failures may come between.
THEOREM NamesAlwaysAgree == Spec => []NamesAgree
<1>1. Paired => NamesAgree
    BY DEF Paired, DeviceRoom, NamesOf, NamesAgree
<1>q. QED BY <1>1, PairedInvariant, PTL

\* A guest opens GameVC only for a room whose host has opened its own.
THEOREM GuestAlwaysFollowsHost == Spec => []GuestFollowsHost
<1>1. TypeOK /\ Seating /\ RoomWrites /\ Paired => GuestFollowsHost
    <2> SUFFICES ASSUME TypeOK, Seating, RoomWrites, Paired, ~outdated,
                        NEW d \in Devices, role[d] = "guest", vc[d] # "none"
                 PROVE  \E e \in Devices : HasSeat(e, room[d], "host") /\ vc[e] # "none"
        BY DEF GuestFollowsHost
    <2>1. Settled
        BY DEF Settled
    <2>2. rooms[room[d]].gameStatus = "Active"
        BY DEF Paired, DeviceRoom, GuestRoom
    <2>3. rooms[room[d]] # Missing
        BY <2>2, MissingRoom
    <2>4. Owned(room[d])
        BY <2>1, <2>3, SeatedRoom
    <2>q. QED BY <2>2, <2>4 DEF Owned
<1>q. QED BY <1>1, PairedInvariant, PTL

(* --------------------------- pairs in order ----------------------------- *)

\* The lobby says "guest" of the rooms that earlier players left and of those
\* with both seats given.
LobbyRecords == ~outdated => \A r \in Rooms : lobby[r] = "guest" =>
    \/ rooms[r] = OldRoom
    \/ \E h, g \in Devices : HasSeat(h, r, "host") /\ HasSeat(g, r, "guest")

\* GameVC gets its data once.
ToldOnce == \A d \in Devices : vc[d] \in {"none", "presenting", "blank"} => names[d] = NoNames

\* What is known of the queue before and after each step.
Kept == TypeOK /\ Seating /\ RoomWrites /\ Paired

LEMMA OrderInit == Init => LobbyRecords /\ ToldOnce
<1> SUFFICES ASSUME Init PROVE LobbyRecords /\ ToldOnce
    OBVIOUS
<1>1. PICK n \in 0..OldRooms :
         /\ lobby = Filled(n)
         /\ rooms = [r \in Rooms |-> IF r < n THEN OldRoom ELSE Missing]
    BY DEF Init
<1>2. LobbyRecords
    BY <1>1 DEF LobbyRecords, Filled
<1>3. ToldOnce
    BY DEF Init, ToldOnce
<1>q. QED BY <1>2, <1>3

\* Nobody gives up or changes a seat.
LEMMA SeatsKept ==
    ASSUME TypeOK, Structure, [Next]_vars, NEW d \in Devices, role[d] # "none"
    PROVE  role'[d] = role[d] /\ room'[d] = room[d]
<1> USE DEF serverVars, queueVars, gameVars, history
<1>1. CASE UNCHANGED <<role, room>>
    BY <1>1
<1>2. ASSUME NEW e \in Devices, AssignHostGuest(e) \/ AssignTraps(e)
      PROVE  role'[d] = role[d] /\ room'[d] = room[d]
    <2>1. e # d
        BY <1>2 DEF AssignHostGuest, AssignTraps, Structure
    <2>2. CASE UNCHANGED <<role, room>>
        BY <2>2
    <2>3. ASSUME NEW i \in Rooms, NEW who,
                 room' = [room EXCEPT ![e] = i], role' = [role EXCEPT ![e] = who]
          PROVE  role'[d] = role[d] /\ room'[d] = room[d]
        BY <2>1, <2>3 DEF TypeOK
    <2>q. QED BY <1>2, <2>2, <2>3 DEF AssignHostGuest, AssignTraps
<1>q. QED BY <1>1, <1>2 DEF Next, vars, LoadUser, MultiplayerQueue, ServeLobby, CachedLobby, ReadLobbyFails,
                          ApplyWrite, RoomAdded, RoomModified, TransitionData, GameAppears, Quit

\* The rooms that earlier players left stay as they are, and no room of the
\* players becomes one of them.
LEMMA ClosedKept ==
    ASSUME Settled, Settled', [Next]_vars
    PROVE  Closed' = Closed
<1> USE DEF serverVars, queueVars, gameVars, history
<1>1. ASSUME NEW r \in Rooms, rooms[r] = OldRoom
      PROVE  Earlier(r)
    <2>1. rooms[r] # Missing /\ rooms[r].host = Nobody
        BY <1>1 DEF OldRoom, Missing
    <2>q. QED BY <2>1, DevicesAssumption DEF Settled, Paired, Owned
<1>2. ASSUME NEW r \in Rooms, rooms'[r] = OldRoom
      PROVE  Earlier(r)'
    <2>1. rooms'[r] # Missing /\ rooms'[r].host = Nobody
        BY <1>2 DEF OldRoom, Missing
    <2>q. QED BY <2>1, DevicesAssumption DEF Settled, Paired, Owned
<1>3. ASSUME NEW d \in Devices, ApplyWrite(d), NEW r \in Rooms
      PROVE  rooms'[r] = OldRoom <=> rooms[r] = OldRoom
    <2>1. role[d] # "none" /\ role'[d] = role[d] /\ room'[d] = room[d]
        BY <1>3 DEF ApplyWrite, Settled, Seating, Structure
    <2>2. r = room[d] => rooms[r] # OldRoom /\ rooms'[r] # OldRoom
        BY <1>1, <1>2, <2>1 DEF Earlier
    <2>3. r # room[d] => rooms'[r] = rooms[r]
        BY <1>3 DEF ApplyWrite, Settled, TypeOK
    <2>q. QED BY <2>2, <2>3
<1>4. \/ UNCHANGED rooms
      \/ \E d \in Devices : ApplyWrite(d)
    BY DEF Next, vars, LoadUser, MultiplayerQueue, ServeLobby, CachedLobby, ReadLobbyFails, AssignHostGuest,
           AssignTraps, RoomAdded, RoomModified, TransitionData, GameAppears, Quit
<1>5. \A r \in Rooms : rooms'[r] = OldRoom <=> rooms[r] = OldRoom
    BY <1>3, <1>4
<1>q. QED BY <1>5 DEF Closed

\* A decision on an outdated lobby is not undone.
LEMMA OutdatedKept ==
    ASSUME TypeOK, [Next]_vars, outdated PROVE outdated'
<1>1. ASSUME NEW d \in Devices, ServeLobby(d) \/ CachedLobby(d) PROVE outdated'
    BY <1>1 DEF ServeLobby, CachedLobby
<1>q. QED BY <1>1 DEF Next, vars, history, LoadUser, MultiplayerQueue, ReadLobbyFails,
                      AssignHostGuest, AssignTraps, ApplyWrite, RoomAdded,
                      RoomModified, TransitionData, GameAppears, Quit

\* A room gets the second of its seats with the write of its guest.
LEMMA RecordsStep ==
    ASSUME Kept, Kept', LobbyRecords, [Next]_vars
    PROVE  LobbyRecords'
<1> USE DEF serverVars, queueVars, gameVars, history
<1>1. SUFFICES ASSUME ~outdated', NEW r \in Rooms, lobby'[r] = "guest"
               PROVE  \/ rooms'[r] = OldRoom
                      \/ \E h, g \in Devices :
                           HasSeat(h, r, "host")' /\ HasSeat(g, r, "guest")'
    BY DEF LobbyRecords
<1>2. Settled /\ Settled'
    BY <1>1, OutdatedKept DEF Kept, Settled
<1>3. TypeOK /\ Structure /\ UpToDate /\ ~outdated
    BY <1>2 DEF Settled, Seating
<1>4. \A d \in Devices : role[d] # "none" => role'[d] = role[d] /\ room'[d] = room[d]
    BY <1>3, SeatsKept
<1>5. CASE lobby[r] = "guest"
    <2>1. rooms[r] = OldRoom => rooms'[r] = OldRoom
        BY <1>2, ClosedKept DEF Closed
    <2>q. QED BY <1>3, <1>4, <1>5, <2>1 DEF LobbyRecords, HasSeat
<1>6. CASE lobby[r] # "guest"
    <2>1. PICK d \in Devices : ApplyWrite(d)
        BY <1>1, <1>6 DEF Next, vars, LoadUser, MultiplayerQueue, ServeLobby, CachedLobby, ReadLobbyFails,
           AssignHostGuest, AssignTraps, RoomAdded, RoomModified, TransitionData, GameAppears, Quit
    <2>2. lobby' = LobbyAfter(lobby, Head(pend[d]), room[d]) /\ pend[d] # <<>>
        BY <2>1 DEF ApplyWrite
    <2>3. Head(pend[d]) = "takeGuest" /\ r = room[d]
        BY <1>1, <1>3, <1>6, <2>2 DEF LobbyAfter, EmptyLobby, TypeOK
    <2>4. HasLobbyWrite(d)
        BY <2>2, <2>3 DEF HasLobbyWrite, LobbyWrites
    <2>5. lobby[r] = "open" /\ role[d] = "guest"
        BY <1>3, <2>3, <2>4 DEF UpToDate, WriteFits, Structure, RoleOf
    <2>6. PICK h \in Devices : HasSeat(h, r, "host")
        BY <1>3, <2>5 DEF UpToDate, OpenHasHost
    <2>q. QED BY <1>4, <2>3, <2>5, <2>6 DEF HasSeat
<1>q. QED BY <1>5, <1>6

\* Data comes once: TransitionData leaves the states in which it may.
LEMMA ToldStep ==
    ASSUME TypeOK, RoomWrites, ToldOnce, [Next]_vars
    PROVE  ToldOnce'
<1> USE DEF serverVars, queueVars, gameVars, history
<1>1. CASE UNCHANGED <<vc, names>>
    BY <1>1 DEF ToldOnce
<1>2. ASSUME NEW d \in Devices, RoomModified(d) \/ GameAppears(d)
      PROVE  ToldOnce'
    <2>1. /\ UNCHANGED names
          /\ \A e \in Devices : vc'[e] \in {"none", "presenting", "blank"} =>
               vc[e] \in {"none", "presenting", "blank"}
        BY <1>2 DEF RoomModified, GameAppears, TypeOK
    <2>q. QED BY <2>1 DEF ToldOnce
<1>3. ASSUME NEW d \in Devices, TransitionData(d)
      PROVE  ToldOnce'
    <2>1. vc'[d] \in {"configured", "late"}
        BY <1>3 DEF TransitionData, TypeOK
    <2>2. \A e \in Devices : e # d => vc'[e] = vc[e] /\ names'[e] = names[e]
        BY <1>3 DEF TransitionData, TypeOK
    <2>q. QED BY <2>1, <2>2 DEF ToldOnce
<1>q. QED BY <1>1, <1>2, <1>3 DEF Next, vars, LoadUser, MultiplayerQueue, ServeLobby, CachedLobby,
                          ReadLobbyFails, AssignHostGuest, AssignTraps, ApplyWrite, RoomAdded, Quit

\* The order of the pairs, and what it is kept by.
Ordered == Kept /\ LobbyRecords /\ ToldOnce

\* Without an outdated decision the holder of a seat is the device that has it.
LEMMA HolderIs ==
    ASSUME SeatsAreExclusive, ~outdated, NEW d \in Devices, NEW r, NEW who,
           who # "none", HasSeat(d, r, who)
    PROVE  Holder(r, who) = d
<1>1. \A e \in Devices : HasSeat(e, r, who) => e = d
    BY DEF SeatsAreExclusive, HasSeat
<1> DEFINE Sitting(e) == HasSeat(e, r, who)
<1>2. /\ Sitting(d) /\ \A e \in Devices : Sitting(e) => e = d
    BY <1>1
<1>3. (CHOOSE e \in Devices : Sitting(e)) = d
    <2> HIDE DEF Sitting
    <2>q. QED BY <1>2
<1>q. QED BY <1>2, <1>3 DEF Holder

\* The holder is a device that has the seat, or nobody.
LEMMA HolderSits == \A r, who :
    IF \E d \in Devices : HasSeat(d, r, who)
    THEN Holder(r, who) \in Devices /\ HasSeat(Holder(r, who), r, who)
    ELSE Holder(r, who) = Nobody
<1> SUFFICES ASSUME NEW r, NEW who
             PROVE  IF \E d \in Devices : HasSeat(d, r, who)
                    THEN Holder(r, who) \in Devices /\ HasSeat(Holder(r, who), r, who)
                    ELSE Holder(r, who) = Nobody
    OBVIOUS
<1> DEFINE Sitting(e) == HasSeat(e, r, who)
<1>1. (\E d \in Devices : Sitting(d)) =>
        (CHOOSE e \in Devices : Sitting(e)) \in Devices
        /\ Sitting(CHOOSE e \in Devices : Sitting(e))
    <2> HIDE DEF Sitting
    <2>q. QED OBVIOUS
<1>q. QED BY <1>1 DEF Holder

\* The seats of every room, as the players see them.
Seated == \A r \in Rooms : \A who \in {"host", "guest"} :
    /\ Given(who)[r] \in Devices \cup {Nobody}
    /\ \A d \in Devices : Given(who)[r] = d <=> HasSeat(d, r, who)

\* That is how it is as long as nobody decided on an outdated lobby.
LEMMA SeatedHolds == Settled => Seated
<1> SUFFICES ASSUME Settled, NEW r \in Rooms, NEW who \in {"host", "guest"}
             PROVE  /\ Given(who)[r] \in Devices \cup {Nobody}
                    /\ \A d \in Devices : Given(who)[r] = d <=> HasSeat(d, r, who)
    BY DEF Seated
<1>1. Given(who)[r] = Holder(r, who)
    BY DEF Given
<1>2. SeatsAreExclusive /\ ~outdated
    BY DEF Settled, Seating, UpToDate
<1>3. Holder(r, who) \in Devices \cup {Nobody}
    BY HolderSits
<1>4. ASSUME NEW d \in Devices, HasSeat(d, r, who) PROVE Holder(r, who) = d
    BY <1>2, <1>4, HolderIs
<1>5. ASSUME NEW d \in Devices, Holder(r, who) = d PROVE HasSeat(d, r, who)
    BY <1>5, HolderSits, DevicesAssumption
<1>q. QED BY <1>1, <1>3, <1>4, <1>5

\* A function of the rooms, changed at one.
LEMMA RoomChanged ==
    ASSUME NEW f, NEW g, NEW i \in Rooms, NEW d,
           f = [r \in Rooms |-> f[r]], g = [r \in Rooms |-> g[r]],
           g[i] = d, \A r \in Rooms : r # i => g[r] = f[r]
    PROVE  g = [f EXCEPT ![i] = d]
<1> DEFINE h == [f EXCEPT ![i] = d]
<1>1. h = [r \in Rooms |-> IF r = i THEN d ELSE f[r]]
    OBVIOUS
<1>2. \A r \in Rooms : h[r] = g[r]
    BY <1>1
<1>3. h = [r \in Rooms |-> h[r]]
    BY <1>1
<1> HIDE DEF h
<1>4. g = h
    BY <1>2, <1>3
<1>q. QED BY <1>4 DEF h

LEMMA GivenShape == \A who : Given(who) = [r \in Rooms |-> Given(who)[r]]
BY DEF Given

\* Seats that are not given stay free, in the eyes of the players too.
LEMMA GivenKept ==
    ASSUME UNCHANGED <<room, role>>, NEW who
    PROVE  Given(who)' = Given(who)
<1>1. \A d, r : HasSeat(d, r, who)' <=> HasSeat(d, r, who)
    BY DEF HasSeat
<1>2. \A r : Holder(r, who)' = Holder(r, who)
    BY <1>1 DEF Holder, HasSeat
<1>q. QED BY <1>2 DEF Given

\* A step that gives no seat, presents no GameVC and gives it no data does not
\* show.
LEMMA Unnoticed ==
    ASSUME Settled, Settled', [Next]_vars, UNCHANGED <<room, role, names, outdated>>,
           \A d \in Devices : vc'[d] # "none" <=> vc[d] # "none"
    PROVE  UNCHANGED Queue!vars
<1>1. Closed' = Closed
    BY ClosedKept
<1>2. Given("host")' = Given("host") /\ Given("guest")' = Given("guest")
    BY GivenKept
<1>3. Shown' = Shown
    BY DEF Shown
<1>q. QED BY <1>1, <1>2, <1>3 DEF Queue!vars, Queue!seatVars

\* A room that earlier players left is full in the lobby.
LEMMA ClosedIsGuest ==
    ASSUME Settled, NEW r \in Rooms, r \in Closed
    PROVE  lobby[r] = "guest"
<1>1. rooms[r] # Missing /\ rooms[r].host = Nobody
    BY DEF Closed, OldRoom, Missing
<1>q. QED BY <1>1, DevicesAssumption DEF Settled, Paired, Owned, Earlier

\* What a device that decides finds, if no other does: the rooms before the one
\* it stops at are full, and of that one the seat it writes is free.
LEMMA DeciderFinds ==
    ASSUME Settled, LobbyRecords, NEW d \in Devices, phase[d] = "deciding",
           NEW i \in Rooms, IsSeat(snapshot[d], i)
    PROVE  /\ snapshot[d] = lobby /\ role[d] = "none"
           /\ Queue!IsNext(i)
           /\ lobby[i] = "open" <=> Given("host")[i] # Nobody
           /\ Given("guest")[i] = Nobody
<1>1. Structure /\ UpToDate /\ ~outdated /\ TypeOK
    BY DEF Settled, Seating
<1>2. Seated
    BY SeatedHolds
<1>3. snapshot[d] = lobby /\ role[d] = "none"
    BY <1>1 DEF UpToDate, SnapshotFresh, Structure
<1>4. \A e \in Devices : e # d => ~HasLobbyWrite(e)
    BY <1>1 DEF UpToDate, OneDecides, Deciding
<1>5. lobby[i] # "guest" /\ \A q \in Rooms : q < i => lobby[q] = "guest"
    BY <1>3 DEF IsSeat
<1>6. \A e \in Devices : ~HasSeat(e, i, "guest")
    BY <1>1, <1>3, <1>4, <1>5 DEF UpToDate, SeatRecorded, HasSeat
<1>7. Given("guest")[i] = Nobody
    BY <1>2, <1>6 DEF Seated
<1>8. lobby[i] = "open" => Given("host")[i] # Nobody
    BY <1>1, <1>2, DevicesAssumption DEF UpToDate, OpenHasHost, Seated
<1>9. lobby[i] # "open" => Given("host")[i] = Nobody
    <2>1. SUFFICES ASSUME lobby[i] # "open" PROVE \A e \in Devices : ~HasSeat(e, i, "host")
        BY <1>2 DEF Seated
    <2>2. lobby[i] = "none"
        BY <1>1, <1>5, <2>1 DEF TypeOK, Seats
    <2>q. QED BY <1>1, <1>3, <1>4, <2>2 DEF UpToDate, SeatRecorded, HasSeat
<1>10. ~Queue!Full(i)
    BY <1>5, <1>7, ClosedIsGuest DEF Queue!Full
<1>11. ASSUME NEW q \in Rooms, q < i PROVE Queue!Full(q)
    <2>1. rooms[q] = OldRoom \/ \E h, g \in Devices : HasSeat(h, q, "host") /\ HasSeat(g, q, "guest")
        BY <1>1, <1>5, <1>11 DEF LobbyRecords
    <2>2. CASE rooms[q] = OldRoom
        BY <2>2 DEF Queue!Full, Closed
    <2>3. ASSUME NEW h \in Devices, NEW g \in Devices,
                 HasSeat(h, q, "host"), HasSeat(g, q, "guest")
          PROVE  Queue!Full(q)
        <3>1. Given("host")[q] = h /\ Given("guest")[q] = g
            BY <1>2, <2>3 DEF Seated
        <3>q. QED BY <3>1, DevicesAssumption DEF Queue!Full
    <2>q. QED BY <2>1, <2>2, <2>3
<1>12. Queue!IsNext(i)
    BY <1>10, <1>11 DEF Queue!IsNext, Queue!Rooms, Rooms
<1>q. QED BY <1>3, <1>7, <1>8, <1>9, <1>12

\* Who decides takes the first free seat.
LEMMA DeciderTakes ==
    ASSUME Settled, Settled', LobbyRecords, [Next]_vars, NEW d \in Devices,
           phase[d] = "deciding",
           NEW i \in Rooms, IsSeat(snapshot[d], i), Readable(snapshot[d]),
           room' = [room EXCEPT ![d] = i],
           role' = [role EXCEPT ![d] = RoleOf(SeatWrite(snapshot[d], i))],
           UNCHANGED <<vc, names, outdated>>
    PROVE  Queue!Take(d)
<1>1. /\ snapshot[d] = lobby /\ role[d] = "none"
      /\ Queue!IsNext(i)
      /\ lobby[i] = "open" <=> Given("host")[i] # Nobody
      /\ Given("guest")[i] = Nobody
    BY DeciderFinds
<1>2. Seated /\ Seated'
    BY SeatedHolds, PTL
<1>3. TypeOK
    BY DEF Settled
<1>4. PICK who \in {"host", "guest"} :
         who = RoleOf(SeatWrite(snapshot[d], i)) /\ (who = "guest" <=> Given("host")[i] # Nobody)
    BY <1>1, <1>3, SeatIsFree DEF RoleOf, Readable
<1>5. \A e \in Devices : \A r, w : HasSeat(e, r, w)' <=>
            IF e = d THEN w = who /\ r = i ELSE HasSeat(e, r, w)
    BY <1>3, <1>4 DEF HasSeat, TypeOK
<1>6. \A e \in Devices : \A r, w : w # "none" /\ HasSeat(e, r, w) => e # d
    BY <1>1 DEF HasSeat
<1>7. Given(who)'[i] = d
    BY <1>2, <1>4, <1>5 DEF Seated
<1>8. ASSUME NEW r \in Rooms, NEW w \in {"host", "guest"}, r # i \/ w # who
      PROVE  Given(w)'[r] = Given(w)[r]
    <2>1. \A e \in Devices : HasSeat(e, r, w)' <=> HasSeat(e, r, w)
        BY <1>5, <1>6, <1>8
    <2>2. \A e \in Devices : Given(w)'[r] = e <=> Given(w)[r] = e
        BY <1>2, <2>1 DEF Seated
    <2>3. Given(w)'[r] \in Devices \cup {Nobody} /\ Given(w)[r] \in Devices \cup {Nobody}
        BY <1>2 DEF Seated
    <2>q. QED BY <2>2, <2>3
<1>9. Given(who)' = [Given(who) EXCEPT ![i] = d]
    <2>1. Given(who)' = [r \in Rooms |-> Given(who)'[r]]
        BY DEF Given
    <2>2. Given(who) = [r \in Rooms |-> Given(who)[r]]
        BY GivenShape
    <2>3. \A r \in Rooms : r # i => Given(who)'[r] = Given(who)[r]
        BY <1>8
    <2>q. QED BY <1>7, <2>1, <2>2, <2>3, RoomChanged
<1>10. \A w \in {"host", "guest"} : w # who => Given(w)' = Given(w)
    <2>1. \A w : Given(w)' = [r \in Rooms |-> Given(w)'[r]]
        BY DEF Given
    <2>2. \A w : Given(w) = [r \in Rooms |-> Given(w)[r]]
        BY GivenShape
    <2>3. \A w \in {"host", "guest"} : w # who => \A r \in Rooms : Given(w)'[r] = Given(w)[r]
        BY <1>8
    <2>q. QED BY <2>1, <2>2, <2>3
<1>11. \A r \in Queue!Rooms : ~Queue!Sits(d, r)
    BY <1>1, <1>2 DEF Queue!Sits, Queue!Rooms, Rooms, Seated, HasSeat
<1>12. UNCHANGED <<Closed, Shown, names, outdated>>
    BY ClosedKept DEF Shown
<1>13. \/ /\ Given("host")[i] = Nobody /\ Given("host")' = [Given("host") EXCEPT ![i] = d]
          /\ UNCHANGED Given("guest")
       \/ /\ Given("host")[i] # Nobody /\ Given("guest")' = [Given("guest") EXCEPT ![i] = d]
          /\ UNCHANGED Given("host")
    <2>1. CASE who = "host"
        BY <1>4, <1>9, <1>10, <2>1
    <2>2. CASE who = "guest"
        BY <1>4, <1>9, <1>10, <2>2
    <2>q. QED BY <1>4, <2>1, <2>2
<1>14. i \in Queue!Rooms
    BY DEF Queue!Rooms, Rooms
<1>q. QED BY <1>1, <1>11, <1>12, <1>13, <1>14 DEF Queue!Take

\* A device is shown GameVC when somebody has the seat opposite, a guest when
\* its host was.
LEMMA ReportShows ==
    ASSUME Settled, Settled', [Next]_vars, NEW d \in Devices, RoomModified(d), vc[d] = "none"
    PROVE  Queue!Show(d)
<1> USE DEF serverVars, queueVars, gameVars, history
<1>1. /\ UNCHANGED <<rooms, room, role, names, outdated>>
      /\ vc' = [vc EXCEPT ![d] = "presenting"] /\ phase[d] = "seated"
    BY DEF RoomModified, Listening
<1>2. /\ vc'[d] # "none" /\ \A e \in Devices : e # d => vc'[e] = vc[e]
      /\ role[d] \in {"host", "guest"} /\ room[d] \in Rooms
    BY <1>1 DEF Settled, TypeOK, RoomWrites
<1>3. DeviceRoom(d)'
    BY DEF Settled, Paired
<1>4. Seated
    BY SeatedHolds
<1>5. UNCHANGED <<Closed, Given("host"), Given("guest")>>
    BY <1>1, ClosedKept, GivenKept
<1>6. d \notin Shown /\ Shown' = Shown \cup {d}
    BY <1>2 DEF Shown
<1>7. \E r \in Rooms :
         \/ Given("host")[r] = d /\ Given("guest")[r] # Nobody
         \/ Given("guest")[r] = d /\ Given("host")[r] \in Shown
    <2>1. Given(role[d])[room[d]] = d
        BY <1>2, <1>4 DEF Seated, HasSeat
    <2>2. CASE role[d] = "host"
        <3>1. rooms[room[d]].guest # Nobody
            BY <1>1, <1>2, <1>3, <2>2 DEF DeviceRoom, HostRoom
        <3>2. Owned(room[d])
            BY <1>2, <3>1, SeatedRoom, MissingRoom
        <3>3. Given("guest")[room[d]] = rooms[room[d]].guest
            BY <1>2, <1>4, <3>1, <3>2 DEF Owned, Seated
        <3>q. QED BY <1>2, <2>1, <2>2, <3>1, <3>3
    <2>3. CASE role[d] = "guest"
        <3>1. rooms'[room[d]].gameStatus = "Active"
            BY <1>1, <1>2, <1>3, <2>3 DEF DeviceRoom, GuestRoom
        <3>2. Owned(room[d])
            BY <1>1, <1>2, <3>1, SeatedRoom, MissingRoom
        <3>3. rooms[room[d]].host \in Devices /\ HasSeat(rooms[room[d]].host, room[d], "host")
            BY <3>2 DEF Owned
        <3>4. vc[rooms[room[d]].host] # "none"
            BY <1>1, <3>1, <3>2 DEF Owned
        <3>5. Given("host")[room[d]] = rooms[room[d]].host
            BY <1>2, <1>4, <3>3 DEF Seated
        <3>q. QED BY <1>2, <2>1, <2>3, <3>3, <3>4, <3>5 DEF Shown
    <2>q. QED BY <1>2, <2>2, <2>3
<1>q. QED BY <1>1, <1>5, <1>6, <1>7
          DEF Queue!Show, Queue!Rooms, Queue!seatVars, Rooms

\* A GameVC is given the names of the two that have its room.
LEMMA DataTells ==
    ASSUME Settled, Settled', ToldOnce, [Next]_vars, NEW d \in Devices, TransitionData(d)
    PROVE  Queue!Tell(d)
<1> USE DEF serverVars, queueVars, gameVars, history
<1>1. /\ UNCHANGED <<room, role, outdated>> /\ vc[d] \in {"presenting", "blank"}
    BY DEF TransitionData
<1>2. /\ vc'[d] # "none" /\ \A e \in Devices : e # d => vc'[e] = vc[e]
      /\ room[d] \in Rooms
    BY DEF TransitionData, Settled, TypeOK
<1>3. Seated
    BY SeatedHolds
<1>4. UNCHANGED <<Closed, Given("host"), Given("guest")>>
    BY <1>1, ClosedKept, GivenKept
<1>5. d \in Shown /\ Shown' = Shown
    BY <1>1, <1>2 DEF Shown
<1>6. names[d] = Queue!Untold
    BY <1>1 DEF ToldOnce, NoNames, Queue!Untold
<1>7. PICK h \in Devices, g \in Devices :
         /\ names' = [names EXCEPT ![d] = [host |-> h, guest |-> g]] /\ d \in {h, g}
         /\ HasSeat(h, room[d], "host") /\ HasSeat(g, room[d], "guest")
    <2>1. PICK doc \in {LocalView(d), seen[d]} :
            names' = [names EXCEPT ![d] = [host |-> doc.host, guest |-> doc.guest]]
        BY DEF TransitionData
    <2>2. NamesOf(d)
        BY DEF Settled, Paired, DeviceRoom
    <2>q. QED BY <1>1, <2>1, <2>2, ViewNames DEF NamesOf
<1>8. Given("host")[room[d]] = h /\ Given("guest")[room[d]] = g
    BY <1>2, <1>3, <1>7 DEF Seated
<1>9. names' = [names EXCEPT ![d] = [host |-> Given("host")[room[d]],
                                     guest |-> Given("guest")[room[d]]]]
    BY <1>1, <1>7, <1>8
<1>10. room[d] \in Queue!Rooms
    BY <1>2 DEF Queue!Rooms, Rooms
<1>11. Queue!Sits(d, room[d]) /\ Given("host")[room[d]] # Nobody /\ Given("guest")[room[d]] # Nobody
    BY <1>7, <1>8, DevicesAssumption DEF Queue!Sits
<1>q. QED BY <1>1, <1>4, <1>5, <1>6, <1>9, <1>10, <1>11 DEF Queue!Tell, Queue!seatVars

LEMMA QueueInit == Init => Queue!Init
<1> SUFFICES ASSUME Init PROVE Queue!Init
    OBVIOUS
<1>1. PICK n \in 0..OldRooms : rooms = [r \in Rooms |-> IF r < n THEN OldRoom ELSE Missing]
    BY DEF Init
<1>2. Closed = {r \in Rooms : r < n}
    BY <1>1 DEF Closed, OldRoom, Missing
<1>3. n \in 0..(LastRoom + 1)
    BY RoomsAssumption
<1>4. \A d \in Devices : \A r : ~HasSeat(d, r, "host") /\ ~HasSeat(d, r, "guest")
    BY DEF Init, HasSeat
<1>5. \A r : Holder(r, "host") = Nobody /\ Holder(r, "guest") = Nobody
    BY <1>4 DEF Holder
<1>6. /\ Given("host") = [r \in Rooms |-> Nobody]
      /\ Given("guest") = [r \in Rooms |-> Nobody]
    BY <1>5 DEF Given
<1>7. Shown = {}
    BY DEF Init, Shown
<1>8. names = [d \in Devices |-> Queue!Untold] /\ outdated = FALSE
    BY DEF Init, NoNames, Queue!Untold
<1>9. Queue!Rooms = Rooms
    BY DEF Queue!Rooms, Rooms
<1>q. QED BY <1>2, <1>3, <1>6, <1>7, <1>8, <1>9 DEF Queue!Init

LEMMA QueueStep == Ordered /\ Ordered' /\ [Next]_vars => [Queue!Next]_Queue!vars
<1> SUFFICES ASSUME Ordered, Ordered', [Next]_vars, ~outdated'
             PROVE  [Queue!Next]_Queue!vars
    BY DEF Queue!Next, Queue!Mislead
<1> USE DEF serverVars, queueVars, gameVars, history
<1>1. ~outdated
    BY OutdatedKept DEF Ordered, Kept
<1>2. Settled /\ Settled'
    BY <1>1 DEF Settled, Ordered, Kept
<1>3. TypeOK /\ LobbyRecords /\ ToldOnce
    BY DEF Ordered, Kept
<1>4. ASSUME NEW d \in Devices,
             \/ LoadUser(d) \/ MultiplayerQueue(d) \/ ServeLobby(d) \/ CachedLobby(d) \/ ReadLobbyFails(d)
             \/ ApplyWrite(d) \/ RoomAdded(d) \/ Quit(d)
      PROVE  UNCHANGED Queue!vars
    <2>1. UNCHANGED <<room, role, names, vc>>
        BY <1>4 DEF LoadUser, MultiplayerQueue, ServeLobby, CachedLobby, ReadLobbyFails, ApplyWrite, RoomAdded, Quit
    <2>q. QED BY <1>1, <1>2, <2>1, Unnoticed DEF Settled, TypeOK
<1>5. ASSUME NEW d \in Devices, AssignHostGuest(d)
      PROVE  Queue!Take(d)
    <2>1. /\ phase[d] = "deciding" /\ Readable(snapshot[d]) /\ UNCHANGED <<vc, names, outdated>>
          /\ \E i \in Rooms :
               /\ IsSeat(snapshot[d], i)
               /\ room' = [room EXCEPT ![d] = i]
               /\ role' = [role EXCEPT ![d] = RoleOf(SeatWrite(snapshot[d], i))]
        BY <1>5 DEF AssignHostGuest
    <2>q. QED BY <1>2, <1>3, <2>1, DeciderTakes
<1>6. ASSUME NEW d \in Devices, AssignTraps(d)
      PROVE  Queue!Take(d) \/ UNCHANGED Queue!vars
    <2>1. phase[d] = "deciding" /\ UNCHANGED <<vc, names, outdated>>
        BY <1>6 DEF AssignTraps
    <2>2. CASE UNCHANGED <<room, role, pend>>
        BY <1>2, <2>1, <2>2, Unnoticed
    <2>3. CASE /\ Readable(snapshot[d])
               /\ \E i \in Rooms :
                    /\ IsSeat(snapshot[d], i)
                    /\ room' = [room EXCEPT ![d] = i]
                    /\ role' = [role EXCEPT ![d] = RoleOf(SeatWrite(snapshot[d], i))]
        BY <1>2, <1>3, <2>1, <2>3, DeciderTakes
    <2>q. QED BY <1>6, <2>2, <2>3 DEF AssignTraps
<1>7. ASSUME NEW d \in Devices, RoomModified(d)
      PROVE  Queue!Show(d) \/ UNCHANGED Queue!vars
    <2>1. CASE vc[d] = "none"
        BY <1>2, <1>7, <2>1, ReportShows
    <2>2. CASE vc[d] # "none"
        <3>1. UNCHANGED <<room, role, names, outdated, vc>>
            BY <1>7, <2>2 DEF RoomModified
        <3>q. QED BY <1>2, <3>1, Unnoticed
    <2>q. QED BY <2>1, <2>2
<1>8. ASSUME NEW d \in Devices, TransitionData(d)
      PROVE  Queue!Tell(d)
    BY <1>2, <1>3, <1>8, DataTells
<1>9. ASSUME NEW d \in Devices, GameAppears(d)
      PROVE  UNCHANGED Queue!vars
    <2>1. UNCHANGED <<room, role, names, outdated>>
        BY <1>9 DEF GameAppears
    <2>2. \A e \in Devices : vc'[e] # "none" <=> vc[e] # "none"
        BY <1>3, <1>9 DEF GameAppears, TypeOK
    <2>q. QED BY <1>2, <2>1, <2>2, Unnoticed
<1>10. CASE UNCHANGED vars
    <2>1. UNCHANGED <<room, role, names, outdated, vc>>
        BY <1>10 DEF vars
    <2>q. QED BY <1>2, <2>1, Unnoticed
<1>q. QED BY <1>4, <1>5, <1>6, <1>7, <1>8, <1>9, <1>10 DEF Next, Queue!Next

\* Without an outdated decision the queue pairs its players in the order in
\* which they decide: the lobby, the rooms, the pending writes and the listeners
\* of all devices, with failures and applications that end, implement Pairing.
THEOREM QueuePairsInOrder == Spec => PairsInOrder
<1>1. Ordered /\ [Next]_vars => Ordered'
    <2>1. Kept /\ [Next]_vars => Kept'
        <3>1. TypeOK /\ Seating /\ [Next]_vars => Seating'
            BY StructureStep, UpToDateStep DEF Seating
        <3>2. TypeOK /\ Seating /\ RoomWrites /\ [Next]_vars => RoomWrites'
            BY RoomWritesStep DEF Seating
        <3>q. QED BY <3>1, <3>2, TypeStep, PairedStep DEF Kept
    <2>2. Ordered /\ [Next]_vars => LobbyRecords' /\ ToldOnce'
        BY <2>1, RecordsStep, ToldStep DEF Ordered, Kept
    <2>q. QED BY <2>1, <2>2 DEF Ordered
<1>2. Init => Ordered
    BY TypeInit, SeatingInit, RoomsInit, OrderInit DEF Ordered, Kept
<1>q. QED BY <1>1, <1>2, QueueInit, QueueStep, PTL DEF Spec, PairsInOrder, Queue!Spec
=============================================================================
