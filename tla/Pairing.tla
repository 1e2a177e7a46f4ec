------------------------------ MODULE Pairing ------------------------------
(***************************************************************************)
(* What the queue promises its players, without lobby, documents, writes   *)
(* or listeners.  Players are paired in the order in which they decide:    *)
(* each is given one seat, the first that is free, and keeps it.  A player *)
(* is shown the game only when somebody sits opposite, the guest after the *)
(* host, and is told the names of both, once.                              *)
(*                                                                         *)
(* Nothing joins the read and the write of a seat, and the read may be     *)
(* answered from an old cache, so the promise ends when a player decides   *)
(* on a lobby that is not, or will not stay, the newest.                   *)
(***************************************************************************)
EXTENDS Integers

CONSTANTS Devices, Nobody, LastRoom

VARIABLES
    closed,         \* the rooms that players of earlier days left
    host, guest,    \* who was given the seats of each room, or Nobody
    shown,          \* the players who were shown the game
    told,           \* the names each was told
    outdated        \* a player decided on a lobby that was not the newest

seatVars == <<closed, host, guest>>
vars == <<seatVars, shown, told, outdated>>

Rooms == 0..LastRoom
Untold == [host |-> Nobody, guest |-> Nobody]

Init ==
    /\ \E n \in 0..(LastRoom + 1) : closed = {r \in Rooms : r < n}
    /\ host = [r \in Rooms |-> Nobody]
    /\ guest = [r \in Rooms |-> Nobody]
    /\ shown = {}
    /\ told = [d \in Devices |-> Untold]
    /\ outdated = FALSE

Sits(d, r) == d \in {host[r], guest[r]}

Full(r) == r \in closed \/ (host[r] # Nobody /\ guest[r] # Nobody)

\* The first room with a free seat.
IsNext(r) == ~Full(r) /\ \A q \in Rooms : q < r => Full(q)

\* The first to come to a room is its host.
Take(d) ==
    /\ \A r \in Rooms : ~Sits(d, r)
    /\ \E r \in Rooms :
         /\ IsNext(r)
         /\ \/ host[r] = Nobody /\ host' = [host EXCEPT ![r] = d] /\ UNCHANGED guest
            \/ host[r] # Nobody /\ guest' = [guest EXCEPT ![r] = d] /\ UNCHANGED host
    /\ UNCHANGED <<closed, shown, told, outdated>>

\* The host is shown the game when it has a guest, the guest when the host was.
Show(d) ==
    /\ d \notin shown
    /\ \E r \in Rooms :
         \/ host[r] = d /\ guest[r] # Nobody
         \/ guest[r] = d /\ host[r] \in shown
    /\ shown' = shown \cup {d}
    /\ UNCHANGED <<seatVars, told, outdated>>

Tell(d) ==
    /\ d \in shown /\ told[d] = Untold
    /\ \E r \in Rooms :
         /\ Sits(d, r) /\ host[r] # Nobody /\ guest[r] # Nobody
         /\ told' = [told EXCEPT ![d] = [host |-> host[r], guest |-> guest[r]]]
    /\ UNCHANGED <<seatVars, shown, outdated>>

\* A player decides on an outdated lobby; from then on anything may happen.
Mislead == outdated'

Next ==
    \/ Mislead
    \/ \E d \in Devices : Take(d) \/ Show(d) \/ Tell(d)

Spec == Init /\ [][Next]_vars
=============================================================================
