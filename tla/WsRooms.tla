------------------------------- MODULE WsRooms -------------------------------
(***************************************************************************)
(* The WebSocket rooms: ConnectionManager and the coroutines of the event  *)
(* loop that use it, one ws_endpoint per socket and one that calls         *)
(* broadcast_all.  A step runs from one await to the next, so what happens *)
(* between two awaits is atomic, and everything else interleaves.          *)
(*                                                                         *)
(* Abstracted: the content of messages; the order in which a snapshot of a *)
(* set or of the rooms is walked is arbitrary.  External: the clients, and *)
(* Starlette's WebSocket, whose send may succeed for a while after the     *)
(* client is gone, then raises, and after that makes receive_json raise    *)
(* RuntimeError instead of WebSocketDisconnect.                            *)
(***************************************************************************)
EXTENDS Naturals

CONSTANTS
  Sockets,
  Server,     \* the coroutine that calls broadcast_all
  Rooms,
  NoRoom,
  Malformed,  \* whether a client may send JSON whose payload is no object
  MaxFrames,  \* bounds the messages of the clients
  MaxNotices  \* bounds the calls of broadcast_all

ASSUME RoomAssumption   == NoRoom \notin Rooms
ASSUME SocketAssumption == Server \notin Sockets
ASSUME BoundAssumption  ==
  MaxFrames \in Nat /\ MaxNotices \in Nat /\ Malformed \in BOOLEAN

Coroutines == Sockets \cup {Server}

VARIABLES
  rooms,     \* self._rooms: a set of sockets per existing key
  client,    \* per socket: "new", "open", or "gone"
  usable,    \* sockets whose application_state is not DISCONNECTED
  pc,        \* per coroutine: what it awaits
  room,      \* per coroutine: the room it is in or broadcasts to
  todo,      \* per coroutine: the snapshot of its broadcast, as far as unsent
  dead,      \* per coroutine: the dead set of its broadcast
  pending,   \* rooms that broadcast_all still has to visit
  frames,    \* messages so far
  notices    \* calls of broadcast_all so far

sendVars == <<rooms, usable, pc, room, todo, dead, pending>>
vars == <<rooms, client, usable, pc, room, todo, dead, pending, frames, notices>>

\* what a coroutine is doing while it is inside broadcast
Sending == {"joining", "relaying", "leaving", "notice"}
Pcs == Sending \cup {"new", "accept", "receive", "ended", "crashed", "rejected", "idle"}

Members(r) == IF r \in DOMAIN rooms THEN rooms[r] ELSE {}

TypeOK ==
  /\ DOMAIN rooms \subseteq Rooms
  /\ \A r \in DOMAIN rooms : rooms[r] \subseteq Sockets
  /\ client \in [Sockets -> {"new", "open", "gone"}]
  /\ usable \subseteq Sockets
  /\ pc \in [Coroutines -> Pcs]
  /\ room \in [Coroutines -> Rooms \cup {NoRoom}]
  /\ todo \in [Coroutines -> SUBSET Sockets]
  /\ dead \in [Coroutines -> SUBSET Sockets]
  /\ pending \subseteq Rooms
  /\ frames \in 0 .. MaxFrames
  /\ notices \in 0 .. MaxNotices

Init ==
  /\ rooms = << >>
  /\ client = [s \in Sockets |-> "new"]
  /\ usable = Sockets
  /\ pc = [c \in Coroutines |-> IF c = Server THEN "idle" ELSE "new"]
  /\ room = [c \in Coroutines |-> NoRoom]
  /\ todo = [c \in Coroutines |-> {}]
  /\ dead = [c \in Coroutines |-> {}]
  /\ pending = {} /\ frames = 0 /\ notices = 0

-----------------------------------------------------------------------------
(* ConnectionManager *)

\* self._rooms with members for r, a key that may be new
Put(r, members) ==
  [x \in DOMAIN rooms \cup {r} |-> IF x = r THEN members ELSE rooms[x]]

\* Mutant of WithoutSockets: an empty room is not popped.
WithoutPop(r, gone) ==
  IF gone = {} THEN rooms ELSE Put(r, Members(r) \ gone)

\* Mutant of WithoutSockets: the dead sockets stay.
WithoutPruning(r, gone) == rooms

\* discard from self._rooms[r], which creates a missing key, then pop if empty
WithoutSockets(r, gone) ==
  LET f == IF gone = {} THEN rooms ELSE Put(r, Members(r) \ gone)
  IN  IF r \in DOMAIN f /\ f[r] = {} THEN [x \in DOMAIN f \ {r} |-> f[x]] ELSE f

\* where ws_endpoint goes on after a broadcast: receive_json raises at once,
\* and not WebSocketDisconnect, on a socket to which a send has failed
After(s, doing, ok) ==
  IF doing = "leaving" THEN "ended"
  ELSE IF s \in ok THEN "receive" ELSE "crashed"

\* broadcast up to its first await; a broadcast to nobody has none
Broadcast(s, doing, members) ==
  /\ todo' = [todo EXCEPT ![s] = members]
  /\ dead' = [dead EXCEPT ![s] = {}]
  /\ pc' = [pc EXCEPT ![s] = IF members = {} THEN After(s, doing, usable) ELSE doing]

\* Mutant of Outcome: the first send that fails ends the loop.
StopAtDead(c, w, failed, over) ==
  \/ /\ w \in usable
     /\ failed = dead[c] /\ over = (todo[c] = {w})
     /\ UNCHANGED usable
  \/ /\ client[w] = "gone"
     /\ failed = dead[c] \cup {w} /\ over = TRUE
     /\ usable' = usable \ {w}

\* One send_json and its except clause: failed is the dead set after it, and
\* over tells whether it was the last of the loop.
Outcome(c, w, failed, over) ==
  /\ over = (todo[c] = {w})
  /\ \/ w \in usable /\ failed = dead[c] /\ UNCHANGED usable
     \/ /\ client[w] = "gone" /\ failed = dead[c] \cup {w}
        /\ usable' = usable \ {w}

SendNext(c) ==
  /\ pc[c] \in Sending
  /\ \E w \in todo[c], failed \in SUBSET Sockets :
       /\ Outcome(c, w, failed, FALSE)
       /\ todo' = [todo EXCEPT ![c] = @ \ {w}]
       /\ dead' = [dead EXCEPT ![c] = failed]
  /\ UNCHANGED <<rooms, client, pc, room, pending, frames, notices>>

\* the last send of an endpoint's broadcast, the pruning, and what comes next
SendLast(s) ==
  /\ pc[s] \in Sending
  /\ \E w \in todo[s], failed \in SUBSET Sockets :
       /\ Outcome(s, w, failed, TRUE)
       /\ todo' = [todo EXCEPT ![s] = @ \ {w}]
       /\ dead' = [dead EXCEPT ![s] = failed]
       /\ rooms' = WithoutSockets(room[s], failed)
  /\ pc' = [pc EXCEPT ![s] = After(s, pc[s], usable')]
  /\ UNCHANGED <<client, room, pending, frames, notices>>

-----------------------------------------------------------------------------
(* broadcast_all, run by Server *)

\* the next room of left that still has somebody in it
Visit(left, f, r) ==
  /\ r \in left \cap DOMAIN f /\ f[r] # {}
  /\ pending' = left \ {r}
  /\ room' = [room EXCEPT ![Server] = r]
  /\ todo' = [todo EXCEPT ![Server] = f[r]]
  /\ dead' = [dead EXCEPT ![Server] = {}]
  /\ pc' = [pc EXCEPT ![Server] = "notice"]

NoticeAll ==
  /\ pc[Server] = "idle" /\ notices < MaxNotices
  /\ notices' = notices + 1
  /\ \E r \in DOMAIN rooms : Visit(DOMAIN rooms, rooms, r)
  /\ UNCHANGED <<rooms, client, usable, frames>>

\* the last send in one room, its pruning, and the next room that has members
NoticeLast ==
  /\ pc[Server] = "notice"
  /\ \E w \in todo[Server], failed \in SUBSET Sockets :
       /\ Outcome(Server, w, failed, TRUE)
       /\ rooms' = WithoutSockets(room[Server], failed)
       /\ IF \E r \in pending \cap DOMAIN rooms' : rooms'[r] # {}
          THEN \E r \in pending : Visit(pending, rooms', r)
          ELSE /\ todo' = [todo EXCEPT ![Server] = @ \ {w}]
               /\ dead' = [dead EXCEPT ![Server] = failed]
               /\ pc' = [pc EXCEPT ![Server] = "idle"]
               /\ pending' = {}
               /\ UNCHANGED room
  /\ UNCHANGED <<client, frames, notices>>

-----------------------------------------------------------------------------
(* ws_endpoint *)

\* the checks of the token, and the call of accept
Connect(s, r) ==
  /\ pc[s] = "new"
  /\ client' = [client EXCEPT ![s] = "open"]
  /\ room' = [room EXCEPT ![s] = r]
  /\ pc' = [pc EXCEPT ![s] = "accept"]
  /\ UNCHANGED <<rooms, usable, todo, dead, pending, frames, notices>>

\* Mutant of Reject: the return after close is missing, and so is the room.
RejectGoesOn(s) ==
  /\ pc[s] = "new"
  /\ client' = [client EXCEPT ![s] = "gone"]
  /\ pc' = [pc EXCEPT ![s] = "accept"]
  /\ UNCHANGED <<rooms, usable, room, todo, dead, pending, frames, notices>>

\* no manager, no token or a bad one: close, and never a member of a room
Reject(s) ==
  /\ pc[s] = "new"
  /\ client' = [client EXCEPT ![s] = "gone"]
  /\ pc' = [pc EXCEPT ![s] = "rejected"]
  /\ UNCHANGED <<rooms, usable, room, todo, dead, pending, frames, notices>>

\* accept has returned: join the room, and announce it
Join(s) ==
  /\ pc[s] = "accept"
  /\ rooms' = Put(room[s], Members(room[s]) \cup {s})
  /\ Broadcast(s, "joining", rooms'[room[s]])
  /\ UNCHANGED <<client, usable, room, pending, frames, notices>>

\* a frame that is no JSON object is ignored; an object is relayed
Relay(s) ==
  /\ pc[s] = "receive"
  /\ frames < MaxFrames
  /\ frames' = frames + 1
  /\ Broadcast(s, "relaying", Members(room[s]))
  /\ UNCHANGED <<rooms, client, usable, room, pending, notices>>

\* {**payload} of something else than an object: TypeError ends the endpoint,
\* and the server closes its socket
RelayMalformed(s) ==
  /\ pc[s] = "receive"
  /\ Malformed /\ frames < MaxFrames
  /\ frames' = frames + 1
  /\ client' = [client EXCEPT ![s] = "gone"]
  /\ usable' = usable \ {s}
  /\ pc' = [pc EXCEPT ![s] = "crashed"]
  /\ UNCHANGED <<rooms, room, todo, dead, pending, notices>>

\* Mutant of Leave: disconnect is forgotten.
LeaveUnremoved(s) ==
  /\ pc[s] = "receive" /\ client[s] = "gone"
  /\ Broadcast(s, "leaving", Members(room[s]))
  /\ UNCHANGED <<rooms, client, usable, room, pending, frames, notices>>

\* WebSocketDisconnect from receive_json: disconnect, and announce it
Leave(s) ==
  /\ pc[s] = "receive" /\ client[s] = "gone"
  /\ rooms' = WithoutSockets(room[s], {s})
  /\ Broadcast(s, "leaving", IF room[s] \in DOMAIN rooms' THEN rooms'[room[s]] ELSE {})
  /\ UNCHANGED <<client, usable, room, pending, frames, notices>>

-----------------------------------------------------------------------------
Drop(s) ==
  /\ client[s] = "open"
  /\ client' = [client EXCEPT ![s] = "gone"]
  /\ UNCHANGED <<sendVars, frames, notices>>

Next ==
  \/ \E s \in Sockets :
       \/ Reject(s) \/ Join(s) \/ SendLast(s) \/ Leave(s)
       \/ Relay(s) \/ RelayMalformed(s) \/ Drop(s)
       \/ \E r \in Rooms : Connect(s, r)
  \/ \E c \in Coroutines : SendNext(c)
  \/ NoticeAll \/ NoticeLast

Spec == Init /\ [][Next]_vars

\* The event loop resumes every coroutine whose await can return.  A send does:
\* the keepalive pings of the server give up a client that stops reading.
FairSpec ==
  /\ Spec
  /\ \A s \in Sockets : WF_vars(Join(s)) /\ WF_vars(SendLast(s)) /\ WF_vars(Leave(s))
  /\ \A c \in Coroutines : WF_vars(SendNext(c))
  /\ WF_vars(NoticeLast)

-----------------------------------------------------------------------------
(* Properties *)

\* rooms() lists active rooms only: whatever broadcasts and disconnects
\* interleave, no coroutine awaits anything while a room is empty.
NoEmptyRooms == \A r \in DOMAIN rooms : rooms[r] # {}

\* Whoever has left is in no room, although broadcasts that took their snapshot
\* before may still be sending to it.
LeftForGood ==
  \A s \in Sockets : pc[s] \in {"leaving", "ended", "rejected"} =>
    \A r \in Rooms : s \notin Members(r)

\* A broadcast reaches every client of its snapshot that is still there: a dead
\* one does not keep the others from their message.
EveryoneReached ==
  \A c \in Coroutines : pc[c] \notin Sending =>
    \A w \in todo[c] \cup dead[c] : client[w] = "gone"

\* The connections that failed are pruned by the end of the broadcast, and no
\* concurrent join or broadcast brings them back.
DeadArePruned ==
  \A c \in Coroutines :
    pc[c] \notin Sending => dead[c] \cap Members(room[c]) = {}

\* A client that is gone leaves the room, or its endpoint has crashed: then it
\* stays until somebody broadcasts.
GoneLeaves ==
  \A s \in Sockets :
    client[s] = "gone" ~> pc[s] = "crashed" \/ \A r \in Rooms : s \notin Members(r)
=============================================================================
