---------------------------- MODULE WsRoomsProofs ----------------------------
(***************************************************************************)
(* Theorems about WsRooms, for any number of sockets and rooms.            *)
(***************************************************************************)
EXTENDS WsRooms, TLAPS

Joined(s) == pc[s] \notin {"new", "accept", "rejected"}

\* A socket is in no room but its own, and only while its endpoint lives or
\* after it crashed.
MembersBelong ==
  \A r \in DOMAIN rooms : \A s \in rooms[r] :
    room[s] = r /\ pc[s] \in {"joining", "receive", "relaying", "crashed"}

\* Snapshots hold sockets that had joined, so none of them joins again; who is
\* in the dead set is gone; and nothing is left of a broadcast that is over.
Snapshots ==
  \A c \in Coroutines :
    /\ \A w \in todo[c] \cup dead[c] : Joined(w)
    /\ \A w \in dead[c] : client[w] = "gone"
    /\ pc[c] \notin Sending => todo[c] = {}

\* Where a coroutine that is past its first step works.
Places ==
  /\ \A s \in Sockets : pc[s] \notin {"new", "rejected"} => room[s] \in Rooms
  /\ \A s \in Sockets : pc[s] \notin {"idle", "notice"}
  /\ pc[Server] \in {"idle", "notice"}
  /\ pc[Server] = "notice" => room[Server] \in Rooms

Fresh == \A s \in Sockets : pc[s] = "new" => dead[s] = {}

IInv ==
  /\ TypeOK /\ NoEmptyRooms /\ MembersBelong
  /\ Snapshots /\ Places /\ Fresh /\ DeadArePruned

-----------------------------------------------------------------------------
\* ConnectionManager.disconnect, and the pruning at the end of broadcast, take
\* sockets out of one room, touch no other room and leave no room empty.
LEMMA Removal ==
  ASSUME NoEmptyRooms, NEW r, NEW gone
  PROVE  LET f == WithoutSockets(r, gone)
         IN  /\ DOMAIN f \subseteq DOMAIN rooms
             /\ \A x \in DOMAIN f : f[x] # {} /\ f[x] \subseteq rooms[x]
             /\ r \in DOMAIN f => f[r] = rooms[r] \ gone
             /\ \A x \in DOMAIN f : x # r => f[x] = rooms[x]
<1> DEFINE f == IF gone = {} THEN rooms ELSE Put(r, Members(r) \ gone)
           g == IF r \in DOMAIN f /\ f[r] = {}
                THEN [x \in DOMAIN f \ {r} |-> f[x]] ELSE f
<1>1. WithoutSockets(r, gone) = g
  BY DEF WithoutSockets
<1>2. CASE gone = {}
  BY <1>1, <1>2 DEF NoEmptyRooms
<1>3. CASE gone # {}
  <2>1. /\ DOMAIN f = {r} \cup DOMAIN rooms
        /\ f[r] = Members(r) \ gone
        /\ \A x \in DOMAIN rooms : x # r => f[x] = rooms[x]
    BY <1>3 DEF Put
  <2> HIDE DEF f
  <2>2. CASE f[r] = {}
    <3>1. g = [x \in DOMAIN f \ {r} |-> f[x]]
      BY <2>1, <2>2
    <3> HIDE DEF g
    <3>2. /\ DOMAIN g = DOMAIN rooms \ {r}
          /\ \A x \in DOMAIN rooms \ {r} : g[x] = rooms[x]
      BY <2>1, <3>1
    <3>3. QED
      BY <1>1, <3>2 DEF NoEmptyRooms
  <2>3. CASE f[r] # {}
    <3>1. r \in DOMAIN rooms /\ Members(r) = rooms[r]
      BY <2>1, <2>3 DEF Members
    <3>2. g = f
      BY <2>3
    <3> HIDE DEF g
    <3>3. QED
      BY <1>1, <2>1, <2>3, <3>1, <3>2 DEF NoEmptyRooms
  <2>4. QED
    BY <2>2, <2>3
<1>4. QED
  BY <1>2, <1>3

\* ConnectionManager.connect adds a socket to one room and touches no other.
LEMMA Adding ==
  ASSUME NEW r, NEW members
  PROVE  /\ DOMAIN Put(r, members) = DOMAIN rooms \cup {r}
         /\ Put(r, members)[r] = members
         /\ \A x \in DOMAIN rooms : x # r => Put(r, members)[x] = rooms[x]
BY DEF Put

-----------------------------------------------------------------------------
LEMMA InitIInv == Init => IInv
<1> SUFFICES ASSUME Init PROVE IInv
  OBVIOUS
<1>1. DOMAIN rooms = {}
  BY DEF Init
<1>2. TypeOK
  BY <1>1, BoundAssumption DEF Init, TypeOK, Coroutines, Pcs, Sending
<1>3. NoEmptyRooms /\ MembersBelong
  BY <1>1 DEF NoEmptyRooms, MembersBelong
<1>4. Snapshots /\ DeadArePruned
  BY DEF Init, Snapshots, DeadArePruned
<1>5. Places /\ Fresh
  BY SocketAssumption DEF Init, Places, Fresh, Coroutines
<1>6. QED
  BY <1>2, <1>3, <1>4, <1>5 DEF IInv

\* A send changes usable, and the dead set grows by clients that are gone.
LEMMA OutcomeOK ==
  ASSUME IInv, NEW c \in Coroutines, NEW w \in todo[c], NEW failed, NEW over,
         Outcome(c, w, failed, over)
  PROVE  /\ usable' \subseteq Sockets
         /\ failed \subseteq dead[c] \cup {w}
         /\ failed \in SUBSET Sockets
         /\ w \in Sockets
         /\ \A x \in failed : client[x] = "gone" /\ Joined(x)
         /\ over = (todo[c] = {w})
BY DEF IInv, TypeOK, Snapshots, Outcome

LEMMA NextIInv == IInv /\ [Next]_vars => IInv'
<1> SUFFICES ASSUME IInv, [Next]_vars PROVE IInv'
  OBVIOUS
<1> USE RoomAssumption, SocketAssumption, BoundAssumption
    DEF Coroutines, Sending, Pcs
<1>1. ASSUME NEW s \in Sockets, NEW r \in Rooms, Connect(s, r) PROVE IInv'
  <2>1. TypeOK' /\ NoEmptyRooms'
    BY <1>1 DEF Connect, IInv, TypeOK, NoEmptyRooms
  <2>2. MembersBelong' /\ Places' /\ Fresh'
    BY <1>1 DEF Connect, IInv, TypeOK, MembersBelong, Places, Fresh
  <2>3. Snapshots'
    BY <1>1 DEF Connect, IInv, TypeOK, Snapshots, Joined
  <2>4. dead[s] = {}
    BY <1>1 DEF Connect, IInv, Fresh
  <2>5. DeadArePruned'
    BY <1>1, <2>4 DEF Connect, IInv, TypeOK, DeadArePruned, Members
  <2>6. QED
    BY <2>1, <2>2, <2>3, <2>5 DEF IInv
<1>2. ASSUME NEW s \in Sockets, Reject(s) PROVE IInv'
  BY <1>2 DEF Reject, IInv, TypeOK, NoEmptyRooms, MembersBelong, Snapshots,
              Places, Fresh, DeadArePruned, Members, Joined
<1>3. ASSUME NEW s \in Sockets, Join(s) PROVE IInv'
  <2> DEFINE M == Members(room[s]) \cup {s}
  <2>0. room[s] \in Rooms /\ M \subseteq Sockets /\ s \in M
    BY <1>3 DEF Join, IInv, TypeOK, Places, Members
  <2>1. rooms' = Put(room[s], M) /\ rooms'[room[s]] = M
    BY <1>3, Adding DEF Join
  <2>2. /\ DOMAIN rooms' = DOMAIN rooms \cup {room[s]}
        /\ \A x \in DOMAIN rooms : x # room[s] => rooms'[x] = rooms[x]
    BY <2>1 DEF Put
  <2>3. /\ pc' = [pc EXCEPT ![s] = "joining"]
        /\ todo' = [todo EXCEPT ![s] = M]
        /\ dead' = [dead EXCEPT ![s] = {}]
        /\ UNCHANGED <<client, usable, room, pending, frames, notices>>
    BY <1>3, <2>0, <2>1 DEF Join, Broadcast
  <2>a. \A x \in M : x = s \/ (x \in Members(room[s]) /\ room[x] = room[s]
                     /\ pc[x] \in {"joining", "receive", "relaying", "crashed"})
    BY DEF IInv, MembersBelong, Members
  <2>c. M = Members(room[s]) \cup {s}
    OBVIOUS
  <2> HIDE DEF M
  <2>4. TypeOK'
    BY <1>3, <2>0, <2>1, <2>2, <2>3 DEF IInv, TypeOK
  <2>5. NoEmptyRooms'
    BY <2>0, <2>1, <2>2 DEF IInv, NoEmptyRooms
  <2>b. MembersBelong'
    <3>1. SUFFICES ASSUME NEW r \in DOMAIN rooms', NEW x \in rooms'[r]
                   PROVE  /\ room[x] = r
                          /\ pc'[x] \in {"joining", "receive", "relaying", "crashed"}
      BY <2>3 DEF MembersBelong
    <3>2. CASE r = room[s]
      BY <2>0, <2>1, <2>3, <2>a, <3>1, <3>2 DEF IInv, TypeOK
    <3>3. CASE r # room[s]
      <4>1. r \in DOMAIN rooms /\ x \in rooms[r]
        BY <2>2, <3>1, <3>3
      <4>2. x \in Sockets /\ x # s
        BY <4>1, <3>3 DEF IInv, TypeOK, MembersBelong
      <4>3. QED
        BY <2>3, <4>1, <4>2 DEF IInv, TypeOK, MembersBelong
    <3>4. QED
      BY <3>2, <3>3
  <2>6. Snapshots'
    BY <1>3, <2>0, <2>3, <2>a DEF Join, IInv, TypeOK, Snapshots, Joined
  <2>7. Places' /\ Fresh'
    BY <1>3, <2>3 DEF Join, IInv, TypeOK, Places, Fresh
  <2>8. DeadArePruned'
    <3>2. \A c \in Coroutines : s \notin dead[c]
      BY <1>3 DEF Join, IInv, Snapshots, Joined
    <3>3. SUFFICES ASSUME NEW c \in Coroutines, pc'[c] \notin Sending
                   PROVE  (dead[c] \cap Members(room[c]) = {})'
      BY DEF DeadArePruned
    <3>4. /\ c # s /\ pc[c] \notin Sending
          /\ dead'[c] = dead[c] /\ room'[c] = room[c] /\ s \notin dead[c]
      BY <2>3, <3>2, <3>3 DEF IInv, TypeOK
    <3>5. dead[c] \cap Members(room[c]) = {}
      BY <3>4 DEF IInv, DeadArePruned
    <3>6. Members(room[c])' \subseteq Members(room[c]) \cup {s}
      BY <2>1, <2>2, <2>c, <3>4 DEF Members
    <3>7. QED
      BY <3>4, <3>5, <3>6
  <2>9. QED
    BY <2>4, <2>5, <2>b, <2>6, <2>7, <2>8 DEF IInv
<1>4. ASSUME NEW s \in Sockets, Relay(s) PROVE IInv'
  <2>1. Members(room[s]) \subseteq Sockets
    BY DEF IInv, TypeOK, Members
  <2>2. \A w \in Members(room[s]) : Joined(w) /\ Joined(w)'
    BY <1>4 DEF Relay, Broadcast, After, IInv, TypeOK, MembersBelong, Members, Joined
  <2>3. TypeOK' /\ NoEmptyRooms' /\ MembersBelong' /\ Places' /\ Fresh'
    BY <1>4, <2>1 DEF Relay, Broadcast, After, IInv, TypeOK, NoEmptyRooms,
                      MembersBelong, Places, Fresh
  <2>4. Snapshots'
    BY <1>4, <2>1, <2>2 DEF Relay, Broadcast, After, IInv, TypeOK, Snapshots, Joined
  <2>5. DeadArePruned'
    BY <1>4 DEF Relay, Broadcast, After, IInv, TypeOK, DeadArePruned, Members
  <2>6. QED
    BY <2>3, <2>4, <2>5 DEF IInv
<1>5. ASSUME NEW s \in Sockets, RelayMalformed(s) PROVE IInv'
  BY <1>5 DEF RelayMalformed, IInv, TypeOK, NoEmptyRooms, MembersBelong,
              Snapshots, Places, Fresh, DeadArePruned, Members, Joined
<1>6. ASSUME NEW s \in Sockets, Leave(s) PROVE IInv'
  <2> DEFINE f == WithoutSockets(room[s], {s})
             M == IF room[s] \in DOMAIN f THEN f[room[s]] ELSE {}
  <2>0. rooms' = f
    BY <1>6 DEF Leave
  <2>1. /\ DOMAIN f \subseteq DOMAIN rooms
        /\ \A x \in DOMAIN f : f[x] # {} /\ f[x] \subseteq rooms[x]
        /\ room[s] \in DOMAIN f => f[room[s]] = rooms[room[s]] \ {s}
        /\ \A x \in DOMAIN f : x # room[s] => f[x] = rooms[x]
    <3>1. ASSUME NEW gone
          PROVE  LET h == WithoutSockets(room[s], gone)
                 IN  /\ DOMAIN h \subseteq DOMAIN rooms
                     /\ \A x \in DOMAIN h : h[x] # {} /\ h[x] \subseteq rooms[x]
                     /\ room[s] \in DOMAIN h => h[room[s]] = rooms[room[s]] \ gone
                     /\ \A x \in DOMAIN h : x # room[s] => h[x] = rooms[x]
      BY Removal DEF IInv
    <3>2. QED
      BY <3>1
  <2>2. /\ pc[s] = "receive"
        /\ todo' = [todo EXCEPT ![s] = M]
        /\ dead' = [dead EXCEPT ![s] = {}]
        /\ pc' = [pc EXCEPT ![s] = IF M = {} THEN "ended" ELSE "leaving"]
        /\ UNCHANGED <<client, usable, room, pending, frames, notices>>
    BY <1>6, <2>0 DEF Leave, Broadcast, After
  <2> HIDE DEF f
  <2>3. \A x \in DOMAIN f : s \notin f[x]
    BY <2>1 DEF IInv, MembersBelong
  <2>4. TypeOK'
    BY <2>0, <2>1, <2>2 DEF IInv, TypeOK
  <2>5. NoEmptyRooms' /\ MembersBelong' /\ Places' /\ Fresh'
    BY <2>0, <2>1, <2>2, <2>3 DEF IInv, TypeOK, NoEmptyRooms, MembersBelong, Places, Fresh
  <2>6. Snapshots'
    BY <2>0, <2>1, <2>2 DEF IInv, TypeOK, MembersBelong, Snapshots, Joined
  <2>7. DeadArePruned'
    BY <2>0, <2>1, <2>2 DEF IInv, TypeOK, DeadArePruned, Members
  <2>8. QED
    BY <2>4, <2>5, <2>6, <2>7 DEF IInv
<1>7. ASSUME NEW s \in Sockets, Drop(s) PROVE IInv'
  BY <1>7 DEF Drop, sendVars, IInv, TypeOK, NoEmptyRooms, MembersBelong,
              Snapshots, Places, Fresh, DeadArePruned, Members, Joined
<1>8. ASSUME NEW c \in Coroutines, SendNext(c) PROVE IInv'
  <2>1. PICK w \in todo[c], failed \in SUBSET Sockets :
          /\ Outcome(c, w, failed, FALSE)
          /\ todo' = [todo EXCEPT ![c] = @ \ {w}]
          /\ dead' = [dead EXCEPT ![c] = failed]
    BY <1>8 DEF SendNext
  <2>2. /\ usable' \subseteq Sockets
        /\ \A x \in failed : client[x] = "gone" /\ Joined(x)
    BY <2>1, OutcomeOK
  <2>3. TypeOK' /\ NoEmptyRooms' /\ MembersBelong' /\ Places' /\ Fresh'
    BY <1>8, <2>1, <2>2 DEF SendNext, IInv, TypeOK, NoEmptyRooms, MembersBelong, Places, Fresh
  <2>4. Snapshots' /\ DeadArePruned'
    BY <1>8, <2>1, <2>2
       DEF SendNext, IInv, TypeOK, Snapshots, Joined, DeadArePruned, Members
  <2>5. QED
    BY <2>3, <2>4 DEF IInv
<1>9. ASSUME NEW s \in Sockets, SendLast(s) PROVE IInv'
  <2>1. PICK w \in todo[s], failed \in SUBSET Sockets :
          /\ Outcome(s, w, failed, TRUE)
          /\ todo' = [todo EXCEPT ![s] = @ \ {w}]
          /\ dead' = [dead EXCEPT ![s] = failed]
          /\ rooms' = WithoutSockets(room[s], failed)
    BY <1>9 DEF SendLast
  <2> DEFINE f == WithoutSockets(room[s], failed)
  <2>2. /\ usable' \subseteq Sockets
        /\ \A x \in failed : client[x] = "gone" /\ Joined(x)
        /\ todo[s] = {w}
    BY <2>1, OutcomeOK
  <2>3. /\ DOMAIN f \subseteq DOMAIN rooms
        /\ \A x \in DOMAIN f : f[x] # {} /\ f[x] \subseteq rooms[x]
        /\ room[s] \in DOMAIN f => f[room[s]] = rooms[room[s]] \ failed
    BY Removal DEF IInv
  <2>4. /\ pc[s] \in {"joining", "relaying", "leaving"}
        /\ pc' = [pc EXCEPT ![s] = After(s, pc[s], usable')]
        /\ UNCHANGED <<client, room, pending, frames, notices>>
    BY <1>9 DEF SendLast, IInv, Places, Fresh
  <2>5. /\ pc[s] = "leaving" => pc'[s] = "ended"
        /\ pc[s] # "leaving" => pc'[s] \in {"receive", "crashed"}
    BY <2>4 DEF After, IInv, TypeOK
  <2>6. rooms' = f /\ todo'[s] = {}
    BY <2>1, <2>2 DEF IInv, TypeOK
  <2> HIDE DEF f
  <2>7. TypeOK'
    BY <2>1, <2>2, <2>3, <2>4, <2>5, <2>6 DEF IInv, TypeOK
  <2>8. NoEmptyRooms' /\ Fresh'
    BY <2>1, <2>3, <2>4, <2>5, <2>6 DEF IInv, TypeOK, NoEmptyRooms, Fresh
  <2>b. MembersBelong'
    BY <2>3, <2>4, <2>5, <2>6 DEF IInv, TypeOK, MembersBelong
  <2>p. Places'
    BY <2>4, <2>5 DEF IInv, TypeOK, Places
  <2>9. Snapshots'
    BY <2>1, <2>2, <2>4, <2>5, <2>6 DEF IInv, TypeOK, Snapshots, Joined
  <2>10. DeadArePruned'
    BY <2>1, <2>3, <2>4, <2>5, <2>6 DEF IInv, TypeOK, DeadArePruned, Members
  <2>11. QED
    BY <2>7, <2>8, <2>b, <2>p, <2>9, <2>10 DEF IInv
<1>10. ASSUME NoticeAll PROVE IInv'
  <2>1. PICK r \in DOMAIN rooms : Visit(DOMAIN rooms, rooms, r)
    BY <1>10 DEF NoticeAll
  <2>2. TypeOK' /\ NoEmptyRooms' /\ MembersBelong' /\ Places' /\ Fresh'
    BY <1>10, <2>1 DEF NoticeAll, Visit, IInv, TypeOK, NoEmptyRooms, MembersBelong, Places, Fresh
  <2>3. Snapshots' /\ DeadArePruned'
    BY <1>10, <2>1 DEF NoticeAll, Visit, IInv, TypeOK, MembersBelong, Snapshots,
                       Joined, DeadArePruned, Members
  <2>4. QED
    BY <2>2, <2>3 DEF IInv
<1>11. ASSUME NoticeLast PROVE IInv'
  <2>1. PICK w \in todo[Server], failed \in SUBSET Sockets :
          /\ Outcome(Server, w, failed, TRUE)
          /\ rooms' = WithoutSockets(room[Server], failed)
          /\ \/ \E r \in pending : Visit(pending, rooms', r)
             \/ /\ todo' = [todo EXCEPT ![Server] = @ \ {w}]
                /\ dead' = [dead EXCEPT ![Server] = failed]
                /\ pc' = [pc EXCEPT ![Server] = "idle"]
                /\ pending' = {}
                /\ UNCHANGED room
    BY <1>11 DEF NoticeLast
  <2> DEFINE f == WithoutSockets(room[Server], failed)
  <2>2. /\ usable' \subseteq Sockets
        /\ \A x \in failed : client[x] = "gone" /\ Joined(x)
        /\ todo[Server] = {w}
    BY <2>1, OutcomeOK
  <2>3. /\ DOMAIN f \subseteq DOMAIN rooms
        /\ \A x \in DOMAIN f : f[x] # {} /\ f[x] \subseteq rooms[x]
        /\ room[Server] \in DOMAIN f => f[room[Server]] = rooms[room[Server]] \ failed
    BY Removal DEF IInv
  <2>4. rooms' = f /\ UNCHANGED <<client, frames, notices>>
    BY <1>11, <2>1 DEF NoticeLast
  <2> HIDE DEF f
  <2>5. ASSUME NEW r \in pending, Visit(pending, rooms', r) PROVE IInv'
    <3>1. TypeOK'
      BY <2>2, <2>3, <2>4, <2>5 DEF Visit, IInv, TypeOK
    <3>2. NoEmptyRooms' /\ MembersBelong' /\ Places' /\ Fresh'
      BY <2>3, <2>4, <2>5 DEF Visit, IInv, TypeOK, NoEmptyRooms, MembersBelong, Places, Fresh
    <3>3. Snapshots'
      BY <2>3, <2>4, <2>5 DEF Visit, IInv, TypeOK, MembersBelong, Snapshots, Joined
    <3>4. DeadArePruned'
      BY <2>3, <2>4, <2>5 DEF Visit, IInv, TypeOK, DeadArePruned, Members
    <3>5. QED
      BY <3>1, <3>2, <3>3, <3>4 DEF IInv
  <2>6. ASSUME /\ todo' = [todo EXCEPT ![Server] = @ \ {w}]
               /\ dead' = [dead EXCEPT ![Server] = failed]
               /\ pc' = [pc EXCEPT ![Server] = "idle"]
               /\ pending' = {}
               /\ UNCHANGED room
        PROVE  IInv'
    <3>1. TypeOK'
      BY <2>2, <2>3, <2>4, <2>6 DEF IInv, TypeOK
    <3>2. NoEmptyRooms' /\ MembersBelong' /\ Places' /\ Fresh'
      BY <2>3, <2>4, <2>6 DEF IInv, TypeOK, NoEmptyRooms, MembersBelong, Places, Fresh
    <3>3. Snapshots'
      BY <2>2, <2>4, <2>6 DEF IInv, TypeOK, Snapshots, Joined
    <3>4. DeadArePruned'
      BY <2>3, <2>4, <2>6 DEF IInv, TypeOK, DeadArePruned, Members
    <3>5. QED
      BY <3>1, <3>2, <3>3, <3>4 DEF IInv
  <2>7. QED
    BY <2>1, <2>5, <2>6
<1>12. CASE UNCHANGED vars
  BY <1>12 DEF vars, IInv, TypeOK, NoEmptyRooms, MembersBelong, Snapshots,
               Places, Fresh, DeadArePruned, Members, Joined
<1>13. QED
  BY <1>1, <1>2, <1>3, <1>4, <1>5, <1>6, <1>7, <1>8, <1>9, <1>10, <1>11, <1>12
     DEF Next

\* Every reachable state satisfies the inductive invariant.
THEOREM Invariance == Spec => []IInv
<1>1. Init => IInv
  BY InitIInv
<1>2. IInv /\ [Next]_vars => IInv'
  BY NextIInv
<1>3. QED
  BY <1>1, <1>2, PTL DEF Spec

\* rooms() lists active rooms only.
THEOREM ActiveRooms == Spec => []NoEmptyRooms
<1>1. IInv => NoEmptyRooms
  BY DEF IInv
<1>2. QED
  BY <1>1, Invariance, PTL

\* Type correctness.
THEOREM TypeCorrect == Spec => []TypeOK
<1>1. IInv => TypeOK
  BY DEF IInv
<1>2. QED
  BY <1>1, Invariance, PTL

\* Whoever has left, or was turned away, is in no room.
THEOREM LeftIsOut == Spec => []LeftForGood
<1>1. IInv => LeftForGood
  BY DEF IInv, LeftForGood, MembersBelong, Members
<1>2. QED
  BY <1>1, Invariance, PTL

\* A finished broadcast has reached everybody of its snapshot who is still there.
THEOREM Delivery == Spec => []EveryoneReached
<1>1. IInv => EveryoneReached
  BY DEF IInv, EveryoneReached, Snapshots
<1>2. QED
  BY <1>1, Invariance, PTL

\* What a broadcast found dead is out of the room when it ends, and stays out.
THEOREM Pruning == Spec => []DeadArePruned
<1>1. IInv => DeadArePruned
  BY DEF IInv
<1>2. QED
  BY <1>1, Invariance, PTL
=============================================================================
