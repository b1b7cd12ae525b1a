------------------------------ MODULE HotelProofs ------------------------------
(***************************************************************************)
(* Proofs about the hotel, for every number of clients, rooms and days and *)
(* both programs: the two mutexes make the reads and writes of the queue   *)
(* and of the number of rooms safe, although the administration decides on *)
(* a room under one of them and takes it under the other.                  *)
(***************************************************************************)
EXTENDS Hotel, FiniteSetTheorems, TLAPS

InQueue(c) == \E i \in 1..Len(waiters) : waiters[i] = c
Arrived(c) == arrival[c] \in {"unlock", "queued"}

(* The types, without the upper bounds that need the count of the guests. *)
Types ==
  /\ arrival \in [Clients -> {"travel", "push", "unlock", "queued"}]
  /\ waiters \in Seq(Clients) /\ seen \in [Threads -> Seq(Clients)]
  /\ holder \in Threads \cup {Nobody} /\ room_holder \in Threads \cup {Nobody}
  /\ rooms_number \in Int /\ rooms_seen \in [Threads -> Int]
  /\ desk \in {"lock", "loop", "pop", "room", "count", "start", "done"}
  /\ cur_time \in 0..DAYS
  /\ client \in Clients \cup {Nobody}
  /\ stay \in [Clients -> {"none", "checkin", "sleep", "count", "leave", "left"}]

(* Who works on the queue holds waiters_mutex, and what it has read is the    *)
(* queue still.                                                               *)
QueueLocked ==
  /\ \A c \in Clients : arrival[c] \in {"push", "unlock"} => holder = c
  /\ \A c \in Clients : arrival[c] = "push" => seen[c] = waiters
  /\ desk \in {"loop", "pop"} => holder = Administration
  /\ desk = "pop" => seen[Administration] = waiters

(* The same for room_mutex and the number of rooms; who does not hold it has *)
(* nothing to write back.                                                     *)
RoomsLocked ==
  /\ \A t \in Threads : rooms_seen[t] = IF room_holder = t THEN rooms_number ELSE 0
  /\ \A c \in Clients : stay[c] = "count" => room_holder = c
  /\ desk = "count" => room_holder = Administration

(* Where the administration has a client in its hands, and still a room. *)
AtDesk ==
  /\ client # Nobody <=> desk \in {"pop", "room", "count", "start"}
  /\ desk \in {"pop", "room", "count"} => rooms_number > 0
  /\ desk = "pop" => waiters # <<>> /\ client = Head(waiters)
  /\ desk # "done" => cur_time < DAYS

(* The client the administration has taken out of the queue. *)
InHand == IF desk = "pop" THEN Nobody ELSE client

(* A client is in the queue once at most, and never while it is in hand or    *)
(* has a room; it is somewhere exactly when it has arrived.                   *)
OnePlace ==
  /\ \A i, j \in 1..Len(waiters) : waiters[i] = waiters[j] => i = j
  /\ \A c \in Clients : InQueue(c) => stay[c] = "none" /\ InHand # c
  /\ \A c \in Clients : Arrived(c) <=> InQueue(c) \/ InHand = c \/ stay[c] # "none"
  /\ InHand # Nobody => stay[InHand] = "none"

Rooms == rooms_number >= 0 /\ RoomsMatchGuests

IInv == Types /\ QueueLocked /\ RoomsLocked /\ AtDesk /\ OnePlace /\ Rooms

----------------------------------------------------------------------------
LEMMA LivingIsFinite == IsFiniteSet(Living) /\ Cardinality(Living) \in Nat
<1>1. Living \subseteq Clients
  BY DEF Living
<1>. QED BY <1>1, HotelAssumption, FS_Subset, FS_CardinalityType

LEMMA ThreadNames ==
  /\ Administration \in Threads /\ Nobody \notin Threads /\ Nobody \notin Clients
  /\ \A c \in Clients : c \in Threads /\ c # Administration
BY HotelAssumption DEF Threads, Nobody, Administration

(* A thread that waits for room_mutex gets it; nobody else has a count to     *)
(* write back.                                                                *)
LEMMA CountStep ==
  ASSUME Types, RoomsLocked, NEW t \in Threads, CountRooms(t)
  PROVE  /\ room_holder = Nobody /\ room_holder' = t
         /\ rooms_number' = rooms_number /\ rooms_seen' \in [Threads -> Int]
         /\ \A u \in Threads : rooms_seen'[u] = IF room_holder' = u THEN rooms_number' ELSE 0
BY ThreadNames DEF Types, RoomsLocked, CountRooms

LEMMA ChangeStep ==
  ASSUME Types, RoomsLocked, NEW t \in Threads, NEW d \in Int, room_holder = t,
         ChangeRooms(t, d)
  PROVE  /\ rooms_number' = rooms_number + d /\ room_holder' = Nobody
         /\ rooms_seen' \in [Threads -> Int]
         /\ \A u \in Threads : rooms_seen'[u] = IF room_holder' = u THEN rooms_number' ELSE 0
<1>1. rooms_seen[t] = rooms_number
  BY DEF RoomsLocked
<1>2. rooms_seen' = [rooms_seen EXCEPT ![t] = 0] /\ room_holder' = Nobody
  BY DEF ChangeRooms
<1>3. \A u \in Threads : rooms_seen'[u] = 0 /\ u # Nobody
  BY <1>2, ThreadNames DEF Types, RoomsLocked
<1>. QED BY <1>1, <1>2, <1>3 DEF Types, ChangeRooms

(* What the threads write back is what they would have made of the queue and  *)
(* of the number of rooms in one step.                                        *)
LEMMA PushStep ==
  ASSUME IInv, NEW c \in Clients, Push(c)
  PROVE  waiters' = Append(waiters, c) /\ holder = c /\ desk \notin {"loop", "pop"}
BY ThreadNames DEF IInv, QueueLocked, Push, WriteQueue

LEMMA PopStep ==
  ASSUME IInv, Pop
  PROVE  /\ waiters # <<>> /\ waiters' = Tail(waiters) /\ client = Head(waiters)
         /\ holder = Administration
BY DEF IInv, QueueLocked, AtDesk, Pop, WriteQueue

LEMMA TakeRoomStep ==
  ASSUME IInv, TakeRoom
  PROVE  /\ \/ desk = "room" /\ desk' = "count" /\ rooms_number' = rooms_number
            \/ desk = "count" /\ desk' = "start" /\ rooms_number' = rooms_number - 1
         /\ RoomsLocked' /\ rooms_seen' \in [Threads -> Int]
         /\ room_holder' \in Threads \cup {Nobody} /\ rooms_number' \in Int
<1>. USE DEF IInv
<1>1. Administration \in Threads /\ \A c \in Clients : c \in Threads /\ c # Administration
  BY ThreadNames
<1>2. UNCHANGED stay
  BY DEF TakeRoom
<1>3. CASE desk = "room" /\ CountRooms(Administration) /\ desk' = "count"
  <2>1. /\ room_holder = Nobody /\ room_holder' = Administration
        /\ rooms_number' = rooms_number /\ rooms_seen' \in [Threads -> Int]
        /\ \A u \in Threads : rooms_seen'[u] = IF room_holder' = u THEN rooms_number' ELSE 0
    BY <1>1, <1>3, CountStep
  <2>2. \A c \in Clients : stay[c] # "count"
    BY <2>1, ThreadNames DEF RoomsLocked
  <2>. QED BY <1>1, <1>2, <1>3, <2>1, <2>2 DEF Types, RoomsLocked
<1>4. CASE desk = "count" /\ ChangeRooms(Administration, -1) /\ desk' = "start"
  <2>1. room_holder = Administration
    BY <1>4 DEF RoomsLocked
  <2>2. /\ rooms_number' = rooms_number + (-1) /\ room_holder' = Nobody
        /\ rooms_seen' \in [Threads -> Int]
        /\ \A u \in Threads : rooms_seen'[u] = IF room_holder' = u THEN rooms_number' ELSE 0
    BY <1>1, <1>4, <2>1, ChangeStep
  <2>3. \A c \in Clients : stay[c] # "count"
    BY <1>1, <2>1 DEF RoomsLocked
  <2>. QED BY <1>2, <1>4, <2>2, <2>3 DEF Types, RoomsLocked
<1>. QED BY <1>3, <1>4 DEF TakeRoom

LEMMA GiveBackStep ==
  ASSUME IInv, NEW c \in Clients, GiveRoomBack(c)
  PROVE  /\ \/ stay[c] = "sleep" /\ stay' = [stay EXCEPT ![c] = "count"]
               /\ rooms_number' = rooms_number
            \/ stay[c] = "count" /\ stay' = [stay EXCEPT ![c] = "leave"]
               /\ rooms_number' = rooms_number + 1
         /\ RoomsLocked' /\ rooms_seen' \in [Threads -> Int]
         /\ room_holder' \in Threads \cup {Nobody} /\ rooms_number' \in Int
<1>. USE DEF IInv
<1>1. c \in Threads /\ Administration # c /\ Administration # Nobody
  BY ThreadNames
<1>2. UNCHANGED desk
  BY DEF GiveRoomBack, deskVars
<1>3. CASE stay[c] = "sleep" /\ CountRooms(c) /\ stay' = [stay EXCEPT ![c] = "count"]
  <2>1. /\ room_holder = Nobody /\ room_holder' = c
        /\ rooms_number' = rooms_number /\ rooms_seen' \in [Threads -> Int]
        /\ \A u \in Threads : rooms_seen'[u] = IF room_holder' = u THEN rooms_number' ELSE 0
    BY <1>1, <1>3, CountStep
  <2>2. desk # "count" /\ \A d \in Clients : stay[d] # "count"
    BY <1>1, <2>1, ThreadNames DEF RoomsLocked
  <2>. QED BY <1>1, <1>2, <1>3, <2>1, <2>2 DEF Types, RoomsLocked
<1>4. CASE stay[c] = "count" /\ ChangeRooms(c, 1) /\ stay' = [stay EXCEPT ![c] = "leave"]
  <2>1. room_holder = c
    BY <1>4 DEF RoomsLocked
  <2>2. /\ rooms_number' = rooms_number + 1 /\ room_holder' = Nobody
        /\ rooms_seen' \in [Threads -> Int]
        /\ \A u \in Threads : rooms_seen'[u] = IF room_holder' = u THEN rooms_number' ELSE 0
    BY <1>1, <1>4, <2>1, ChangeStep
  <2>3. desk # "count" /\ \A d \in Clients \ {c} : stay[d] # "count"
    BY <1>1, <2>1 DEF RoomsLocked
  <2>. QED BY <1>2, <1>4, <2>2, <2>3 DEF Types, RoomsLocked
<1>. QED BY <1>3, <1>4 DEF GiveRoomBack

(* Two threads never work on the queue, or on the number of rooms, at once. *)
LEMMA LocksStep == ASSUME IInv, [Next]_vars PROVE QueueLocked' /\ RoomsLocked'
<1>. USE ThreadNames DEF IInv, Types, QueueLocked
<1>1. CASE UNCHANGED vars
  BY <1>1 DEF RoomsLocked, vars, queueVars, roomVars, deskVars
<1>2. CASE LockWaiters \/ TakeClient \/ EndDay \/ Return
  BY <1>2 DEF RoomsLocked, LockWaiters, TakeClient, EndDay, Return, ReadQueue,
              queueVars, roomVars, deskVars
<1>3. CASE Pop
  BY <1>3, PopStep DEF RoomsLocked, Pop, WriteQueue, roomVars
<1>4. CASE TakeRoom
  BY <1>4, TakeRoomStep DEF TakeRoom, queueVars
<1>5. CASE StartStay
  BY <1>5 DEF RoomsLocked, StartStay, AtDesk, queueVars, roomVars
<1>6. ASSUME NEW c \in Clients, LockQueue(c) PROVE QueueLocked' /\ RoomsLocked'
  BY <1>6 DEF RoomsLocked, LockQueue, ReadQueue, roomVars, deskVars
<1>7. ASSUME NEW c \in Clients, Push(c) PROVE QueueLocked' /\ RoomsLocked'
  BY <1>7, PushStep DEF RoomsLocked, Push, WriteQueue, roomVars, deskVars
<1>8. ASSUME NEW c \in Clients, UnlockQueue(c) PROVE QueueLocked' /\ RoomsLocked'
  BY <1>8 DEF RoomsLocked, UnlockQueue, roomVars, deskVars
<1>9. ASSUME NEW c \in Clients, CheckIn(c) \/ Leave(c) PROVE QueueLocked' /\ RoomsLocked'
  BY <1>9 DEF RoomsLocked, CheckIn, Leave, queueVars, roomVars, deskVars
<1>10. ASSUME NEW c \in Clients, GiveRoomBack(c) PROVE QueueLocked' /\ RoomsLocked'
  BY <1>10, GiveBackStep DEF GiveRoomBack, queueVars, deskVars
<1>. QED
  BY <1>1, <1>2, <1>3, <1>4, <1>5, <1>6, <1>7, <1>8, <1>9, <1>10
  DEF Next, Administer, Arrive, Live

LEMMA TypesStep == ASSUME IInv, [Next]_vars PROVE Types' /\ AtDesk'
<1>. USE ThreadNames DEF IInv, Types, AtDesk
<1>1. CASE UNCHANGED vars
  BY <1>1 DEF vars, queueVars, roomVars, deskVars
<1>2. CASE LockWaiters
  BY <1>2 DEF LockWaiters, roomVars
<1>3. CASE TakeClient
  <2>1. Head(waiters) \in Clients
    BY <1>3 DEF TakeClient
  <2>2. seen' \in [Threads -> Seq(Clients)]
    BY <1>3 DEF TakeClient, ReadQueue
  <2>. QED BY <1>3, <2>1, <2>2 DEF TakeClient, roomVars
<1>4. CASE Pop
  <2>1. waiters # <<>> /\ waiters' = Tail(waiters)
    BY <1>4, PopStep
  <2>2. waiters' \in Seq(Clients)
    BY <2>1
  <2>3. seen' \in [Threads -> Seq(Clients)]
    BY <1>4 DEF Pop, WriteQueue
  <2>. QED BY <1>4, <2>2, <2>3 DEF Pop, roomVars
<1>5. CASE TakeRoom
  BY <1>5, TakeRoomStep DEF TakeRoom, queueVars
<1>6. CASE StartStay
  <2>1. client \in Clients
    BY <1>6 DEF StartStay
  <2>. QED BY <1>6, <2>1 DEF StartStay, queueVars, roomVars
<1>7. CASE EndDay
  BY <1>7, HotelAssumption DEF EndDay, queueVars, roomVars
<1>8. CASE Return
  BY <1>8 DEF Return, queueVars, roomVars, deskVars
<1>9. ASSUME NEW c \in Clients, LockQueue(c) PROVE Types' /\ AtDesk'
  <2>1. seen' \in [Threads -> Seq(Clients)]
    BY <1>9 DEF LockQueue, ReadQueue
  <2>. QED BY <1>9, <2>1 DEF LockQueue, roomVars, deskVars
<1>10. ASSUME NEW c \in Clients, Push(c) PROVE Types' /\ AtDesk'
  <2>1. waiters' = Append(waiters, c) /\ desk # "pop"
    BY <1>10, PushStep
  <2>2. waiters' \in Seq(Clients)
    BY <2>1
  <2>3. seen' \in [Threads -> Seq(Clients)]
    BY <1>10 DEF Push, WriteQueue
  <2>. QED BY <1>10, <2>1, <2>2, <2>3 DEF Push, roomVars, deskVars
<1>11. ASSUME NEW c \in Clients, UnlockQueue(c) PROVE Types' /\ AtDesk'
  BY <1>11 DEF UnlockQueue, roomVars, deskVars
<1>12. ASSUME NEW c \in Clients, CheckIn(c) \/ Leave(c) PROVE Types' /\ AtDesk'
  BY <1>12 DEF CheckIn, Leave, queueVars, roomVars, deskVars
<1>13. ASSUME NEW c \in Clients, GiveRoomBack(c) PROVE Types' /\ AtDesk'
  <2>1. stay' \in [Clients -> {"none", "checkin", "sleep", "count", "leave", "left"}]
    BY <1>13, GiveBackStep
  <2>2. rooms_number' = rooms_number \/ rooms_number' = rooms_number + 1
    BY <1>13, GiveBackStep
  <2>3. /\ rooms_seen' \in [Threads -> Int] /\ room_holder' \in Threads \cup {Nobody}
        /\ rooms_number' \in Int
    BY <1>13, GiveBackStep
  <2>4. UNCHANGED <<arrival, waiters, holder, seen, desk, cur_time, client>>
    BY <1>13 DEF GiveRoomBack, queueVars, deskVars
  <2>5. AtDesk'
    BY <2>2, <2>4
  <2>. QED BY <2>1, <2>3, <2>4, <2>5
<1>. QED
  BY <1>1, <1>2, <1>3, <1>4, <1>5, <1>6, <1>7, <1>8, <1>9, <1>10, <1>11, <1>12, <1>13
  DEF Next, Administer, Arrive, Live

(* A step that moves no client between the road, the queue, the desk and a room. *)
LEMMA PlacesKept ==
  ASSUME OnePlace, waiters' = waiters, InHand' = InHand,
         \A c \in Clients : /\ Arrived(c)' <=> Arrived(c)
                            /\ stay'[c] = "none" <=> stay[c] = "none",
         InHand \in Clients \cup {Nobody}
  PROVE  OnePlace'
BY DEF OnePlace, InQueue

LEMMA OnePlaceStep == ASSUME IInv, [Next]_vars PROVE OnePlace'
<1>. USE DEF IInv, Types
<1>0. InHand \in Clients \cup {Nobody}
  BY DEF InHand
<1>1. CASE UNCHANGED vars
  BY <1>0, <1>1, PlacesKept DEF vars, queueVars, deskVars, Arrived, InHand
<1>2. CASE LockWaiters \/ TakeClient \/ TakeRoom \/ EndDay \/ Return
  <2>1. InHand' = InHand
    BY <1>2 DEF InHand, AtDesk, LockWaiters, TakeClient, TakeRoom, EndDay, Return, deskVars
  <2>2. UNCHANGED <<waiters, arrival, stay>>
    BY <1>2 DEF LockWaiters, TakeClient, TakeRoom, EndDay, Return, queueVars
  <2>. QED BY <1>0, <2>1, <2>2, PlacesKept DEF Arrived
<1>3. CASE Pop
  <2>1. /\ waiters # <<>> /\ waiters' = Tail(waiters) /\ InHand' = waiters[1]
        /\ UNCHANGED <<arrival, stay>> /\ InHand = Nobody
    BY <1>3, PopStep DEF Pop, InHand
  <2>2. /\ Len(waiters') = Len(waiters) - 1 /\ Len(waiters) \in Nat \ {0}
        /\ \A i \in 1..Len(waiters') : waiters'[i] = waiters[i + 1]
    BY <2>1
  <2>3. InHand' \in Clients /\ InQueue(InHand')
    BY <2>1, <2>2 DEF InQueue
  <2>4. \A c \in Clients : InQueue(c)' => InQueue(c) /\ c # InHand'
    <3>. TAKE c \in Clients
    <3>. HAVE InQueue(c)'
    <3>1. PICK i \in 1..Len(waiters') : waiters'[i] = c
      BY DEF InQueue
    <3>2. i + 1 \in 1..Len(waiters) /\ 1 \in 1..Len(waiters) /\ i + 1 # 1 /\ waiters[i + 1] = c
      BY <2>2, <3>1
    <3>3. waiters[1] # c
      BY <3>2 DEF OnePlace
    <3>. QED BY <2>1, <3>2, <3>3 DEF InQueue
  <2>5. \A i, j \in 1..Len(waiters') : waiters'[i] = waiters'[j] => i = j
    <3>. TAKE i, j \in 1..Len(waiters')
    <3>1. i + 1 \in 1..Len(waiters) /\ j + 1 \in 1..Len(waiters)
      BY <2>2
    <3>2. waiters[i + 1] = waiters[j + 1] => i + 1 = j + 1
      BY <3>1 DEF OnePlace
    <3>. QED BY <2>2, <3>2
  <2>6. \A c \in Clients : InQueue(c) => InQueue(c)' \/ c = InHand'
    <3>. TAKE c \in Clients
    <3>. HAVE InQueue(c)
    <3>1. PICK i \in 1..Len(waiters) : waiters[i] = c
      BY DEF InQueue
    <3>2. CASE i = 1
      BY <2>1, <3>1, <3>2
    <3>3. CASE i # 1
      <4>1. i - 1 \in 1..Len(waiters') /\ waiters'[i - 1] = c
        BY <2>2, <3>1, <3>3
      <4>. QED BY <4>1 DEF InQueue
    <3>. QED BY <3>2, <3>3
  <2>7. \A c \in Clients : Arrived(c)' <=> Arrived(c)
    BY <2>1 DEF Arrived
  <2>. QED BY <2>1, <2>3, <2>4, <2>5, <2>6, <2>7, HotelAssumption DEF OnePlace
<1>4. CASE StartStay
  <2>1. client \in Clients /\ InHand = client /\ InHand' = Nobody
    BY <1>4, ThreadNames DEF StartStay, AtDesk, InHand
  <2>2. /\ stay' = [stay EXCEPT ![client] = "checkin"]
        /\ UNCHANGED <<arrival, waiters>>
    BY <1>4 DEF StartStay, queueVars
  <2>3. ~InQueue(client)
    BY <2>1 DEF OnePlace
  <2>4. \A c \in Clients : /\ InQueue(c)' <=> InQueue(c)
                           /\ Arrived(c)' <=> Arrived(c)
                           /\ stay'[c] # "none" <=> stay[c] # "none" \/ c = client
    BY <2>1, <2>2 DEF InQueue, Arrived
  <2>5. \A c \in Clients : c # Nobody
    BY ThreadNames
  <2>. QED BY <2>1, <2>2, <2>3, <2>4, <2>5 DEF OnePlace
<1>5. ASSUME NEW c \in Clients, LockQueue(c) \/ UnlockQueue(c) PROVE OnePlace'
  <2>1. InHand' = InHand /\ waiters' = waiters
    BY <1>5 DEF LockQueue, UnlockQueue, deskVars, InHand
  <2>. QED BY <1>0, <1>5, <2>1, PlacesKept DEF LockQueue, UnlockQueue, Arrived
<1>6. ASSUME NEW c \in Clients, Push(c) PROVE OnePlace'
  <2>1. /\ ~Arrived(c) /\ arrival' = [arrival EXCEPT ![c] = "unlock"]
        /\ waiters' = Append(waiters, c) /\ InHand' = InHand /\ stay' = stay
    BY <1>6, PushStep DEF Push, deskVars, Arrived, InHand
  <2>2. /\ Len(waiters') = Len(waiters) + 1 /\ Len(waiters) \in Nat
        /\ \A i \in 1..Len(waiters') :
             waiters'[i] = IF i = Len(waiters) + 1 THEN c ELSE waiters[i]
    BY <2>1
  <2>3. \A i \in 1..Len(waiters) : waiters[i] # c
    BY <2>1 DEF OnePlace, InQueue
  <2>4. \A i, j \in 1..Len(waiters') : waiters'[i] = waiters'[j] => i = j
    <3>. TAKE i, j \in 1..Len(waiters')
    <3>1. \A k \in 1..Len(waiters') : k = Len(waiters) + 1 \/ k \in 1..Len(waiters)
      BY <2>2
    <3>. QED BY <2>2, <2>3, <3>1 DEF OnePlace
  <2>5. \A d \in Clients : InQueue(d)' <=> InQueue(d) \/ d = c
    <3>1. /\ Len(waiters) + 1 \in 1..Len(waiters') /\ waiters'[Len(waiters) + 1] = c
          /\ \A k \in 1..Len(waiters) : k \in 1..Len(waiters') /\ waiters'[k] = waiters[k]
          /\ \A k \in 1..Len(waiters') : k = Len(waiters) + 1 \/ k \in 1..Len(waiters)
      BY <2>2
    <3>. QED BY <3>1 DEF InQueue
  <2>6. \A d \in Clients : Arrived(d)' <=> Arrived(d) \/ d = c
    BY <2>1 DEF Arrived
  <2>7. stay[c] = "none" /\ InHand # c
    BY <2>1 DEF OnePlace
  <2>. QED BY <2>1, <2>4, <2>5, <2>6, <2>7 DEF OnePlace
<1>7. ASSUME NEW c \in Clients, Live(c) PROVE OnePlace'
  <2>1. \A d \in Clients : stay'[d] = "none" <=> stay[d] = "none"
    BY <1>7, GiveBackStep DEF Live, CheckIn, Leave
  <2>2. InHand' = InHand /\ UNCHANGED <<waiters, arrival>>
    BY <1>7 DEF Live, CheckIn, GiveRoomBack, Leave, queueVars, deskVars, InHand
  <2>. QED BY <1>0, <2>1, <2>2, PlacesKept DEF Arrived
<1>. QED
  BY <1>1, <1>2, <1>3, <1>4, <1>5, <1>6, <1>7 DEF Next, Administer, Arrive

(* A step that moves no guest in or out and leaves the rooms alone. *)
LEMMA RoomsKept ==
  ASSUME Rooms, rooms_number' = rooms_number, Living' = Living,
         desk = "start" <=> desk' = "start"
  PROVE  Rooms'
BY DEF Rooms, RoomsMatchGuests

LEMMA RoomsStep == ASSUME IInv, [Next]_vars PROVE Rooms'
<1>. USE DEF IInv, Types
<1>1. CASE UNCHANGED vars
  BY <1>1, RoomsKept DEF vars, roomVars, deskVars, Living
<1>2. CASE LockWaiters \/ TakeClient \/ Pop \/ EndDay \/ Return
  BY <1>2, RoomsKept
  DEF LockWaiters, TakeClient, Pop, EndDay, Return, roomVars, deskVars, Living
<1>3. CASE TakeRoom
  <2>1. Living' = Living
    BY <1>3 DEF TakeRoom, Living
  <2>2. CASE desk = "room"
    BY <1>3, <2>1, <2>2, TakeRoomStep, RoomsKept
  <2>3. CASE desk = "count"
    <3>1. desk' = "start" /\ rooms_number' = rooms_number - 1 /\ rooms_number > 0
      BY <1>3, <2>3, TakeRoomStep DEF AtDesk
    <3>. QED BY <2>1, <2>3, <3>1, LivingIsFinite DEF Rooms, RoomsMatchGuests
  <2>. QED BY <1>3, <2>2, <2>3, TakeRoomStep
<1>4. CASE StartStay
  <2>1. client \in Clients \ Living
    BY <1>4, ThreadNames DEF StartStay, AtDesk, OnePlace, InHand, Living
  <2>2. Living' = Living \cup {client}
    BY <1>4, <2>1 DEF StartStay, Living
  <2>3. Cardinality(Living') = Cardinality(Living) + 1
    BY <2>1, <2>2, LivingIsFinite, FS_AddElement
  <2>4. desk = "start" /\ desk' = "lock" /\ rooms_number' = rooms_number
    BY <1>4 DEF StartStay, roomVars
  <2>. QED BY <2>3, <2>4, LivingIsFinite DEF Rooms, RoomsMatchGuests
<1>5. ASSUME NEW c \in Clients, Arrive(c) PROVE Rooms'
  BY <1>5, RoomsKept DEF Arrive, LockQueue, Push, UnlockQueue, roomVars, deskVars, Living
<1>6. ASSUME NEW c \in Clients, CheckIn(c) \/ Leave(c) PROVE Rooms'
  <2>1. Living' = Living /\ UNCHANGED <<rooms_number, desk>>
    BY <1>6 DEF CheckIn, Leave, Living, roomVars, deskVars
  <2>. QED BY <2>1, RoomsKept
<1>7. ASSUME NEW c \in Clients, GiveRoomBack(c) PROVE Rooms'
  <2>1. desk' = desk
    BY <1>7 DEF GiveRoomBack, deskVars
  <2>2. CASE stay[c] = "sleep"
    <3>1. stay' = [stay EXCEPT ![c] = "count"] /\ rooms_number' = rooms_number
      BY <1>7, <2>2, GiveBackStep
    <3>2. Living' = Living
      BY <2>2, <3>1 DEF Living
    <3>. QED BY <2>1, <3>1, <3>2, RoomsKept
  <2>3. CASE stay[c] = "count"
    <3>1. stay' = [stay EXCEPT ![c] = "leave"] /\ rooms_number' = rooms_number + 1
      BY <1>7, <2>3, GiveBackStep
    <3>2. c \in Living /\ Living' = Living \ {c}
      BY <2>3, <3>1 DEF Living
    <3>3. Cardinality(Living') = Cardinality(Living) - 1
      BY <3>2, LivingIsFinite, FS_RemoveElement
    <3>. QED BY <2>1, <3>1, <3>3, LivingIsFinite DEF Rooms, RoomsMatchGuests
  <2>. QED BY <1>7, <2>2, <2>3, GiveBackStep
<1>. QED
  BY <1>1, <1>2, <1>3, <1>4, <1>5, <1>6, <1>7 DEF Next, Administer, Live

LEMMA HotelInit == Init => IInv
<1>. SUFFICES ASSUME Init PROVE IInv
  OBVIOUS
<1>1. Living = {}
  BY DEF Init, Living
<1>2. Rooms
  BY <1>1, FS_EmptySet, HotelAssumption DEF Init, Rooms, RoomsMatchGuests
<1>3. Types /\ AtDesk /\ QueueLocked /\ RoomsLocked
  BY HotelAssumption, ThreadNames DEF Init, Types, AtDesk, QueueLocked, RoomsLocked
<1>4. OnePlace
  BY ThreadNames DEF Init, OnePlace, InHand, InQueue, Arrived
<1>. QED BY <1>2, <1>3, <1>4 DEF IInv

LEMMA HotelInvariant == Spec => []IInv
<1>1. IInv /\ [Next]_vars => IInv'
  BY LocksStep, TypesStep, OnePlaceStep, RoomsStep DEF IInv
<1>. QED BY <1>1, HotelInit, PTL DEF Spec

(* Every room is free, taken for the client at the desk, or has one guest. *)
THEOREM RoomsCorrect == Spec => []RoomsMatchGuests
<1>1. IInv => RoomsMatchGuests
  BY DEF IInv, Rooms
<1>. QED BY <1>1, HotelInvariant, PTL

(* Who has arrived is once in the queue, at the desk or in a room; who has    *)
(* not is nowhere.                                                            *)
THEOREM PlacesCorrect == Spec => []ClientIsInOnePlace
<1>1. IInv => ClientIsInOnePlace
  <2>. SUFFICES ASSUME IInv, NEW c \in Clients
                PROVE  LET AtPlaces == {i \in 1..Len(waiters) : waiters[i] = c}
                       IN  Cardinality(AtPlaces)
                             + (IF InHand = c THEN 1 ELSE 0)
                             + (IF stay[c] # "none" THEN 1 ELSE 0)
                           = IF Arrived(c) THEN 1 ELSE 0
    BY ThreadNames DEF ClientIsInOnePlace, Arrived, InHand
  <2>. DEFINE AtPlaces == {i \in 1..Len(waiters) : waiters[i] = c}
  <2>1. CASE InQueue(c)
    <3>1. PICK i \in 1..Len(waiters) : AtPlaces = {i}
      BY <2>1 DEF IInv, OnePlace, InQueue
    <3>2. Cardinality(AtPlaces) = 1
      BY <3>1, FS_Singleton
    <3>. QED BY <2>1, <3>2 DEF IInv, OnePlace
  <2>2. CASE ~InQueue(c)
    <3>1. AtPlaces = {}
      BY <2>2 DEF InQueue
    <3>2. Cardinality(AtPlaces) = 0
      BY <3>1, FS_EmptySet
    <3>3. InHand = c => stay[c] = "none"
      BY ThreadNames DEF IInv, OnePlace
    <3>. QED BY <2>2, <3>2, <3>3 DEF IInv, OnePlace
  <2>. QED BY <2>1, <2>2
<1>. QED BY <1>1, HotelInvariant, PTL

(* Every variable keeps its type; rooms_number stays between 0 and rooms_count. *)
THEOREM HotelTypeCorrect == Spec => []TypeOK
<1>1. IInv => TypeOK
  <2>. SUFFICES ASSUME IInv PROVE TypeOK
    OBVIOUS
  <2>1. rooms_number \in 0..ROOMS
    BY LivingIsFinite, HotelAssumption DEF IInv, Types, Rooms, RoomsMatchGuests
  <2>2. \A t \in Threads : rooms_seen[t] \in 0..ROOMS
    BY <2>1, HotelAssumption DEF IInv, RoomsLocked
  <2>. QED BY <2>1, <2>2 DEF IInv, Types, TypeOK
<1>. QED BY <1>1, HotelInvariant, PTL
=============================================================================
