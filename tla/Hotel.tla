--------------------------------- MODULE Hotel ---------------------------------
(***************************************************************************)
(* The socialistic hotel of IDZ4, in both its programs: "mutexes" and      *)
(* "rwlocks".  Client threads arrive and queue up; the administration      *)
(* thread hands out rooms day by day and starts a thread for every guest,  *)
(* which gives the room back after its stay.  A day is one second of       *)
(* sleep: nothing but sleep keeps the threads together, so here they take  *)
(* their steps in any order.                                               *)
(*                                                                         *)
(* std::queue and ++ and -- are no atomic operations: a thread reads the   *)
(* queue or the number of rooms, and writes back what it makes of it, in   *)
(* two steps, and only waiters_mutex and room_mutex keep others out in     *)
(* between.  A section under cout_mutex, which touches no other state, is  *)
(* a single step.  room_mutex and cout_mutex are locals of run() that      *)
(* nobody initialises; the model takes them for initialised, as a zeroed   *)
(* stack makes them.  The administration keeps waiters_mutex at the end of *)
(* a day.                                                                  *)
(***************************************************************************)
EXTENDS Integers, Sequences, FiniteSets

CONSTANTS Clients,
          ROOMS,       \* rooms_count, 30 in the code
          DAYS         \* 16

Nobody == "nobody"
Administration == "administration"

ASSUME HotelAssumption ==
  /\ ROOMS \in Nat /\ DAYS \in Nat \ {0}
  /\ IsFiniteSet(Clients) /\ Nobody \notin Clients /\ Administration \notin Clients

Threads == Clients \cup {Administration}

VARIABLES
  program,        \* which of the two programs runs
  arrival,        \* Client: "travel", "push", "unlock" or "queued"
  waiters,        \* the queue of clients without a room
  holder,         \* who holds waiters_mutex
  seen,           \* the queue as a thread has read it, <<>> when it is done with it
  rooms_number,   \* free rooms
  room_holder,    \* who holds room_mutex
  rooms_seen,     \* rooms_number as a thread has read it, 0 when it is done with it
  desk,           \* where Administration::run() is
  cur_time,       \* its day
  client,         \* the client it has taken from the queue
  stay,           \* Client_live: "none", "checkin", "sleep", "count", "leave" or "left"
  ended           \* main() has returned, and every thread is gone

queueVars == <<waiters, holder, seen>>
roomVars == <<rooms_number, room_holder, rooms_seen>>
deskVars == <<desk, cur_time, client>>
vars == <<program, arrival, queueVars, roomVars, deskVars, stay, ended>>

Init ==
  /\ program \in {"mutexes", "rwlocks"}
  /\ arrival = [c \in Clients |-> "travel"]
  /\ waiters = <<>> /\ holder = Nobody /\ seen = [t \in Threads |-> <<>>]
  /\ rooms_number = ROOMS /\ room_holder = Nobody /\ rooms_seen = [t \in Threads |-> 0]
  /\ desk = "lock" /\ cur_time = 0 /\ client = Nobody
  /\ stay = [c \in Clients |-> "none"]
  /\ ended = FALSE

(* waiters, read at the start of push or pop and written at its end *)
ReadQueue(t) == seen' = [seen EXCEPT ![t] = waiters]
WriteQueue(t, q) == waiters' = q /\ seen' = [seen EXCEPT ![t] = <<>>]

(* Mutant: the number of rooms is changed without the lock. *)
ReadRooms(t) ==
  /\ room_holder' = t
  /\ rooms_seen' = [rooms_seen EXCEPT ![t] = rooms_number]
  /\ UNCHANGED rooms_number

(* room_mutex is locked and the number of rooms read, *)
CountRooms(t) ==
  /\ room_holder = Nobody /\ room_holder' = t
  /\ rooms_seen' = [rooms_seen EXCEPT ![t] = rooms_number]
  /\ UNCHANGED rooms_number

(* Mutant: room_mutex is not unlocked. *)
ChangeLocked(t, d) ==
  /\ rooms_number' = rooms_seen[t] + d
  /\ rooms_seen' = [rooms_seen EXCEPT ![t] = 0]
  /\ UNCHANGED room_holder

(* and written back, and room_mutex unlocked. *)
ChangeRooms(t, d) ==
  /\ rooms_number' = rooms_seen[t] + d
  /\ rooms_seen' = [rooms_seen EXCEPT ![t] = 0]
  /\ room_holder' = Nobody
----------------------------------------------------------------------------
(* Mutant: a client does not wait for the lock. *)
EnterQueue(c) ==
  /\ arrival[c] = "travel"
  /\ arrival' = [arrival EXCEPT ![c] = "push"]
  /\ holder' = c /\ ReadQueue(c)
  /\ UNCHANGED <<program, waiters, roomVars, deskVars, stay, ended>>

(* Client::run() *)
LockQueue(c) ==
  /\ arrival[c] = "travel" /\ holder = Nobody
  /\ arrival' = [arrival EXCEPT ![c] = "push"]
  /\ holder' = c /\ ReadQueue(c)
  /\ UNCHANGED <<program, waiters, roomVars, deskVars, stay, ended>>

Push(c) ==
  /\ arrival[c] = "push"
  /\ arrival' = [arrival EXCEPT ![c] = "unlock"]
  /\ WriteQueue(c, Append(seen[c], c))
  /\ UNCHANGED <<program, holder, roomVars, deskVars, stay, ended>>

UnlockQueue(c) ==
  /\ arrival[c] = "unlock"
  /\ arrival' = [arrival EXCEPT ![c] = "queued"]
  /\ holder' = Nobody
  /\ UNCHANGED <<program, waiters, seen, roomVars, deskVars, stay, ended>>
----------------------------------------------------------------------------
(* A lock of waiters_mutex, at the start of a day or after a room has been    *)
(* given out.  Whoever holds a mutex and locks it again waits for ever; a     *)
(* write lock taken again fails, which nobody looks at.                       *)
LockWaiters ==
  /\ desk = "lock"
  /\ \/ holder = Nobody
     \/ holder = Administration /\ program = "rwlocks"
  /\ holder' = Administration
  /\ desk' = "loop"
  /\ UNCHANGED <<program, arrival, waiters, seen, roomVars, cur_time, client, stay, ended>>

(* Mutant: the while loop looks for a client only. *)
TakeWithoutRoom ==
  /\ desk = "loop" /\ waiters # <<>>
  /\ client' = Head(waiters) /\ ReadQueue(Administration)
  /\ desk' = "pop"
  /\ UNCHANGED <<program, arrival, waiters, holder, roomVars, cur_time, stay, ended>>

(* The while loop finds a client and a room: front() is copied, pop() begins. *)
TakeClient ==
  /\ desk = "loop" /\ waiters # <<>> /\ rooms_number > 0
  /\ client' = Head(waiters) /\ ReadQueue(Administration)
  /\ desk' = "pop"
  /\ UNCHANGED <<program, arrival, waiters, holder, roomVars, cur_time, stay, ended>>

(* rwlocks locks where mutexes unlocks. *)
Pop ==
  /\ desk = "pop"
  /\ WriteQueue(Administration, Tail(seen[Administration]))
  /\ holder' = IF program = "mutexes" THEN Nobody ELSE holder
  /\ desk' = "room"
  /\ UNCHANGED <<program, arrival, roomVars, cur_time, client, stay, ended>>

TakeRoom ==
  /\ \/ desk = "room" /\ CountRooms(Administration) /\ desk' = "count"
     \/ desk = "count" /\ ChangeRooms(Administration, -1) /\ desk' = "start"
  /\ UNCHANGED <<program, arrival, queueVars, cur_time, client, stay, ended>>

StartStay ==
  /\ desk = "start"
  /\ stay' = [stay EXCEPT ![client] = "checkin"]
  /\ client' = Nobody
  /\ desk' = "lock"
  /\ UNCHANGED <<program, arrival, queueVars, roomVars, cur_time, ended>>

(* Nobody to house today: the day ends, with waiters_mutex held. *)
EndDay ==
  /\ desk = "loop" /\ (waiters = <<>> \/ rooms_number <= 0)
  /\ cur_time' = cur_time + 1
  /\ desk' = IF cur_time + 1 < DAYS THEN "lock" ELSE "done"
  /\ UNCHANGED <<program, arrival, queueVars, roomVars, client, stay, ended>>
----------------------------------------------------------------------------
(* Client_live::run() *)
CheckIn(c) ==
  /\ stay[c] = "checkin" /\ ~ended
  /\ stay' = [stay EXCEPT ![c] = "sleep"]
  /\ UNCHANGED <<program, arrival, queueVars, roomVars, deskVars, ended>>

GiveRoomBack(c) ==
  /\ ~ended
  /\ \/ stay[c] = "sleep" /\ CountRooms(c) /\ stay' = [stay EXCEPT ![c] = "count"]
     \/ stay[c] = "count" /\ ChangeRooms(c, 1) /\ stay' = [stay EXCEPT ![c] = "leave"]
  /\ UNCHANGED <<program, arrival, queueVars, deskVars, ended>>

Leave(c) ==
  /\ stay[c] = "leave" /\ ~ended
  /\ stay' = [stay EXCEPT ![c] = "left"]
  /\ UNCHANGED <<program, arrival, queueVars, roomVars, deskVars, ended>>

(* main() joins the clients and the administration, not the guests. *)
Return ==
  /\ desk = "done" /\ ~ended /\ \A c \in Clients : arrival[c] = "queued"
  /\ ended' = TRUE
  /\ UNCHANGED <<program, arrival, queueVars, roomVars, deskVars, stay>>

Arrive(c) == LockQueue(c) \/ Push(c) \/ UnlockQueue(c)
Administer == LockWaiters \/ TakeClient \/ Pop \/ TakeRoom \/ StartStay \/ EndDay
Live(c) == CheckIn(c) \/ GiveRoomBack(c) \/ Leave(c)

Next == Administer \/ Return \/ \E c \in Clients : Arrive(c) \/ Live(c)

Fairness ==
  /\ WF_vars(Administer) /\ WF_vars(Return)
  /\ \A c \in Clients : WF_vars(Arrive(c)) /\ WF_vars(Live(c))

Spec == Init /\ [][Next]_vars /\ Fairness
----------------------------------------------------------------------------
(* The ranges of the state; rooms_number, which the administration looks at   *)
(* under one lock and counts down under another, never falls below zero and   *)
(* never exceeds rooms_count.                                                 *)
TypeOK ==
  /\ arrival \in [Clients -> {"travel", "push", "unlock", "queued"}]
  /\ holder \in Threads \cup {Nobody} /\ room_holder \in Threads \cup {Nobody}
  /\ rooms_number \in 0..ROOMS /\ rooms_seen \in [Threads -> 0..ROOMS]
  /\ desk \in {"lock", "loop", "pop", "room", "count", "start", "done"}
  /\ cur_time \in 0..DAYS
  /\ client \in Clients \cup {Nobody}
  /\ stay \in [Clients -> {"none", "checkin", "sleep", "count", "leave", "left"}]

Living == {c \in Clients : stay[c] \in {"checkin", "sleep", "count"}}

(* README.md:17 of IDZ4: thirty single rooms.  Guests and administration each *)
(* read rooms_number and write it back; no count is overwritten, so no room   *)
(* is lost and none is given to two.                                          *)
RoomsMatchGuests ==
  rooms_number + Cardinality(Living) + (IF desk = "start" THEN 1 ELSE 0) = ROOMS

(* A client that has gone to the queue is in one place: waiting, at the desk, *)
(* or in a room it gets once.  A queue written back from an old copy, by a    *)
(* client or by the administration, would drop one or bring one back.         *)
ClientIsInOnePlace ==
  \A c \in Clients :
    Cardinality({i \in 1..Len(waiters) : waiters[i] = c})
      + (IF client = c /\ desk # "pop" THEN 1 ELSE 0)
      + (IF stay[c] # "none" THEN 1 ELSE 0)
    = IF arrival[c] \in {"unlock", "queued"} THEN 1 ELSE 0

(* A guest gets room_mutex and leaves again, also while the administration    *)
(* waits for ever for the lock it has itself, unless the program ends first.  *)
GuestsLeave == \A c \in Clients : c \in Living ~> (stay[c] = "left" \/ ended)
=============================================================================
