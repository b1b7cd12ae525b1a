# Verification of the HSE ABC/OS course programs

The repository holds a student's work for a course on computer architecture and
operating systems: some twenty small programs. Those with logic worth checking are
the concurrent ones: the number pipelines (`idz os 1`), programmers who review each
other's programs (`idz os 2`), a picture gallery with a watchman (`idz os 3`), the
attractive student and her fans (`idz os 4`), the socialistic hotel (`IDZ4`), counters in
shared memory (`dz7`, `dz8`) and a clock of two processes (`dz9`). This directory holds
TLA+ modules of them, the TLC configurations that check them, and TLAPS proofs about
each of them.

    tlc -config Programmers.cfg ProgrammersRefinement      # and so on, see "Runs"
    tlapm ProgrammersProofs.tla                            # and the other *Proofs.tla

`PROJECT.json` lists components, runs, hazards, theorems and, for every definition
that models code, the lines it models.

## Inventory

### Number pipelines, `idz os 1`

A file's text goes to a process that finds the numbers in it, and their list goes into
another file. There are seven versions:

| part | processes | carries text and answer | each in |
|---|---|---|---|
| 4 | 3, forked | two pipes | one call of 5000 bytes |
| 5 | 3, forked | two FIFOs | one call |
| 6 | 2, forked | two pipes | one call |
| 7 | 2, forked | two FIFOs | one call |
| 8 | 2 programs | two FIFOs | one call |
| 9 | 2 programs | two FIFOs | chunks of 128 bytes |
| 10 | 2 programs | two System V queues | chunks of 128 bytes |

*State*: the channels with their open ends and names, the buffer in each process's hand,
the part of the stack behind a buffer. *Operations*: the system calls, the scan, the
answer. *Hard*: `open` of a FIFO waits for the other side, `read` for data or the
last writer; inherited ends keep a pipe open; buffers are searched for a NUL that nobody
put there; chunks do not line up with what was read. *Correct means*: the answer is
the numbers of the file, the run ends, leaves nothing behind, and has stored the
answer when it ends.

### Programmers, `idz os 2`

Each of `NUM_PROGS` processes writes programs and reviews those of others. A task is
a number: -1 "write your own program", `n` "review the program of n", `n + NUM_PROGS`
"review it again". There are five versions:

| part | carries tasks | synchronises with | processes |
|---|---|---|---|
| 4-5 | arrays in shared memory | named POSIX semaphores | forked |
| 6-7 | the same | unnamed POSIX semaphores | forked |
| 8 | the same | System V semaphores | forked |
| 9 | System V messages | System V semaphores | independent |
| 10 | POSIX messages | named POSIX semaphores | independent |

*State*: one queue and one counting semaphore per programmer, the mutex of parts 4-8,
the locals of `run()`. *Operations*: wait for a task, `get_task`, write or review,
`add_task`, post. *Interaction*: shared memory or messages, always announced by a
semaphore. *Hard*: the queue is read and written back in several instructions; task
and semaphore are changed at different moments; `get_task` answers "queue empty" with
the code of an own task; a full queue drops a task silently; in part 9 the queues
survive `killall`, in part 10 the calls block. *Correct means*: no task is lost or
doubled, a semaphore never promises a task that is not there, nobody reviews its own
program, every program is in the end approved.

### Gallery, `idz os 3`

A server with a `select` loop over a table of TCP connections counts the visitors in
the gallery (25 at most) and before each painting (5 at most). A visitor enters, sees
every painting, leaves. *State*: the table of slots, `current_visitors`,
`painting_counts`; at the visitor where it is, what it asked, how often it has asked.
*Operations*: ENTER, VIEW, LEAVE_PAINTING, EXIT, accept, the end of a connection; in
part 10 the shutdown from a signal handler. *Hard*: requests sent again after a
time-out, answers to an earlier request, requests read together, visitors that
are interrupted or killed anywhere, slots used again, `SIGPIPE`. *Correct means*: the
limits hold, the counts match the visitors, everybody gets in and home again, a
visitor that is gone is forgotten.

### Valentine, `idz os 4`

A UDP server collects a proposal from each of `num_clients` fans, agrees to the
longest and rejects the rest. That is all of parts 4-5 to 8 but their log messages. In
part 9 the server pings its loggers meanwhile and drops silent ones; in part 10 `SIGINT`
ends its loop and it says so to those it has heard of. *State*: the proposals received,
the loggers with their activity and time, `shutdown_requested`. *Operations*: one turn
of the loop, selection, answers, `notify_shutdown`. *Hard*: the order of datagrams, empty
and cut ones, the two time constants against each other, a logger's REGISTER that lands
among the proposals, a signal between the loop's test and `select`. *Correct means*: one
fan at most is told AGREE and none proposed more, every fan is answered, live loggers
stay and dead ones go, a stopped server ends.

### Hotel, `IDZ4`

Thirty rooms, client threads that queue up, an administration thread that hands out
rooms day by day, a thread per guest that gives the room back. Two programs, with
mutexes and with read-write locks. *State*: the queue under `waiters_mutex`,
`rooms_number` under `room_mutex`. *Hard*: the two are under different locks; the
administration keeps `waiters_mutex` locked over the end of the day; `rwlocks` locks
where `mutexes` unlocks; guests are not joined. *Correct means*: no room is lost or
given twice, no client is lost or housed twice, guests leave.

### Counters, `dz7` and `dz8`

Any number of processes count up one counter in shared memory until a signal comes. The
first one makes the memory, the last one, by `process_count`, removes it: a System V
segment in `dz7`, a POSIX object in `dz8`. *Hard*: creation and first store, last count
and removal are several calls each, with others coming and going in between; a name may
by then stand for another memory. *Correct means*: `process_count` is the number of
those who use the memory, nothing is left when all have gone.

### Clock, `dz9`

`post` writes the time into shared memory, `wait` prints it; two semaphores give them
turns. *Hard*: `post` posts before it copies; a signal between the loop's test and
`sem_wait` goes unnoticed, one in `sem_wait` leaves a turn in the semaphores; a killed
reader leaves the memory. *Correct means*: no turn is lost or doubled, a printed line is
a time, who gets a signal goes home.

### The rest

Not modelled: the gallery's monitors and its first version (part 4-5), the wrapper
`CountingSemaphore` of `dz9`, the signal log of `dz6`, the relay of seminar 11, programs
of a screenful (`dz2`-`dz5`, `dzpredlast`, `dzlast`), the RISC-V programs, the first
record types of `hw2`, and vendored or generated code. The reasons are with the
components in `PROJECT.json`.

## Modules

    PipelineText ── Pipeline ─┬─ MCPipeline
                              └─ PipelineProofs
    ProgrammerTasks ── Programmers ─┬─ ProgrammersRefinement ─────(implements)── TaskCirculation
          │                         └─ ProgrammersProofs                                │
          └── ProgrammersSysV ── ProgrammersPosix ─┬──────────────(implements)──────────┘
                                                   └─ ProgrammersMessageProofs
    GalleryVisitors ── GalleryTable ─┬─ GalleryServer ── GalleryProofs
                                     └─ GalleryServer10
    Valentine ─┬─ MCValentine
               └─ ValentineProofs
    Hotel ── HotelProofs     Counters ── CountersProofs     Clock ── ClockProofs

Variants of a program are one module in which a variable that never changes says which
variant runs (`part` or `program`).

**PipelineText** has the scan `find_all_numbers`, the answer and what C's string functions
see of a buffer, beside a definition of the numbers of a text without a scan. A text is
a sequence of digits and separators; its recursive functions are ones that can be proved
about. **Pipeline** gives every process of every part as
the sequence of its system calls (`Reader4`, `Counter5`, ...); the actions say what one
call does to the channels, waits included. A loop over chunks is one call that is
repeated once per chunk. `output` is the set of what the output file holds: empty before
the file is opened, one text after.

**ProgrammerTasks** has the task codes. **Programmers** models parts 4-5 and 6-7 line by
line: every semaphore call and every access to a shared queue is a step. `add_task` and
`get_task` take two, one that reads the queue (`seen`) and one that writes back what
they computed, so that a missing mutex would show. `sems[]` is `sem`, the arrays
`queue1..3` cut at their indices are `queue`, the rest are the locals of `run()`. Locals
return to a fixed value as soon as the code can no longer read them.
**ProgrammersSysV** models part 9, where a message call is atomic and there is no mutex;
`Restart` is `killall` followed by the run script at any moment: the queues keep what
they held. **ProgrammersPosix** takes its steps and makes the queues block (part 10,
whose initializer unlinks everything first, so that it has no `Restart`).
**TaskCirculation** is the abstract specification: the program of each programmer is
with its author or with a reviewer who is somebody else, goes to and fro, and is in the
end approved. **ProgrammersRefinement** and ProgrammersPosix map the queues and locals
to it: a program is where its one task is.

**GalleryVisitors** models `client.c` of part 9 and the connection: two sequences of
messages (`up`, `down`), of which a read takes any beginning, and a `link` as the
server's TCP sees it. **GalleryTable** has what all servers share: the table, `accept`,
ENTER, VIEW and the answers. **GalleryServer** adds EXIT, LEAVE_PAINTING and the end of
a connection as in part 9 (parts 6-7 and 8 have the same server); **GalleryServer10**
as in part 10, with its shutdown and a client that says EXIT on every exit. In part 9 an
action is a whole call of `handle_client_message`, since the server is one thread and
catches no signal. In part 10 the signal handler may run in the middle of it: the answer
is a step of its own (`Respond`), and `notify_shutdown` takes the slots one by one. A
visitor's handler only sets `g_shutdown`, which ends its loops later.

**Valentine** is all five parts. The choice is the scan of the proposals as the code makes
it (`Best`); the property says of whom it finds without one (`IsFirstLongest`). `Turn` is
one turn of part 9's loop with a datagram or none from each socket, the clock moving by at
most the second `select` waits. Part 10 takes the loop's test, `select` and what follows
the loop in separate steps, since the signal may come between them.

**Hotel** models both programs. A thread reads the queue (`seen`) or the number of rooms
(`rooms_seen`) in one step and writes it back in another, so that a missing
`waiters_mutex` or `room_mutex` would show. A section under `cout_mutex` is a single step.

**Counters** models both programs, one step per call on the memory or its name. Memories
are numbered as they are made; `named` is the one that can be found, `sized` has those
whose size is set, and a process keeps the one it found.

**Clock** models both programs, one step per semaphore call and per half of a copied
or printed time. Of each half the model keeps its age, how many times have been posted
since it was written, which tells whether a printed line belongs to one time.

## Runs

| run | module | instance | shows |
|---|---|---|---|
| programmers | ProgrammersRefinement | 3 programmers, queues of 3 | mutual exclusion, no lost update, semaphores count the queues, no queue overflows, one task per programmer, nobody reviews itself, and TaskCirculation is implemented |
| programmers_live | ProgrammersRefinement | 2 programmers, queues of 50 | the fair TaskCirculation: every program is submitted and in the end approved |
| sysv_restart | ProgrammersSysV | 2 programmers, 3 runs | through two kills at any moment a programmer let through finds a message, and none reviews itself |
| posix | ProgrammersPosix | 3 programmers, queues of 3 | no process blocks in a queue, and the fair TaskCirculation |
| gallery_quiet | GalleryServer | 3 visitors, 2 may enter, 2 paintings for 1 | on a quiet day the limits hold, the counts are right and every visit ends |
| gallery_failures | GalleryServer | 2 visitors, 1 may enter, 2 attempts | with late answers, signals and kills a connection has one slot, and the slot of a visitor that is gone is freed |
| gallery10_shutdown | GalleryServer10 | 2 visitors | a shutdown at any moment, between a request and its answer too, sends all visitors home; a signalled visitor ends |
| hotel | Hotel | 4 clients, 2 rooms, 3 days, both programs | no count and no queue is overwritten with an old one: rooms match guests, a client is in one place; guests leave |
| valentine | MCValentine | 5 parts, 3 fans, a logger, a registering logger_client, interval 2 s | the first of the longest wins, fans are answered, live loggers stay, silent ones go, `SIGINT` ends the server |
| pipeline | MCPipeline | 7 parts, 259 texts and no file, digits or nothing on the stack | the stored answer is right, a run that returns is done and leaves nothing, nobody dies of `SIGPIPE`, every run ends |
| counters | Counters | 3 processes, both programs | `process_count` is never too high and exact in `dz7`, nothing is left behind, a signal ends a process |
| clock | Clock | 3 of 2 readers and 2 writers, 1 kill | turns are neither lost nor doubled, a line mixes neighbouring times only, who gets a signal goes home |

Several properties carry the code's own exceptions in their conditions; the comment at
the property names the line each one comes from.

### Bounds

* *Programmers*: three is the code's own number, so the instance is the program. Queues
  of three instead of 50 make `NoTaskDropped` tight. Two programmers suffice
  for liveness, where the question is whether a process starves at a mutex or rand().
  `MAX_RUNS` bounds the restarts; each adds a message to every queue, and two already put
  old messages before and behind each other.
* *Gallery*: one place fewer than visitors is the smallest crowd that has to wait, and
  two paintings the smallest number for which a visitor can wait before one while it
  could see the other. `MAX_UNREAD` bounds how often a request is repeated while nothing
  is read; two are needed for one read to take two requests.
* *Valentine*: an interval of two seconds lets a PONG fall into the second of its PING or
  the next, which makes the difference between two and three intervals for dropping a
  logger. `MAX_TIME` is three intervals after the latest stop that matters. Fans differ
  in the length of their proposals only: empty, short, as long as the buffer (`MAX_LEN`)
  and longer cover the ties and the cuts.
* *Hotel*: four clients for two rooms is the smallest crowd in which two queue while two
  live. Sleep is not modelled: threads take their steps in any order.
* *Pipeline*: a chunk of 3 cells, a buffer of 5 and texts of up to 7 give texts shorter
  than, as long as and longer than a chunk, two chunks and the buffer. One digit and the
  separator give every shape of a text; four texts with zeros give leading and inner ones.
  There is one `CHUNK` for all parts, so that part 10, which never ends with a text of a
  chunk or more, stores answers to texts of one or two cells only; that they are right for
  every size is proved (`PipelineOutput`). An answer of part 10 that fills a chunk is left
  out of the texts: `strcpy` writes it behind the end of the struct (`p2.c:227`).
  `QUEUE_LIMIT` is the number of messages a queue holds, 128 in the code.
* *Counters*: three processes are one that leaves, one that comes meanwhile and one that
  finds what they have left. `MAX_COUNT` bounds the counter, on which nothing depends.
* *Clock*: `MAX_STARTED` and `MAX_KILLED` allow a second reader after a killed one, or
  two writers with one reader. `OLD` is the age from which times are not told apart: a
  line that mixes ages 0 and 2 is as wrong as any.

### Fairness

Programmers: every process is scheduled; the mutex is handed to a waiting process in the
end, since every holder sleeps half a second between two critical sections; and a review
that may be approved again and again in the end is, since `rand()` decides (strong
fairness of approval per author). Gallery: the loop turns and `select` reports every
readable slot; visitors are scheduled on a quiet day only, since with failures they may be
killed. In part 10 the visitors and a signal handler that has begun are scheduled, and
nothing is asked of the server's loop. Nothing is assumed of who wins a free place: a
visitor that waits polls, and it gets in because those inside leave for good. Valentine:
fans and servers run, and a datagram that has arrived is read in the end; no signal need
ever come. Hotel: threads are scheduled. Pipeline: processes are scheduled and the user
starts both programs. Counters and clock: a process that has been started is scheduled;
nobody need start one, send a signal or kill.

### Disagreements found

The following was found with these modules and is not kept as a run. Where a property
would have to say more than the code does, its condition leaves these cases out.

* Programmers: a rejected program does not return to its author, as the README of
  `idz os 2` has it; the reviewer keeps it (`main.c:176`).
* Programmers, part 9: a restart gives every programmer one more task beside the old ones
  (`main.c:200`), so that one task per programmer holds in the first run only.
* Gallery, part 9: EXIT from a visitor interrupted at the entrance is counted out although
  it was never counted in, which lets one too many in. An ENTER sent again after a late
  answer is counted twice (`server.c:91`), a VIEW too; the place is lost. `sent_exit` of
  the slot's client before is still set for the next one (`server.c:212`), which is then
  never counted out when it is killed, and `current_painting` of a killed one
  (`server.c:70`) is counted out again with the next, so that one viewer too many may
  come. Two answers to a visitor that has closed its socket raise `SIGPIPE` and end the
  server (`server.c:135`). Of requests read together (`server.c:78`) the second is never
  counted; hence the run that checks the counts leaves the failures out, and
  `GoneAreCleanedUp` has "or the server has ended".
* Gallery, parts 4-5 and 10: EXIT and the end of its connection both count a visitor out
  (part 4-5, `server.c:47` and `:100`), so that after an orderly visit one too many may
  enter. Part 10: EXIT leaves `current_painting` (`server.c:141`).
* Hotel: on the evening of its first day the administration keeps `waiters_mutex`
  (`Administration.cpp:42`) and locks it again next morning, which blocks it and every
  client still to come; in `rwlocks` the second lock fails with an error that is ignored
  and the clients are blocked all the same. TLC therefore runs without the deadlock check
  there, and the properties are those that hold nevertheless.
* Valentine: a logger_client started with the server's address sends REGISTER to
  the proposals' socket (`logger_client.c:61`), where it takes a fan's place. From part 9
  on an empty proposal is not counted (`server.c:243`) and everybody waits for one more.
  Fans whose proposal has not been read when part 10 is stopped are told nothing.
* Pipelines: part 4 does not wait for its children, and with an empty file they stay
  behind for ever; when the file is missing part 5 leaves its FIFOs and two processes; a
  text that fills the buffer is read on into the stack; part 9 sends as many bytes of the
  answer as the text has; part 10 never finds the end of a text of one chunk or more
  (`p2.c:182`) and sends the first chunk of its answer until the queue is removed
  (`p2.c:235`).
* Counters, `dz8`: a process that saw the new object empty stores 0 after another has
  counted itself in (`counter8.c:73`), so that the count is too low and the object is
  removed under others or, once negative, never.
* Clock: a line can be made of two times (`post.c:67`); after a killed reader the memory
  stays and the next reader refuses to start (`wait.c:29`).

## Proofs

All theorems hold for every value of the constants that the modules' named assumptions
allow. A step lemma takes one case per action; what several actions have in common (a
step of one program counter, a step that moves no client, no room, no datagram) is a
lemma of its own.

`ProgrammersProofs`, for every `NUM_PROGS` and every `MAX_TASKS >= NUM_PROGS`
(`ProgrammersAssumption`, `QueueAssumption`):

* `TypeCorrect`: every variable keeps its type. `TypeOK` is not inductive alone, since
  the second step of `get_task` takes the head of the queue it has read: `PopHasTask`
  adds that a process about to do so has read a queue that is not empty.
* `MutexCorrect`: at most one process is between `sem_wait(mutex)` and the post, and the
  mutex is 0 exactly while one is. This is inductive as it stands, given the types.
* `UpdatesSafe`: a process that is about to write a queue back has read what is still
  in it. It rests on `MutexCorrect`: whoever writes a queue is in the critical section,
  and so is the process whose reading would be spoilt.
* `ReviewsAreForeign`: nobody reviews its own program. The draw in `run()` excludes the
  author once; that it also holds for what is queued, read back and sent again needs
  `TasksAreForeign`, which says it of the queues, of tasks on their way and of tasks in
  hand, and `UpdatesSafe`, since `get_task` and `add_task` write back what they have read.

In the second half of the module, from these, with the token invariant `TaskInv`:

* `TasksDiffer` says that no two tasks, wherever they are, belong to the same program,
  and `TasksExist` that every program has one. A queue therefore never holds more than
  `NUM_PROGS` tasks (`TasksNotDropped`), and `OneTaskEach` follows. `SemaphoreCountsQueue`
  is inductive with them: a task that a semaphore has promised is still there when
  `get_task` looks, hence `SemaphoresCorrect`. `PopsFirst` says that the task
  in hand is the one about to leave the queue.
* `CirculationImplemented`: the initial states map to initial states of TaskCirculation,
  and every step moves at most one program, from the author to somebody else or back.
  A program's place is where its one task is, and `TasksDiffer` makes that one place.

`ProgrammersMessageProofs`, for every number of programmers, both message programs:

* `SysVMessageFound`, with any number of restarts: whoever its semaphore lets through
  finds a message. `PromisesKept` says that a programmer is never promised more messages
  than its queue holds, where the value of its semaphore, the posts that are still owed
  to it and its own turn at `msgrcv` are the promises. `msgsnd` with `IPC_NOWAIT` drops the
  message when the queue is full, but `sem_post` follows all the same: the promise is
  kept because a full queue holds more messages than there can be promises.
  `TurnsShared` says how many these can be: every process that does not wait has taken a
  turn from a semaphore, and there are `NUM_PROGS` turns. Hence the assumption that a
  queue takes a message per programmer (`SysVAssumption`); Linux keeps 16384 bytes. Messages
  left by killed runs only add to what is queued.
* `SysVReviewIsForeign`: what is queued for a programmer, on its way to it or in its hands
  is never its own program, and a restart keeps messages as they are.
* `PosixNeverBlocks`: without restarts promises and messages are equal (`PromisesExact`),
  so that neither `mq_receive` at an empty nor `mq_send` at a full queue waits.
* `PosixImplementsCirculation`: as for shared memory, with `TasksDiffer` and `TasksExist` of
  the messages; a program is where its message is.

`HotelProofs`, for every finite set of clients, every number of rooms and of days, and
both programs (`HotelAssumption`; the two values that stand for "no client" and for the
administration are not clients):

* `RoomsCorrect`: free rooms, living guests and the room in the administration's hand add
  up to the hotel's rooms. `PlacesCorrect`: a client that has arrived is once in the
  queue, at the desk or in a room. `HotelTypeCorrect`: the types, `rooms_number` between
  0 and the number of rooms.
* The inductive invariant `IInv` has six parts. `Types` leaves out the upper bound of
  `rooms_number`, which only the count of the guests gives. `QueueLocked` and
  `RoomsLocked` say that who works on the queue or the rooms holds their mutex and has
  read what is still in them; hence what it writes back is what one step would have made
  of them (`PushStep`, `PopStep`, `TakeRoomStep`, `GiveBackStep`). `AtDesk` says that the
  administration has a client in its hands from the queue to the guest's thread, and that
  the room it saw free under `waiters_mutex` is free still under `room_mutex`: guests only
  add rooms. `OnePlace` says that the queue holds a client once, and never one that is at
  the desk or lives: without it `StartStay` could start a thread for a client that has
  one, and the number of guests would not grow with the number of rooms taken. `Rooms` is
  the sum itself.

`GalleryProofs`, for any set of visitors with numbers up to 999 (three digits, as far as
`Understood` follows a number that runs on into the next request), any numbers of
paintings, places and slots, fewer slots than visitors included:

* `SlotsCorrect`, with every time-out, signal and kill: a connection in the table has one
  slot, until the server has ended it and never after. `TableInv` adds to the types that
  who has not come has no connection, so that none begins twice.
* `VisitorsLimited`, `ViewersLimited` and `CountsCorrect`, for a quiet day. `QuietInv` has
  for every visitor a `Dialogue`: where it is, what it has asked and what is on its way
  up or down belong together, so that at most one request or answer is under way.
  `SlotsKnow` says that the slot knows of its visitor what the dialogue has told it, and
  `PaintingsCounted` and `VisitorsCounted` that the counts are numbers of such slots.

`ValentineProofs`, for any fans, registering clients and loggers, any lengths, all parts:

* `LongestCorrect` and `ValentineTypeCorrect` from `FanInv`: a datagram is on its way or
  was received once (`OnePlaceEach`), so that one fan is told one thing; there is room for
  what is still received (`RoomForMore`); and answers go out after the last proposal only
  (`AnswersAtTheEnd`). That the scan finds the first of the longest is
  `BestIsFirstLongest`: its recursive function is shown to exist (`FirstLongestIsOne` and
  `FirstLongestStep`) and to hold the first of the longest so far.
* `WatchCorrect` from `WatchInv`: no check is late (`CheckedInTime`), a logger that
  answers has been heard of within two seconds of each check (`Answering`), and one that
  has stopped is heard of a second later at the latest (`Fading`). It needs
  `HEARTBEAT_INTERVAL >= 2` (the code has 30): with one second a PONG could come after
  the check that awaits it.

`CountersProofs`, for any number of processes: `MembersCorrect` and `RemovalCorrect`. The
invariant adds `NamedIsInUse`: a memory that can be found has a process that will still
count itself in or out of it or remove it, or a negative count.

`ClockProofs`, for any readers and writers, signals and kills:

* `ClockTypeCorrect`, that every writer past its check has a memory that is ready, and
  `TokensCorrect`, that turns are conserved. `Places` and `Data` are the types; the sum
  of turns is inductive with them.
* `LinesCorrect`: a printed line mixes neighbouring times only. `AgesAlone` says that with
  one writer nothing in the memory or on the line is older than the time before the
  latest. When that writer posts the next time, nobody may be in the middle of printing:
  this is `TokensConserved`, as the one writer then has no answer outstanding.

`PipelineProofs`, for all seven parts, every set of texts without NUL, everything the
stack may hold and every size of buffer, chunk and queue (`PipelineAssumption`):

* `PipelineNoBrokenPipe`: no process that has a file to read dies of `SIGPIPE`;
  `PipelineDone`: from part 5 on, a main program that returns well has its answer stored
  and has left neither FIFO nor queue.
* Both follow from `PipelineInvariant`. The programs are data (sequences of calls), so
  a lemma per process reads them first: at this `pc` it makes this call (`Reader4Steps`
  and the like). The invariant has a part for each version (`Inv4` to `Inv10`), which
  relates the processes by where they are: who is at a call that puts data in finds a
  reader that has not come past its reading call, because the channel was empty until
  then. With FIFOs the ends are not inherited but opened, and an opener goes on only
  when it has met the other side; the invariant says who waits in `open` while the other
  has not come there.
* Part 9 needs an invariant of the data as well (`Chunks9`). The second program stops
  reading when it finds a NUL behind a chunk; as long as the first one has not written its
  last chunk, the FIFO holds whole chunks only (`Multiples`), a whole chunk of text has no
  NUL, and so the reader stays. `GrownIs` is the lemma on the model's operators behind it.
* `ReadsFirst` covers a missing file, which ends the first process before it writes.
* `ScanCorrect`: the scan of `find_all_numbers` finds the values of the longest runs of
  digits, each once and in order (`NumbersOf` says so without a scan), for every text.
  `DecimalReadsBack`: the digits that `sprintf` prints of a number are read by `atoi` as
  the same number. The recursive functions behind both are first shown to exist
  (`ScanExists`: a function built from its value for the number before), since a
  recursive definition chooses a function that satisfies its equation. Inductions are
  over the set of numbers up to which a claim holds (`Induction`, `StrongInduction`,
  from the least element of a set of numbers), not over a predicate.
* `PipelineOutput`: what a process stores is the answer to the text, which is the property
  `OutputIsAnswer` with all its exceptions: the 5000 characters of a buffer, the answer
  that part 9 cuts when it is longer than the text, and the one message of part 10. Its
  inductive invariant is `AnswerInv`, which adds to the order of the processes where the
  text and the answer are:
  - parts 4 to 8 move them whole, and one lemma (`CarriedKept`) covers the five of them
    with the program counters of load, put, get and store as parameters; what is to be
    known of each part is that a step is one of these moves or passes them by (`Kinds4`
    to `Kinds8`) and that the processes take turns (`InTurn`). Without a file the other
    processes never come past their gets (`Unread4`, `Unread5`), so that nothing is
    stored;
  - part 9 moves chunks. What the second program has gathered, what is in the FIFO and
    what the first still has to write is the text, in this order (`Gathered9`); it stops
    with the text and a NUL behind it (`InHand9`, from `CutIs`). On the way back some
    data as long as that buffer, with the cut answer as its string, is in the FIFO, in
    hand and in the file (`Sent9`), and the first program stores up to the first NUL,
    wherever the chunks are parted (`StringOfChunks`). `Fifo9` says who has opened the
    second FIFO and why the first program sees no end of it too early;
  - part 10: with an empty text nothing is ever sent (`Empty10`); with one of `CHUNK`
    cells or more every struct is full of old text, so that no NUL ends the gathering
    and nothing is ever stored (`Long10`, which proves the disagreement above for every
    long text); a shorter one is gathered from one message and every reply is the whole
    answer (`Short10`).

### Model-checked only

Liveness under fairness, and with it ENABLED, is out of reach of the provers used: all
the temporal properties but `ImplementsCirculation` stay with TLC, the fair TaskCirculation among them.
GalleryServer10 has a liveness property only. Every invariant that a run checks is also
a theorem.

## Not modelled

* *Programmers*: creation and removal of semaphores and memory (`sem_unlink` before
  `sem_open`, `IPC_RMID`); the SIGINT handler of part 8, which removes the semaphores under
  the others (`main.c:40`). Text on the screen and the choice of sleeping times.
* *Gallery*: the monitors, which take a slot and change nothing else, and the `SIGPIPE`
  one that is gone may raise in `broadcast_status` (`server.c:44`); the connection that is
  accepted and forgotten when all slots are taken (`server.c:210`); requests that
  `client.c` never sends; failures of `select`, `accept` and `socket`. Of the servers of
  parts 6-7 and 8, what differs from part 9; part 4-5.
* *Valentine*: UNREGISTER and STATUS, which nothing sends; log messages; loss and doubling
  of datagrams, which do not happen on the loopback interface the programs are run on
  unless a socket's buffer is full (`9/client.c:36`); a `num_clients` beyond
  `MAX_CLIENTS` (`9/server.c:247`); a failed `select` (`9/server.c:213`).
* *Hotel*: the printing under `cout_mutex`, the generation and reading of clients. Both
  `room_mutex` and `cout_mutex` are locals that nobody initialises
  (`Administration.cpp:16`), and the model takes them for zeroed memory, which is an
  initialised mutex; with other contents anything may happen. They also end with `run()`,
  while guests may still use them until `main` returns.
* *Pipelines*: numbers that do not fit an `int`, the buffer of an answer, which has ten bytes
  for a heading of more than twenty (`4/main.c:91`), what a write behind the end of a
  buffer destroys, and calls that fail for want of memory.
* *Counters*: a signal before `sigaction`, and a killed process, which stays counted.
* *Signal log*: its handler opens the other log without closing the first
  (`dz6/main.c:29`), so that the descriptors run out after enough signals; nothing else
  happens in it.
* Everything under "The rest" above: sequential programs without state that outlives a
  run, examples of the course, and code of others.

## Plan

What would come next, in this order:

1. the SIGINT handler of part 8 of the programmers: semaphores that vanish under the
   others, whose `semop` fails unnoticed;
2. monitors in the gallery's table, with the slots they take and the broadcast that may
   end the server; then the server of part 4-5;
3. the types of GalleryServer10 and the part of the gallery's invariants that its
   EXIT keeps;
4. of the pipelines what the stack behind the buffer adds to the answer (`Garbage`), which
   the runs show and `PipelineOutput` leaves out.
