---------------------------------- MODULE Clock ----------------------------------
(***************************************************************************)
(* dz9: post writes the time into shared memory and wait prints it.  wait, *)
(* the reader, makes the memory, and post, the writer, finds it.  They     *)
(* take turns over two semaphores in it: sem1 says that a time is there,   *)
(* sem2 that it has been printed.  A signal ends the loop of either, and   *)
(* breaks off a sem_wait it is blocked in; a kill ends a process anywhere. *)
(*                                                                         *)
(* A memory is known by the reader that made it.  Its time_str has two     *)
(* halves, copied and printed one after the other; of each the model keeps *)
(* how many times have been posted since it was written, up to OLD: 0 for  *)
(* the latest time, 1 for the one before.                                  *)
(***************************************************************************)
EXTENDS Naturals, FiniteSets

CONSTANTS Readers, Writers,    \* the processes that run wait and post, once each
          MAX_STARTED,         \* bounds of the model: how many processes are started
          MAX_KILLED,          \* and how many are killed
          None

ASSUME ClockAssumption ==
  /\ IsFiniteSet(Writers) /\ Readers \cap Writers = {} /\ None \notin Readers
  /\ MAX_STARTED \in Nat /\ MAX_KILLED \in Nat

OLD == 2                       \* a bound of the model: older times are not told apart
Ages == 0..OLD
Halves == {1, 2}
Blank == [h \in Halves |-> 0]
Procs == Readers \cup Writers

VARIABLES
  named,              \* the memory SHMEM_NAME stands for, or None
  sized, mem_ready,   \* the memories that have their size, and those that are ready
  sem1, sem2,
  time_str,           \* the ages of the halves in each memory
  at,                 \* the memory of each writer, or None
  line,               \* the ages of the halves each reader is printing, 0 when it is not
  pc, is_continue,
  alive               \* the processes that have not been killed

memory == <<named, sized, mem_ready>>
vars == <<memory, sem1, sem2, time_str, at, line, pc, is_continue, alive>>

Init ==
  /\ named = None /\ sized = {} /\ mem_ready = {}
  /\ sem1 = [r \in Readers |-> 0] /\ sem2 = [r \in Readers |-> 0]
  /\ time_str = [r \in Readers |-> Blank] /\ line = [r \in Readers |-> Blank]
  /\ at = [w \in Writers |-> None]
  /\ pc = [p \in Procs |-> "start"] /\ is_continue = [p \in Procs |-> TRUE]
  /\ alive = Procs

Go(p, from, to) == p \in alive /\ pc[p] = from /\ pc' = [pc EXCEPT ![p] = to]

Start(p, place) ==
  Cardinality({q \in Procs : pc[q] # "start"}) < MAX_STARTED /\ Go(p, "start", place)

(* sem_wait: at once when there is something to take, or blocked until then. *)
Wait(p, sem, m, to) ==
  /\ p \in alive /\ pc[p] \in {"wait", "blocked"}
  /\ IF sem[m] > 0
       THEN sem' = [sem EXCEPT ![m] = @ - 1] /\ pc' = [pc EXCEPT ![p] = to]
       ELSE Go(p, "wait", "blocked") /\ UNCHANGED sem

Post(sem, m) == sem' = [sem EXCEPT ![m] = @ + 1]
----------------------------------------------------------------------------
(* wait.c. *)

Create(r) ==
  /\ Start(r, IF named = None THEN "truncate" ELSE "refused")
  /\ named' = IF named = None THEN r ELSE named
  /\ UNCHANGED <<sized, mem_ready, sem1, sem2, time_str, at, line, is_continue, alive>>

Ftruncate(r) ==
  /\ Go(r, "truncate", "init") /\ sized' = sized \cup {r}
  /\ UNCHANGED <<named, mem_ready, sem1, sem2, time_str, at, line, is_continue, alive>>

SemInit(r) ==
  /\ Go(r, "init", "test")
  /\ sem1' = [sem1 EXCEPT ![r] = 0] /\ sem2' = [sem2 EXCEPT ![r] = 0]
  /\ mem_ready' = mem_ready \cup {r}
  /\ UNCHANGED <<named, sized, time_str, at, line, is_continue, alive>>

TestReader(r) ==
  /\ Go(r, "test", IF is_continue[r] THEN "wait" ELSE "unlink")
  /\ UNCHANGED <<memory, sem1, sem2, time_str, at, line, is_continue, alive>>

(* Mutant: sem2 is posted before the time is printed. *)
PostsFirst(r) ==
  /\ Wait(r, sem1, r, "print")
  /\ sem2' = IF pc'[r] = "print" THEN [sem2 EXCEPT ![r] = @ + 1] ELSE sem2
  /\ UNCHANGED <<memory, time_str, at, line, is_continue, alive>>

WaitForTime(r) ==
  /\ Wait(r, sem1, r, "print")
  /\ UNCHANGED <<memory, sem2, time_str, at, line, is_continue, alive>>

PrintHalf(r, h) ==
  /\ IF h = 1 THEN Go(r, "print", "print_on") ELSE Go(r, "print_on", "post")
  /\ line' = [line EXCEPT ![r][h] = time_str[r][h]]
  /\ UNCHANGED <<memory, sem1, sem2, time_str, at, is_continue, alive>>

(* Mutant: the writer is told twice. *)
PostsTwice(r) ==
  /\ Go(r, "post", "test") /\ sem2' = [sem2 EXCEPT ![r] = @ + 2]
  /\ line' = [line EXCEPT ![r] = Blank]
  /\ UNCHANGED <<memory, sem1, time_str, at, is_continue, alive>>

PostPrinted(r) ==
  /\ Go(r, "post", "test") /\ Post(sem2, r)
  /\ line' = [line EXCEPT ![r] = Blank]
  /\ UNCHANGED <<memory, sem1, time_str, at, is_continue, alive>>

(* After the loop: sem_destroy and munmap change nothing another process sees. *)
Unlink(r) ==
  /\ Go(r, "unlink", "ended") /\ named' = None
  /\ UNCHANGED <<sized, mem_ready, sem1, sem2, time_str, at, line, is_continue, alive>>

Reader(r) ==
  \/ Ftruncate(r) \/ SemInit(r) \/ TestReader(r) \/ WaitForTime(r)
  \/ PrintHalf(r, 1) \/ PrintHalf(r, 2) \/ PostPrinted(r) \/ Unlink(r)
----------------------------------------------------------------------------
(* post.c. *)

ShmOpen(w) ==
  /\ Start(w, IF named = None THEN "refused" ELSE "check")
  /\ at' = [at EXCEPT ![w] = named]
  /\ UNCHANGED <<memory, sem1, sem2, time_str, line, is_continue, alive>>

(* Mutant: the writer does not look whether the memory is ready. *)
ChecksNothing(w) ==
  /\ Go(w, "check", "test")
  /\ UNCHANGED <<memory, sem1, sem2, time_str, at, line, is_continue, alive>>

(* Reading a memory without a size raises SIGBUS. *)
CheckReady(w) ==
  /\ Go(w, "check", IF at[w] \in sized /\ at[w] \in mem_ready THEN "test" ELSE "refused")
  /\ UNCHANGED <<memory, sem1, sem2, time_str, at, line, is_continue, alive>>

(* Mutant: the writer waits before its first post. *)
WaitsFirst(w) ==
  /\ Go(w, "test", IF is_continue[w] THEN "wait" ELSE "ended")
  /\ UNCHANGED <<memory, sem1, sem2, time_str, at, line, is_continue, alive>>

TestWriter(w) ==
  /\ Go(w, "test", IF is_continue[w] THEN "post" ELSE "ended")
  /\ UNCHANGED <<memory, sem1, sem2, time_str, at, line, is_continue, alive>>

Older(ages) == [h \in Halves |-> IF ages[h] = OLD THEN OLD ELSE ages[h] + 1]

PostTime(w) ==
  /\ Go(w, "post", "copy") /\ Post(sem1, at[w])
  /\ time_str' = [time_str EXCEPT ![at[w]] = Older(@)]
  /\ line' = [line EXCEPT ![at[w]] = IF pc[at[w]] \in {"print_on", "post"} THEN Older(@) ELSE @]
  /\ UNCHANGED <<memory, sem2, at, is_continue, alive>>

CopyHalf(w, h) ==
  /\ IF h = 1 THEN Go(w, "copy", "copy_on") ELSE Go(w, "copy_on", "wait")
  /\ time_str' = [time_str EXCEPT ![at[w]][h] = 0]
  /\ UNCHANGED <<memory, sem1, sem2, at, line, is_continue, alive>>

(* The second the writer sleeps before its next test changes nothing. *)
WaitForPrinted(w) ==
  /\ Wait(w, sem2, at[w], "test")
  /\ UNCHANGED <<memory, sem1, time_str, at, line, is_continue, alive>>

Writer(w) ==
  \/ CheckReady(w) \/ TestWriter(w) \/ PostTime(w)
  \/ CopyHalf(w, 1) \/ CopyHalf(w, 2) \/ WaitForPrinted(w)
----------------------------------------------------------------------------
Gone(p) == p \notin alive \/ pc[p] \in {"ended", "broken_off", "refused"}

(* handle_signal.  A blocked sem_wait returns with EINTR, which breaks the *)
(* loop; a signal before the call is only seen at the loop's next test.    *)
Signal(p) ==
  /\ ~Gone(p) /\ pc[p] # "start" /\ (is_continue[p] \/ pc[p] = "blocked")
  /\ is_continue' = [is_continue EXCEPT ![p] = FALSE]
  /\ IF pc[p] # "blocked" THEN UNCHANGED pc
     ELSE pc' = [pc EXCEPT ![p] = IF p \in Readers THEN "unlink" ELSE "broken_off"]
  /\ UNCHANGED <<memory, sem1, sem2, time_str, at, line, alive>>

Kill(p) ==
  /\ ~Gone(p) /\ pc[p] # "start" /\ Cardinality(Procs \ alive) < MAX_KILLED
  /\ alive' = alive \ {p}
  /\ UNCHANGED <<memory, sem1, sem2, time_str, at, line, pc, is_continue>>

Next ==
  \/ \E r \in Readers : Create(r) \/ Reader(r)
  \/ \E w \in Writers : ShmOpen(w) \/ Writer(w)
  \/ \E p \in Procs : Signal(p) \/ Kill(p)

(* A process that has been started is scheduled. *)
Spec ==
  /\ Init /\ [][Next]_vars
  /\ \A r \in Readers : WF_vars(Reader(r))
  /\ \A w \in Writers : WF_vars(Writer(w))
----------------------------------------------------------------------------
ReaderPlaces == {"start", "truncate", "init", "test", "wait", "blocked", "print", "print_on",
                 "post", "unlink", "ended", "refused"}
WriterPlaces == {"start", "check", "test", "post", "copy", "copy_on", "wait", "blocked",
                 "ended", "broken_off", "refused"}

(* The ranges of the state; a writer uses a memory only when its size is set   *)
(* and its semaphores are made (post.c:47).                                    *)
TypeOK ==
  /\ named \in Readers \cup {None} /\ sized \subseteq Readers /\ mem_ready \subseteq sized
  /\ sem1 \in [Readers -> Nat] /\ sem2 \in [Readers -> Nat]
  /\ time_str \in [Readers -> [Halves -> Ages]] /\ line \in [Readers -> [Halves -> Ages]]
  /\ at \in [Writers -> Readers \cup {None}]
  /\ \A r \in Readers : pc[r] \in ReaderPlaces
  /\ \A w \in Writers : pc[w] \in WriterPlaces
  /\ is_continue \in [Procs -> BOOLEAN] /\ alive \subseteq Procs
  /\ \A w \in Writers : pc[w] \notin {"start", "check", "refused"} => at[w] \in mem_ready

(* The writers that have posted a time for which they have not been answered. *)
Unanswered(m) ==
  {w \in Writers : at[w] = m /\ pc[w] \in {"copy", "copy_on", "wait", "blocked", "broken_off"}}

Printing(m) == {r \in {m} : pc[r] \in {"print", "print_on", "post"}}

(* Between them the semaphores and the reader hold one token for each writer   *)
(* that waits for an answer or has broken off waiting: however they are        *)
(* interleaved, interrupted and killed, no turn is lost and none is taken      *)
(* twice (wait.c:53-63, post.c:67-78).                                         *)
TokensConserved ==
  \A m \in Readers :
    sem1[m] + sem2[m] + Cardinality(Printing(m)) = Cardinality(Unanswered(m))

(* The writers that have come to the memory. *)
Users(m) == {w \in Writers : at[w] = m /\ pc[w] # "refused"}

(* sem1 is posted before the time is copied, so that a line that is printed    *)
(* may be made of two times; but these follow one another, as long as one      *)
(* writer has been alone with the memory (post.c:67-72).                       *)
LinesMixNeighbours ==
  \A r \in Readers :
    pc[r] = "post" /\ Cardinality(Users(r)) = 1 =>
      line[r][1] <= line[r][2] + 1 /\ line[r][2] <= line[r][1] + 1

(* A signal that arrives between the loop's test and sem_wait is not noticed   *)
(* until the other side's next turn.  A reader that has had one goes home      *)
(* unless no writer is left at its memory, a writer unless its reader is gone  *)
(* or another writer takes the answers.                                        *)
SignalledGoesHome ==
  /\ \A r \in Readers :
       ~is_continue[r] ~> Gone(r) \/ \A w \in Writers : at[w] = r => Gone(w)
  /\ \A w \in Writers :
       ~is_continue[w] ~> Gone(w) \/ Gone(at[w]) \/ Cardinality(Users(at[w])) > 1
=============================================================================
