----------------------------- MODULE Programmers -----------------------------
(***************************************************************************)
(* The programmers of "idz os 2", parts 4-5 and 6-7: NUM_PROGS processes   *)
(* share one task queue each in shared memory.  A counting semaphore per   *)
(* programmer says how many tasks its queue holds; one binary semaphore    *)
(* guards all the queues.  A program travels from its author to a reviewer *)
(* and comes back to the author as a new task once it is approved.         *)
(*                                                                         *)
(* Every semaphore call and every read or write of the shared queues is a  *)
(* step of its own: add_task and get_task first read the queue (`seen') and*)
(* then write back what they computed from it, so that two of them running *)
(* together would lose or duplicate a task.  A local variable goes back to *)
(* its first value as soon as the code cannot read it again: two states    *)
(* that differ in a dead variable only are one state.                      *)
(***************************************************************************)
EXTENDS ProgrammerTasks, Sequences, FiniteSets

CONSTANT MAX_TASKS    \* the length of the array behind a queue, 50

ASSUME QueueAssumption == MAX_TASKS \in Nat /\ NUM_PROGS <= MAX_TASKS

VARIABLES
  queue,   \* queue1, queue2, queue3, each cut at its index i, j, k
  sem,     \* the values of sems[], the tasks each programmer may take
  mutex,   \* the value of the semaphore that guards the queues
  pc,      \* the line of run() each process is at
  task,    \* the local `task' of run(): what the process works on
  dest,    \* whom it sends the next task to
  out,     \* the task it sends
  seen     \* the queue as add_task or get_task has read it

vars == <<queue, sem, mutex, pc, task, dest, out, seen>>

Labels == {"wait", "lockGet", "get", "pop", "unlockGet", "work",
           "lockAdd", "add", "append", "unlockAdd", "post"}

Init ==
  /\ queue = [p \in Progs |-> <<Own>>]
  /\ sem = [p \in Progs |-> 1]
  /\ mutex = 1
  /\ pc = [p \in Progs |-> "wait"]
  /\ task = [p \in Progs |-> Own]
  /\ dest = [p \in Progs |-> p]
  /\ out = [p \in Progs |-> Own]
  /\ seen = [p \in Progs |-> <<>>]

Go(p, from, to) == pc[p] = from /\ pc' = [pc EXCEPT ![p] = to]

----------------------------------------------------------------------------
(* sem_wait(sems[proger_num]) *)
WaitForTask(p) ==
  /\ Go(p, "wait", "lockGet")
  /\ sem[p] > 0
  /\ sem' = [sem EXCEPT ![p] = @ - 1]
  /\ UNCHANGED <<queue, mutex, task, dest, out, seen>>

(* Mutant: add_task is called without sem_wait(mutex). *)
LockOnlyGetTask(p) ==
  /\ \/ Go(p, "lockGet", "get") /\ mutex > 0 /\ mutex' = mutex - 1
     \/ Go(p, "lockAdd", "add") /\ mutex' = mutex
  /\ UNCHANGED <<queue, sem, task, dest, out, seen>>

(* sem_wait(mutex) before get_task, and before add_task *)
Lock(p) ==
  /\ Go(p, "lockGet", "get") \/ Go(p, "lockAdd", "add")
  /\ mutex > 0
  /\ mutex' = mutex - 1
  /\ UNCHANGED <<queue, sem, task, dest, out, seen>>

(* sem_post(mutex) after get_task, and after add_task *)
Unlock(p) ==
  /\ Go(p, "unlockGet", "work") \/ Go(p, "unlockAdd", "post")
  /\ mutex' = mutex + 1
  /\ UNCHANGED <<queue, sem, task, dest, out, seen>>

(* get_task, its reads; an empty queue gives -1 and nothing is written *)
ReadTask(p) ==
  /\ IF queue[p] = <<>>
       THEN /\ Go(p, "get", "unlockGet")
            /\ task' = [task EXCEPT ![p] = Own]
            /\ UNCHANGED seen
       ELSE /\ Go(p, "get", "pop")
            /\ task' = [task EXCEPT ![p] = Head(queue[p])]
            /\ seen' = [seen EXCEPT ![p] = queue[p]]
  /\ UNCHANGED <<queue, sem, mutex, dest, out>>

(* Mutant: the index is not decremented. *)
PopKeepsTask(p) ==
  /\ Go(p, "pop", "unlockGet")
  /\ seen' = [seen EXCEPT ![p] = <<>>]
  /\ UNCHANGED <<queue, sem, mutex, task, dest, out>>

(* get_task, its writes: the other tasks move one place to the front *)
PopTask(p) ==
  /\ Go(p, "pop", "unlockGet")
  /\ queue' = [queue EXCEPT ![p] = Tail(seen[p])]
  /\ seen' = [seen EXCEPT ![p] = <<>>]
  /\ UNCHANGED <<sem, mutex, task, dest, out>>

Send(p, to, t) ==
  /\ Go(p, "work", "lockAdd")
  /\ dest' = [dest EXCEPT ![p] = to]
  /\ out' = [out EXCEPT ![p] = t]
  /\ task' = [task EXCEPT ![p] = Own]
  /\ UNCHANGED <<queue, sem, mutex, seen>>

(* Mutant: the draw is not repeated when it gives the programmer itself. *)
WriteProgramToAnyone(p, reviewer) == task[p] = Own /\ Send(p, reviewer, p)

(* A programmer writes its program and draws a reviewer that is not itself. *)
WriteProgram(p, reviewer) ==
  /\ task[p] = Own
  /\ reviewer # p
  /\ Send(p, reviewer, p)

(* Mutant: the reviewer gives itself the new task. *)
ApproveTellsReviewer(p) ==
  /\ IsReview(task[p]) \/ IsReReview(task[p])
  /\ Send(p, p, Own)

(* The review finds the program correct: its author may write a new one. *)
Approve(p) ==
  /\ IsReview(task[p]) \/ IsReReview(task[p])
  /\ Send(p, Author(task[p]), Own)

(* Mutant: a task already marked for re-review is marked again. *)
RejectAddsEveryTime(p) ==
  /\ IsReview(task[p]) \/ IsReReview(task[p])
  /\ Send(p, p, task[p] + NUM_PROGS)

(* The review finds the program incorrect: the reviewer queues it for itself. *)
Reject(p) ==
  \/ IsReview(task[p]) /\ Send(p, p, task[p] + NUM_PROGS)
  \/ IsReReview(task[p]) /\ Send(p, p, task[p])

(* add_task, its reads *)
ReadQueue(p) ==
  /\ Go(p, "add", "append")
  /\ seen' = [seen EXCEPT ![p] = queue[dest[p]]]
  /\ UNCHANGED <<queue, sem, mutex, task, dest, out>>

(* Mutant: the newest task is handled first. *)
AppendInFront(p) ==
  /\ Go(p, "append", "unlockAdd")
  /\ queue' = IF Len(seen[p]) < MAX_TASKS
                THEN [queue EXCEPT ![dest[p]] = <<out[p]>> \o seen[p]]
                ELSE queue
  /\ out' = [out EXCEPT ![p] = Own]
  /\ seen' = [seen EXCEPT ![p] = <<>>]
  /\ UNCHANGED <<sem, mutex, task, dest>>

(* add_task, its writes: a task for a full queue is dropped *)
AppendTask(p) ==
  /\ Go(p, "append", "unlockAdd")
  /\ queue' = IF Len(seen[p]) < MAX_TASKS
                THEN [queue EXCEPT ![dest[p]] = Append(seen[p], out[p])]
                ELSE queue
  /\ out' = [out EXCEPT ![p] = Own]
  /\ seen' = [seen EXCEPT ![p] = <<>>]
  /\ UNCHANGED <<sem, mutex, task, dest>>

(* Mutant: the sender posts its own semaphore. *)
PostOwnSemaphore(p) ==
  /\ Go(p, "post", "wait")
  /\ sem' = [sem EXCEPT ![p] = @ + 1]
  /\ dest' = [dest EXCEPT ![p] = p]
  /\ UNCHANGED <<queue, mutex, task, out, seen>>

(* sem_post(sems[...]): the programmer who got the task is told *)
PostTask(p) ==
  /\ Go(p, "post", "wait")
  /\ sem' = [sem EXCEPT ![dest[p]] = @ + 1]
  /\ dest' = [dest EXCEPT ![p] = p]
  /\ UNCHANGED <<queue, mutex, task, out, seen>>

Step(p) ==
  \/ WaitForTask(p) \/ Lock(p) \/ Unlock(p)
  \/ ReadTask(p) \/ PopTask(p)
  \/ \E r \in Progs : WriteProgram(p, r)
  \/ Approve(p) \/ Reject(p)
  \/ ReadQueue(p) \/ AppendTask(p) \/ PostTask(p)

Next == \E p \in Progs : Step(p)

Spec == Init /\ [][Next]_vars

(***************************************************************************)
(* Fairness.  Every process is scheduled.  A semaphore that is posted      *)
(* again and again is in the end acquired by each process waiting for it   *)
(* (every holder sleeps for half a second between two critical sections),  *)
(* and rand() does not reject one program for ever: if its approval is     *)
(* possible again and again, it is in the end drawn.                       *)
(***************************************************************************)
Fairness ==
  \A p \in Progs :
    /\ WF_vars(Step(p)) /\ SF_vars(Lock(p))
    /\ \A g \in Progs \ {p} : SF_vars(Approve(p) /\ Author(task[p]) = g)

FairSpec == Spec /\ Fairness

----------------------------------------------------------------------------
(* The places a task can be: queued, or in the hands of a process, which    *)
(* holds it from the write that takes it out of a queue to the one that     *)
(* puts the next task in.                                                   *)

Working(p) == pc[p] \in {"unlockGet", "work"}
Sending(p) == pc[p] \in {"lockAdd", "add", "append"}
Holding(p) == Working(p) \/ Sending(p)

HeldProgram(p) == IF Sending(p) THEN ProgramOf(dest[p], out[p])
                                ELSE ProgramOf(p, task[p])

InCriticalSection(p) ==
  pc[p] \in {"get", "pop", "unlockGet", "add", "append", "unlockAdd"}

(* Processes whose task is in q's queue but not yet counted by its semaphore. *)
NotYetPosted(q) == {r \in Progs : pc[r] \in {"unlockAdd", "post"} /\ dest[r] = q}

(* q has been let through its semaphore for a task that is still queued. *)
Claimed(q) == IF pc[q] \in {"lockGet", "get", "pop"} THEN 1 ELSE 0

----------------------------------------------------------------------------
TypeOK ==
  /\ queue \in [Progs -> Seq(Tasks)]
  /\ sem \in [Progs -> Nat]
  /\ mutex \in Nat
  /\ pc \in [Progs -> Labels]
  /\ task \in [Progs -> Tasks]
  /\ dest \in [Progs -> Progs]
  /\ out \in [Progs -> Tasks]
  /\ seen \in [Progs -> Seq(Tasks)]

(* Between sem_wait(mutex) and sem_post(mutex) there is one process at most, *)
(* and the semaphore is free exactly when there is none.                     *)
MutualExclusion ==
  /\ mutex = (IF \E p \in Progs : InCriticalSection(p) THEN 0 ELSE 1)
  /\ \A p, q \in Progs :
       InCriticalSection(p) /\ InCriticalSection(q) => p = q

(* The queue a process writes back in add_task or get_task is the one it     *)
(* read: no update of another process falls in between and is lost.          *)
NoLostUpdate ==
  \A p \in Progs :
    /\ pc[p] = "pop" => seen[p] = queue[p]
    /\ pc[p] = "append" => seen[p] = queue[dest[p]]

(* A semaphore counts the tasks of its queue, up to the tasks appended but   *)
(* not posted yet and the one its owner is about to take.  With Claimed = 1   *)
(* the queue is not empty: get_task never gives the -1 of an empty queue,    *)
(* which run() would take for "write your own program".                      *)
SemaphoreCountsQueue ==
  \A q \in Progs :
    Len(queue[q]) = sem[q] + Cardinality(NotYetPosted(q)) + Claimed(q)

(* add_task never meets a full queue, so no task is silently dropped.        *)
NoTaskDropped ==
  \A p \in Progs : pc[p] = "append" => Len(queue[dest[p]]) < MAX_TASKS

(* Nobody reviews its own program.                                           *)
ReviewerIsNotAuthor ==
  \A p \in Progs : Working(p) /\ task[p] # Own => Author(task[p]) # p

(* The places a task of program g is at. *)
QueuedTasks(g) ==
  UNION {{<<q, i>> : i \in {i \in 1..Len(queue[q]) : ProgramOf(q, queue[q][i]) = g}}
         : q \in Progs}
Holders(g) == {p \in Progs : Holding(p) /\ HeldProgram(p) = g}

(* Every programmer has exactly one task in the whole system, in one queue   *)
(* or in one pair of hands: it never has two programs out at once and never  *)
(* loses its turn to write.                                                  *)
OneTaskPerProgrammer ==
  \A g \in Progs : Cardinality(QueuedTasks(g)) + Cardinality(Holders(g)) = 1
=============================================================================
