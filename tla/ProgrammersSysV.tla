--------------------------- MODULE ProgrammersSysV ---------------------------
(***************************************************************************)
(* The programmers of "idz os 2", part 9: independent processes, a System V*)
(* message queue and a System V semaphore for each.  There is no mutex;    *)
(* msgsnd and msgrcv are atomic.  `killall' ends all processes wherever    *)
(* they are, and the run script starts the initializer and the programmers *)
(* again; the queues and semaphores are the kernel's and outlive them.     *)
(***************************************************************************)
EXTENDS ProgrammerTasks, Sequences, FiniteSets

CONSTANTS QUEUE_LIMIT,    \* messages the kernel keeps in one queue
          MAX_RUNS        \* bound: how often the run script is started

(* A queue has room for a task of each programmer, as with the kernel's limits *)
(* of part 9 and the mq_maxmsg of part 10.                                     *)
ASSUME SysVAssumption ==
  QUEUE_LIMIT \in Nat /\ QUEUE_LIMIT >= NUM_PROGS /\ MAX_RUNS \in Nat \ {0}

VARIABLES
  msgs,    \* the message queue of each programmer
  sem,     \* the value of its semaphore
  pc,      \* the line of run() each process is at
  task,    \* the local `task'
  dest,    \* whom it sends to
  out,     \* what it sends
  runs     \* how often the run script has been started

vars == <<msgs, sem, pc, task, dest, out, runs>>

Go(p, from, to) == pc[p] = from /\ pc' = [pc EXCEPT ![p] = to]

AddTask(q, t) == IF Len(q) < QUEUE_LIMIT THEN Append(q, t) ELSE q

Everyone(x) == [p \in Progs |-> x]
Self == [p \in Progs |-> p]

Init ==
  /\ msgs = Everyone(<<Own>>) /\ sem = Everyone(1)
  /\ pc = Everyone("wait") /\ task = Everyone(Own)
  /\ dest = Self /\ out = Everyone(Own)
  /\ runs = 1

(* Mutant: the wait does not take the semaphore down. *)
WaitKeepsCount(p) == /\ Go(p, "wait", "get") /\ sem[p] > 0
                     /\ UNCHANGED <<msgs, sem, task, dest, out, runs>>

WaitForTask(p) ==
  /\ Go(p, "wait", "get")
  /\ sem[p] > 0
  /\ sem' = [sem EXCEPT ![p] = @ - 1]
  /\ UNCHANGED <<msgs, task, dest, out, runs>>

(* msgrcv with IPC_NOWAIT: an empty queue gives -1 *)
GetTask(p) ==
  /\ Go(p, "get", "work")
  /\ task' = [task EXCEPT ![p] = IF msgs[p] = <<>> THEN Own ELSE Head(msgs[p])]
  /\ msgs' = [msgs EXCEPT ![p] = IF @ = <<>> THEN @ ELSE Tail(@)]
  /\ UNCHANGED <<sem, dest, out, runs>>

Decide(p, to, t) ==
  /\ Go(p, "work", "send")
  /\ dest' = [dest EXCEPT ![p] = to]
  /\ out' = [out EXCEPT ![p] = t]
  /\ task' = [task EXCEPT ![p] = Own]
  /\ UNCHANGED <<msgs, sem, runs>>

WriteProgram(p) ==
  task[p] = Own /\ \E reviewer \in Progs \ {p} : Decide(p, reviewer, p)

Approve(p) ==
  /\ IsReview(task[p]) \/ IsReReview(task[p])
  /\ Decide(p, Author(task[p]), Own)

(* Mutant: the rejected program goes to its author as a review. *)
RejectToAuthor(p) ==
  (IsReview(task[p]) \/ IsReReview(task[p])) /\ Decide(p, Author(task[p]), Author(task[p]))

Reject(p) ==
  \/ IsReview(task[p]) /\ Decide(p, p, task[p] + NUM_PROGS)
  \/ IsReReview(task[p]) /\ Decide(p, p, task[p])

(* Mutant: the newest message is received first. *)
SendInFront(p) ==
  /\ Go(p, "send", "post")
  /\ msgs' = [msgs EXCEPT ![dest[p]] = <<out[p]>> \o @]
  /\ out' = [out EXCEPT ![p] = Own]
  /\ UNCHANGED <<sem, task, dest, runs>>

SendTask(p) ==
  /\ Go(p, "send", "post")
  /\ msgs' = [msgs EXCEPT ![dest[p]] = AddTask(@, out[p])]
  /\ out' = [out EXCEPT ![p] = Own]
  /\ UNCHANGED <<sem, task, dest, runs>>

PostTask(p) ==
  /\ Go(p, "post", "wait")
  /\ sem' = [sem EXCEPT ![dest[p]] = @ + 1]
  /\ dest' = [dest EXCEPT ![p] = p]
  /\ UNCHANGED <<msgs, task, out, runs>>

Step(p) == \/ WaitForTask(p) \/ GetTask(p)
           \/ WriteProgram(p) \/ Approve(p) \/ Reject(p)
           \/ SendTask(p) \/ PostTask(p)

(* Mutant: the queues are emptied, but the semaphores keep their values. *)
RestartEmptiesQueues ==
  /\ runs < MAX_RUNS
  /\ runs' = runs + 1
  /\ msgs' = Everyone(<<Own>>)
  /\ sem' = [p \in Progs |-> sem[p] + 1]
  /\ pc' = Everyone("wait") /\ task' = Everyone(Own)
  /\ dest' = Self /\ out' = Everyone(Own)

(* killall, then the run script: msgget finds the queues of the run before,  *)
(* messages and all, and SETVAL sets the semaphores to 0.                    *)
Restart ==
  /\ runs < MAX_RUNS
  /\ runs' = runs + 1
  /\ msgs' = [p \in Progs |-> AddTask(msgs[p], Own)]
  /\ sem' = Everyone(1)
  /\ pc' = Everyone("wait") /\ task' = Everyone(Own)
  /\ dest' = Self /\ out' = Everyone(Own)

Next == (\E p \in Progs : Step(p)) \/ Restart

Spec == Init /\ [][Next]_vars
----------------------------------------------------------------------------
(* Across restarts a semaphore never counts more than its queue holds: a      *)
(* programmer that is let through always finds a message, whatever was left   *)
(* in the queues when the processes were killed.                              *)
GetTaskFindsOne == \A p \in Progs : pc[p] = "get" => msgs[p] # <<>>

(* Nobody reviews its own program, whichever run the task comes from.         *)
ReviewerIsNotAuthor ==
  \A p \in Progs : pc[p] = "work" /\ task[p] # Own => Author(task[p]) # p
=============================================================================
