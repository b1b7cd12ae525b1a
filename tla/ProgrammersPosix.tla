--------------------------- MODULE ProgrammersPosix ---------------------------
(***************************************************************************)
(* The programmers of "idz os 2", part 10: as part 9, but with POSIX       *)
(* message queues that block.  mq_receive waits for a message, mq_send for *)
(* room.  The initializer unlinks queues and semaphores before it creates  *)
(* them, so that every start is the initial state and a restart needs no   *)
(* step of its own.                                                        *)
(***************************************************************************)
EXTENDS ProgrammersSysV

(* mq_receive: waits while the queue is empty *)
Receive(p) == msgs[p] # <<>> /\ GetTask(p)

(* mq_send: waits while the queue holds mq_maxmsg messages *)
SendBlocking(p) == Len(msgs[dest[p]]) < QUEUE_LIMIT /\ SendTask(p)

PosixStep(p) == \/ WaitForTask(p) \/ Receive(p)
                \/ WriteProgram(p) \/ Approve(p) \/ Reject(p)
                \/ SendBlocking(p) \/ PostTask(p)

PosixNext == \E p \in Progs : PosixStep(p)

PosixSpec == Init /\ [][PosixNext]_vars

(* Processes are scheduled, and rand() does not reject a program for ever.   *)
PosixFairSpec ==
  /\ PosixSpec
  /\ \A p \in Progs :
       /\ WF_vars(PosixStep(p))
       /\ \A g \in Progs \ {p} : SF_vars(Approve(p) /\ Author(task[p]) = g)
----------------------------------------------------------------------------
(* The semaphores do the waiting: no process ever blocks in mq_receive, and  *)
(* none in mq_send, where two that wait for room in each other's queue would *)
(* wait for ever.                                                            *)
NeverBlocksInQueue ==
  \A p \in Progs : /\ pc[p] = "get" => msgs[p] # <<>>
                   /\ pc[p] = "send" => Len(msgs[dest[p]]) < QUEUE_LIMIT

(* The places a task of program g is at, queued or held. *)
Holding(p) == pc[p] \in {"work", "send"}
HeldProgram(p) == IF pc[p] = "send" THEN ProgramOf(dest[p], out[p])
                                    ELSE ProgramOf(p, task[p])
QueuedTasks(g) ==
  UNION {{<<q, i>> : i \in {i \in 1..Len(msgs[q]) : ProgramOf(q, msgs[q][i]) = g}}
         : q \in Progs}
Holders(g) == {p \in Progs : Holding(p) /\ HeldProgram(p) = g}

(* Where a program is: queued, or in the hands of a process.                 *)
TasksOf(g) ==
  {<<s[1], msgs[s[1]][s[2]]>> : s \in QueuedTasks(g)} \cup
  {IF pc[p] = "send" THEN <<dest[p], out[p]>> ELSE <<p, task[p]>> : p \in Holders(g)}
Stage(t) == IF t = Own THEN "author"
            ELSE IF IsReview(t) THEN "review" ELSE "rereview"

TheTaskOf(g) == CHOOSE t \in TasksOf(g) : TRUE

PlaceOf(g) == [at |-> Stage(TheTaskOf(g)[2]), by |-> TheTaskOf(g)[1]]

Circulation == INSTANCE TaskCirculation
                 WITH place <- [g \in Progs |-> PlaceOf(g)]

(* Message queues and semaphores carry every program from its author to a    *)
(* reviewer and back, and each is in the end approved.                       *)
ImplementsFairCirculation == Circulation!FairSpec
=============================================================================
