------------------------ MODULE ProgrammersRefinement ------------------------
(***************************************************************************)
(* The shared-memory programmers implement TaskCirculation.  A program is  *)
(* where its one task is; the step of the abstract specification happens   *)
(* when a process has decided what to send, and all the queue, mutex and   *)
(* semaphore steps that carry the task there are invisible.                *)
(***************************************************************************)
EXTENDS Programmers

(* The tasks of program g in the system, each with the programmer it is at or *)
(* on its way to.                                                              *)
TasksOf(g) ==
  {<<s[1], queue[s[1]][s[2]]>> : s \in QueuedTasks(g)} \cup
  {IF Sending(p) THEN <<dest[p], out[p]>> ELSE <<p, task[p]>> : p \in Holders(g)}

Stage(t) == IF t = Own THEN "author"
            ELSE IF IsReview(t) THEN "review" ELSE "rereview"

TheTaskOf(g) == CHOOSE t \in TasksOf(g) : TRUE

PlaceOf(g) == [at |-> Stage(TheTaskOf(g)[2]), by |-> TheTaskOf(g)[1]]

Circulation == INSTANCE TaskCirculation
                 WITH place <- [g \in Progs |-> PlaceOf(g)]

(* Every step of a process moves one program as TaskCirculation allows (to    *)
(* another programmer, back to its author, or on to a second look by the same *)
(* reviewer) or moves none: queues, semaphores and mutex lose and double      *)
(* nothing on the way.                                                        *)
ImplementsCirculation == Circulation!Spec

(* Under the fairness of the processes, every written program is submitted    *)
(* and every program under review is in the end approved.                     *)
ImplementsFairCirculation == Circulation!FairSpec
=============================================================================
