-------------------------- MODULE ProgrammersProofs --------------------------
(***************************************************************************)
(* Proofs about the shared-memory programmers, for every number of         *)
(* programmers and every queue length that holds a task of each: the mutex *)
(* protects the queues, nobody reviews its own program, a semaphore counts *)
(* the tasks of its queue, every programmer has exactly one task in the    *)
(* whole system, no queue is ever full, and the system implements          *)
(* TaskCirculation.                                                        *)
(***************************************************************************)
EXTENDS ProgrammersRefinement, FiniteSetTheorems, TLAPS

(* A process about to remove a task has read a queue that holds one. *)
PopHasTask == \A p \in Progs : pc[p] = "pop" => seen[p] # <<>>

LEMMA NumProgsIsNat == NUM_PROGS \in Nat /\ Progs \subseteq Nat
BY ProgrammersAssumption DEF Progs

(* The program a reviewer works on belongs to a programmer. *)
LEMMA AuthorIsProg ==
  ASSUME NEW t, t \in Tasks, IsReview(t) \/ IsReReview(t)
  PROVE  Author(t) \in Progs
BY ProgrammersAssumption DEF Tasks, Own, IsReview, IsReReview, Author, Progs

(* What a step of process p does to the program counters. *)
LEMMA GoMovesOne ==
  ASSUME NEW p \in Progs, NEW from, NEW to \in Labels,
         pc \in [Progs -> Labels], Go(p, from, to)
  PROVE  /\ pc' \in [Progs -> Labels]
         /\ pc[p] = from /\ pc'[p] = to
         /\ \A q \in Progs : q # p => pc'[q] = pc[q]
BY DEF Go

LEMMA TypeStep == ASSUME TypeOK, PopHasTask, [Next]_vars
                  PROVE  TypeOK' /\ PopHasTask'
<1>1. CASE UNCHANGED vars
  BY <1>1 DEF vars, TypeOK, PopHasTask
<1>2. CASE Next
  <2>. PICK p \in Progs : Step(p)
    BY <1>2 DEF Next
  <2>. pc \in [Progs -> Labels]
    BY DEF TypeOK
  <2>. USE DEF TypeOK, PopHasTask
  <2>1. CASE WaitForTask(p)
    <3>1. Go(p, "wait", "lockGet") /\ "lockGet" \in Labels
      BY <2>1 DEF WaitForTask, Labels
    <3>. QED BY <2>1, <3>1, GoMovesOne DEF WaitForTask
  <2>2. CASE Lock(p)
    <3>1. PICK from \in {"lockGet", "lockAdd"}, to \in {"get", "add"} : Go(p, from, to)
      BY <2>2 DEF Lock
    <3>2. to \in Labels
      BY DEF Labels
    <3>3. mutex' \in Nat
      BY <2>2 DEF Lock
    <3>. QED BY <2>2, <3>1, <3>2, <3>3, GoMovesOne DEF Lock
  <2>3. CASE Unlock(p)
    <3>1. PICK from \in {"unlockGet", "unlockAdd"}, to \in {"work", "post"} : Go(p, from, to)
      BY <2>3 DEF Unlock
    <3>2. to \in Labels
      BY DEF Labels
    <3>3. mutex' \in Nat
      BY <2>3 DEF Unlock
    <3>. QED BY <2>3, <3>1, <3>2, <3>3, GoMovesOne DEF Unlock
  <2>4. CASE ReadTask(p)
    <3>1. /\ "pop" \in Labels /\ "unlockGet" \in Labels
          /\ Own \in Tasks
      BY ProgrammersAssumption DEF Labels, Own, Tasks
    <3>2. CASE queue[p] = <<>>
      <4>1. /\ Go(p, "get", "unlockGet")
            /\ task' = [task EXCEPT ![p] = Own]
            /\ UNCHANGED <<queue, sem, mutex, dest, out, seen>>
        BY <2>4, <3>2 DEF ReadTask
      <4>. QED BY <3>1, <4>1, GoMovesOne
    <3>3. CASE queue[p] # <<>>
      <4>1. /\ Go(p, "get", "pop")
            /\ task' = [task EXCEPT ![p] = Head(queue[p])]
            /\ seen' = [seen EXCEPT ![p] = queue[p]]
        BY <2>4, <3>3 DEF ReadTask
      <4>2. Head(queue[p]) \in Tasks
        BY <3>3
      <4>. QED BY <2>4, <3>1, <3>3, <4>1, <4>2, GoMovesOne DEF ReadTask
    <3>. QED BY <3>2, <3>3
  <2>5. CASE PopTask(p)
    <3>1. Go(p, "pop", "unlockGet") /\ "unlockGet" \in Labels
      BY <2>5 DEF PopTask, Labels
    <3>2. Tail(seen[p]) \in Seq(Tasks)
      BY <3>1 DEF Go
    <3>. QED BY <2>5, <3>1, <3>2, GoMovesOne DEF PopTask
  <2>6. ASSUME NEW to \in Progs, NEW t \in Tasks, Send(p, to, t)
        PROVE  TypeOK' /\ PopHasTask'
    <3>1. Go(p, "work", "lockAdd") /\ "lockAdd" \in Labels /\ Own \in Tasks
      BY <2>6, ProgrammersAssumption DEF Send, Labels, Own, Tasks
    <3>. QED BY <2>6, <3>1, GoMovesOne DEF Send
  <2>7. CASE \E r \in Progs : WriteProgram(p, r)
    <3>1. p \in Tasks
      BY ProgrammersAssumption DEF Progs, Tasks, Own
    <3>. QED BY <2>6, <2>7, <3>1 DEF WriteProgram
  <2>8. CASE Approve(p)
    <3>1. Own \in Tasks
      BY ProgrammersAssumption DEF Own, Tasks
    <3>2. Author(task[p]) \in Progs /\ Send(p, Author(task[p]), Own)
      BY <2>8, AuthorIsProg DEF Approve
    <3>. QED BY <2>6, <3>1, <3>2
  <2>9. CASE Reject(p)
    <3>1. PICK t \in Tasks : Send(p, p, t)
      <4>1. IsReview(task[p]) => task[p] + NUM_PROGS \in Tasks
        BY ProgrammersAssumption DEF IsReview, Tasks, Own
      <4>. QED BY <2>9, <4>1 DEF Reject
    <3>. QED BY <2>6, <3>1
  <2>10. CASE ReadQueue(p)
    <3>1. Go(p, "add", "append") /\ "append" \in Labels
      BY <2>10 DEF ReadQueue, Labels
    <3>2. queue[dest[p]] \in Seq(Tasks)
      OBVIOUS
    <3>. QED BY <2>10, <3>1, <3>2, GoMovesOne DEF ReadQueue
  <2>11. CASE AppendTask(p)
    <3>1. Go(p, "append", "unlockAdd") /\ "unlockAdd" \in Labels /\ Own \in Tasks
      BY <2>11, ProgrammersAssumption DEF AppendTask, Labels, Own, Tasks
    <3>2. Append(seen[p], out[p]) \in Seq(Tasks)
      OBVIOUS
    <3>3. queue' \in [Progs -> Seq(Tasks)]
      BY <2>11, <3>2 DEF AppendTask
    <3>. QED BY <2>11, <3>1, <3>3, GoMovesOne DEF AppendTask
  <2>12. CASE PostTask(p)
    <3>1. Go(p, "post", "wait") /\ "wait" \in Labels
      BY <2>12 DEF PostTask, Labels
    <3>. QED BY <2>12, <3>1, GoMovesOne DEF PostTask
  <2>. QED
    BY <2>1, <2>2, <2>3, <2>4, <2>5, <2>7, <2>8, <2>9, <2>10, <2>11, <2>12 DEF Step
<1>. QED BY <1>1, <1>2

LEMMA TypeInit == Init => TypeOK /\ PopHasTask
BY ProgrammersAssumption DEF Init, TypeOK, PopHasTask, Labels, Own, Tasks, Progs

(* Every variable keeps its type. *)
THEOREM TypeCorrect == Spec => []TypeOK
<1>. DEFINE Inv == TypeOK /\ PopHasTask
<1>1. Init => Inv
  BY TypeInit
<1>2. Inv /\ [Next]_vars => Inv'
  BY TypeStep
<1>. QED BY <1>1, <1>2, PTL DEF Spec

----------------------------------------------------------------------------
(* Mutual exclusion, and what it protects. *)

(* A step that takes no process into or out of the critical section. *)
LEMMA MutexKept ==
  ASSUME MutualExclusion, mutex' = mutex,
         \A q \in Progs : InCriticalSection(q)' <=> InCriticalSection(q)
  PROVE  MutualExclusion'
BY DEF MutualExclusion

LEMMA MutualExclusionStep ==
  ASSUME TypeOK, MutualExclusion, [Next]_vars
  PROVE  MutualExclusion'
<1>. pc \in [Progs -> Labels]
  BY DEF TypeOK
<1>1. CASE UNCHANGED vars
  BY <1>1, MutexKept DEF vars, InCriticalSection
<1>2. CASE Next
  <2>. PICK p \in Progs : Step(p)
    BY <1>2 DEF Next
  <2>1. CASE Lock(p)
    <3>1. ~InCriticalSection(p) /\ InCriticalSection(p)'
      BY <2>1 DEF Lock, Go, InCriticalSection
    <3>2. \A q \in Progs : q # p => (InCriticalSection(q)' <=> InCriticalSection(q))
      BY <2>1 DEF Lock, Go, InCriticalSection
    <3>3. \A q \in Progs : ~InCriticalSection(q)
      BY <2>1 DEF Lock, MutualExclusion
    <3>4. mutex' = 0
      BY <2>1, <3>3 DEF Lock, MutualExclusion
    <3>. QED BY <3>1, <3>2, <3>3, <3>4 DEF MutualExclusion
  <2>2. CASE Unlock(p)
    <3>1. InCriticalSection(p) /\ ~InCriticalSection(p)'
      BY <2>2 DEF Unlock, Go, InCriticalSection
    <3>2. \A q \in Progs : q # p => (InCriticalSection(q)' <=> InCriticalSection(q))
      BY <2>2 DEF Unlock, Go, InCriticalSection
    <3>3. mutex = 0 /\ \A q \in Progs : q # p => ~InCriticalSection(q)
      BY <3>1 DEF MutualExclusion
    <3>4. mutex' = 1
      BY <2>2, <3>3 DEF Unlock
    <3>. QED BY <3>1, <3>2, <3>3, <3>4 DEF MutualExclusion
  <2>3. CASE WaitForTask(p)
    BY <2>3, MutexKept DEF WaitForTask, Go, InCriticalSection
  <2>4. CASE ReadTask(p)
    <3>1. /\ mutex' = mutex
          /\ Go(p, "get", "pop") \/ Go(p, "get", "unlockGet")
      BY <2>4 DEF ReadTask
    <3>. QED BY <3>1, MutexKept DEF Go, InCriticalSection
  <2>5. CASE PopTask(p)
    BY <2>5, MutexKept DEF PopTask, Go, InCriticalSection
  <2>6. ASSUME NEW to, NEW t, Send(p, to, t)
        PROVE  MutualExclusion'
    BY <2>6, MutexKept DEF Send, Go, InCriticalSection
  <2>7. CASE \E r \in Progs : WriteProgram(p, r)
    BY <2>6, <2>7 DEF WriteProgram
  <2>8. CASE Approve(p)
    BY <2>6, <2>8 DEF Approve
  <2>9. CASE Reject(p)
    BY <2>6, <2>9 DEF Reject
  <2>10. CASE ReadQueue(p)
    BY <2>10, MutexKept DEF ReadQueue, Go, InCriticalSection
  <2>11. CASE AppendTask(p)
    BY <2>11, MutexKept DEF AppendTask, Go, InCriticalSection
  <2>12. CASE PostTask(p)
    BY <2>12, MutexKept DEF PostTask, Go, InCriticalSection
  <2>. QED
    BY <2>1, <2>2, <2>3, <2>4, <2>5, <2>7, <2>8, <2>9, <2>10, <2>11, <2>12 DEF Step
<1>. QED BY <1>1, <1>2

(* At most one process is between sem_wait(mutex) and sem_post(mutex). *)
THEOREM MutexCorrect == Spec => []MutualExclusion
<1>1. Init => MutualExclusion
  BY DEF Init, MutualExclusion, InCriticalSection
<1>. QED BY <1>1, MutualExclusionStep, TypeCorrect, PTL DEF Spec

(* A process in its critical section keeps what it has read: the only other  *)
(* writers of a queue are in the critical section too.                       *)
LEMMA NoLostUpdateStep ==
  ASSUME TypeOK, MutualExclusion, NoLostUpdate, [Next]_vars
  PROVE  NoLostUpdate'
<1>. USE DEF TypeOK
<1>1. CASE UNCHANGED vars
  BY <1>1 DEF vars, NoLostUpdate
<1>2. CASE Next
  <2>. PICK p \in Progs : Step(p)
    BY <1>2 DEF Next
  <2>1. CASE PopTask(p) \/ AppendTask(p)
    <3>1. InCriticalSection(p) /\ pc'[p] \notin {"pop", "append"}
      BY <2>1 DEF PopTask, AppendTask, Go, InCriticalSection
    <3>2. \A q \in Progs : q # p => pc'[q] \notin {"pop", "append"}
      BY <2>1, <3>1 DEF PopTask, AppendTask, Go, MutualExclusion, InCriticalSection
    <3>. QED BY <3>1, <3>2 DEF NoLostUpdate
  <2>2. CASE ReadTask(p)
    <3>1. CASE queue[p] = <<>>
      BY <2>2, <3>1 DEF ReadTask, Go, NoLostUpdate
    <3>2. CASE queue[p] # <<>>
      <4>1. /\ pc'[p] = "pop" /\ seen'[p] = queue[p]
            /\ \A q \in Progs : q # p => pc'[q] = pc[q] /\ seen'[q] = seen[q]
            /\ UNCHANGED <<queue, dest>>
        BY <2>2, <3>2 DEF ReadTask, Go
      <4>. QED BY <4>1 DEF NoLostUpdate
    <3>. QED BY <3>1, <3>2
  <2>3. CASE ReadQueue(p)
    BY <2>3 DEF ReadQueue, Go, NoLostUpdate
  <2>4. CASE WaitForTask(p) \/ Lock(p) \/ Unlock(p)
    <3>1. /\ pc'[p] \notin {"pop", "append"}
          /\ \A q \in Progs : q # p => pc'[q] = pc[q]
          /\ UNCHANGED <<queue, dest, seen>>
      BY <2>4 DEF WaitForTask, Lock, Unlock, Go
    <3>. QED BY <3>1 DEF NoLostUpdate
  <2>5. ASSUME NEW to, NEW t, Send(p, to, t)
        PROVE  NoLostUpdate'
    BY <2>5 DEF Send, Go, NoLostUpdate
  <2>6. CASE (\E r \in Progs : WriteProgram(p, r)) \/ Approve(p) \/ Reject(p)
    BY <2>5, <2>6 DEF WriteProgram, Approve, Reject
  <2>7. CASE PostTask(p)
    BY <2>7 DEF PostTask, Go, NoLostUpdate
  <2>. QED
    BY <2>1, <2>2, <2>3, <2>4, <2>6, <2>7 DEF Step
<1>. QED BY <1>1, <1>2

(* No update of a shared queue is lost. *)
THEOREM UpdatesSafe == Spec => []NoLostUpdate
<1>1. Init => NoLostUpdate
  BY DEF Init, NoLostUpdate
<1>. QED BY <1>1, NoLostUpdateStep, TypeCorrect, MutexCorrect, PTL DEF Spec

----------------------------------------------------------------------------
(* Who reviews whom. *)

Foreign(p, t) == t = Own \/ Author(t) # p

(* A task about p's own program, other than to write it, is nowhere on its    *)
(* way to p: neither in p's queue, nor sent to p, nor in p's hands.           *)
TasksAreForeign ==
  /\ \A p \in Progs : \A i \in 1..Len(queue[p]) : Foreign(p, queue[p][i])
  /\ \A p \in Progs : Sending(p) => Foreign(dest[p], out[p])
  /\ \A p \in Progs : pc[p] = "pop" \/ Working(p) => Foreign(p, task[p])

(* The tasks run() sends are foreign to their receivers. *)
LEMMA SentTaskIsForeign ==
  ASSUME TypeOK, NEW p \in Progs, Foreign(p, task[p]),
         NEW to, NEW t, Send(p, to, t),
         (\E r \in Progs : WriteProgram(p, r)) \/ Approve(p) \/ Reject(p)
  PROVE  Foreign(dest'[p], out'[p])
<1>. task[p] \in Tasks
  BY DEF TypeOK
<1>1. CASE \E r \in Progs : WriteProgram(p, r)
  <2>1. PICK r \in Progs : WriteProgram(p, r)
    BY <1>1
  <2>2. dest'[p] = r /\ out'[p] = p /\ r # p
    BY <2>1 DEF WriteProgram, Send, TypeOK
  <2>3. Author(p) = p
    BY ProgrammersAssumption DEF Author, IsReReview, Progs
  <2>. QED BY <2>2, <2>3 DEF Foreign
<1>2. CASE Approve(p)
  BY <1>2 DEF Approve, Send, TypeOK, Foreign
<1>3. CASE Reject(p)
  <2>1. /\ dest'[p] = p
        /\ \/ IsReview(task[p]) /\ out'[p] = task[p] + NUM_PROGS
           \/ IsReReview(task[p]) /\ out'[p] = task[p]
    BY <1>3 DEF Reject, Send, TypeOK
  <2>2. Author(out'[p]) = Author(task[p])
    BY <2>1, ProgrammersAssumption DEF Author, IsReview, IsReReview, Tasks, Own
  <2>3. task[p] # Own
    BY <2>1, ProgrammersAssumption DEF IsReview, IsReReview, Own
  <2>. QED BY <2>1, <2>2, <2>3 DEF Foreign
<1>. QED BY <1>1, <1>2, <1>3

LEMMA TasksAreForeignStep ==
  ASSUME TypeOK, PopHasTask, NoLostUpdate, TasksAreForeign, [Next]_vars
  PROVE  TasksAreForeign'
<1>. USE DEF TypeOK
<1>1. CASE UNCHANGED vars
  BY <1>1 DEF vars, TasksAreForeign, Sending, Working
<1>2. CASE Next
  <2>. PICK p \in Progs : Step(p)
    BY <1>2 DEF Next
  <2>1. CASE WaitForTask(p) \/ Lock(p) \/ Unlock(p) \/ ReadQueue(p) \/ PostTask(p)
    <3>1. /\ UNCHANGED <<queue, task, out>>
          /\ \A q \in Progs : q # p => pc'[q] = pc[q] /\ dest'[q] = dest[q]
      BY <2>1 DEF WaitForTask, Lock, Unlock, ReadQueue, PostTask, Go
    <3>2. /\ Sending(p)' => Sending(p) /\ dest'[p] = dest[p]
          /\ pc'[p] # "pop" /\ (Working(p)' => Working(p))
      BY <2>1 DEF WaitForTask, Lock, Unlock, ReadQueue, PostTask, Go, Sending, Working
    <3>. QED BY <3>1, <3>2 DEF TasksAreForeign, Sending, Working
  <2>2. CASE ReadTask(p)
    <3>1. /\ UNCHANGED <<queue, dest, out>> /\ ~Sending(p)'
          /\ \A q \in Progs : q # p => pc'[q] = pc[q] /\ task'[q] = task[q]
      <4>1. /\ Go(p, "get", "pop") \/ Go(p, "get", "unlockGet")
            /\ \E t : task' = [task EXCEPT ![p] = t]
        BY <2>2 DEF ReadTask
      <4>. QED BY <2>2, <4>1 DEF ReadTask, Go, Sending
    <3>2. Foreign(p, task'[p])
      <4>1. CASE queue[p] = <<>>
        BY <2>2, <4>1 DEF ReadTask, Foreign
      <4>2. CASE queue[p] # <<>>
        <5>1. task'[p] = queue[p][1] /\ 1 \in 1..Len(queue[p])
          BY <2>2, <4>2 DEF ReadTask
        <5>. QED BY <5>1 DEF TasksAreForeign
      <4>. QED BY <4>1, <4>2
    <3>. QED BY <3>1, <3>2 DEF TasksAreForeign, Sending, Working
  <2>3. CASE PopTask(p)
    <3>1. /\ UNCHANGED <<task, dest, out>> /\ ~Sending(p)' /\ pc[p] = "pop"
          /\ \A q \in Progs : q # p => pc'[q] = pc[q] /\ queue'[q] = queue[q]
      BY <2>3 DEF PopTask, Go, Sending
    <3>2. queue'[p] = Tail(queue[p]) /\ queue[p] # <<>>
      BY <2>3, <3>1 DEF PopTask, PopHasTask, NoLostUpdate
    <3>3. \A i \in 1..Len(queue'[p]) :
            i + 1 \in 1..Len(queue[p]) /\ queue'[p][i] = queue[p][i + 1]
      BY <3>2
    <3>4. \A i \in 1..Len(queue'[p]) : Foreign(p, queue'[p][i])
      BY <3>3 DEF TasksAreForeign
    <3>. QED BY <3>1, <3>4 DEF TasksAreForeign, Sending, Working
  <2>4. CASE (\E r \in Progs : WriteProgram(p, r)) \/ Approve(p) \/ Reject(p)
    <3>1. PICK to, t : Send(p, to, t)
      BY <2>4 DEF WriteProgram, Approve, Reject
    <3>2. /\ UNCHANGED queue /\ Working(p) /\ ~Working(p)' /\ pc'[p] # "pop"
          /\ \A q \in Progs \ {p} : /\ pc'[q] = pc[q] /\ task'[q] = task[q]
                                    /\ dest'[q] = dest[q] /\ out'[q] = out[q]
      BY <3>1 DEF Send, Go, Working
    <3>3. Foreign(p, task[p])
      BY <3>2 DEF TasksAreForeign
    <3>4. Foreign(dest'[p], out'[p])
      BY <2>4, <3>1, <3>3, SentTaskIsForeign
    <3>. QED BY <3>2, <3>4 DEF TasksAreForeign, Sending, Working
  <2>5. CASE AppendTask(p)
    <3>1. /\ UNCHANGED <<task, dest>> /\ pc[p] = "append" /\ pc'[p] = "unlockAdd"
          /\ \A q \in Progs : q # p => pc'[q] = pc[q] /\ out'[q] = out[q]
      BY <2>5 DEF AppendTask, Go
    <3>2. seen[p] = queue[dest[p]] /\ Foreign(dest[p], out[p])
      BY <3>1 DEF NoLostUpdate, TasksAreForeign, Sending
    <3>3. \A q \in Progs :
            \/ queue'[q] = queue[q]
            \/ q = dest[p] /\ queue'[q] = Append(queue[q], out[p])
      BY <2>5, <3>2 DEF AppendTask
    <3>4. ASSUME NEW q \in Progs, NEW i \in 1..Len(queue'[q])
          PROVE  Foreign(q, queue'[q][i])
      <4>1. CASE queue'[q] = queue[q]
        BY <3>4, <4>1 DEF TasksAreForeign
      <4>2. CASE q = dest[p] /\ queue'[q] = Append(queue[q], out[p])
        <5>1. queue[q] \in Seq(Tasks) /\ out[p] \in Tasks
          OBVIOUS
        <5>2. \/ i \in 1..Len(queue[q]) /\ queue'[q][i] = queue[q][i]
              \/ queue'[q][i] = out[p]
          BY <3>4, <4>2, <5>1
        <5>. QED BY <3>2, <4>2, <5>2 DEF TasksAreForeign
      <4>. QED BY <3>3, <4>1, <4>2
    <3>. QED BY <3>1, <3>4 DEF TasksAreForeign, Sending, Working
  <2>. QED BY <2>1, <2>2, <2>3, <2>4, <2>5 DEF Step
<1>. QED BY <1>1, <1>2

(* Nobody reviews its own program. *)
THEOREM ReviewsAreForeign == Spec => []ReviewerIsNotAuthor
<1>. DEFINE Inv == TypeOK /\ PopHasTask /\ MutualExclusion /\ NoLostUpdate /\ TasksAreForeign
<1>1. Init => Inv
  <2>1. Init => MutualExclusion /\ NoLostUpdate
    BY DEF Init, MutualExclusion, InCriticalSection, NoLostUpdate
  <2>2. Init => TasksAreForeign
    BY DEF Init, TasksAreForeign, Foreign, Sending, Working
  <2>. QED BY <2>1, <2>2, TypeInit
<1>2. Inv /\ [Next]_vars => Inv'
  BY TypeStep, MutualExclusionStep, NoLostUpdateStep, TasksAreForeignStep
<1>3. Inv => ReviewerIsNotAuthor
  BY DEF TasksAreForeign, Foreign, ReviewerIsNotAuthor
<1>. QED BY <1>1, <1>2, <1>3, PTL DEF Spec

----------------------------------------------------------------------------
(* Semaphores and queues. *)

LEMMA NotYetPostedIsFinite ==
  ASSUME NEW q \in Progs
  PROVE  /\ IsFiniteSet(NotYetPosted(q)) /\ Cardinality(NotYetPosted(q)) \in Nat
         /\ IsFiniteSet(NotYetPosted(q)') /\ Cardinality(NotYetPosted(q)') \in Nat
<1>1. IsFiniteSet(Progs)
  BY ProgrammersAssumption, FS_Interval DEF Progs
<1>2. NotYetPosted(q) \subseteq Progs /\ NotYetPosted(q)' \subseteq Progs
  BY DEF NotYetPosted
<1>. QED BY <1>1, <1>2, FS_Subset, FS_CardinalityType

(* A step that changes the counts of one queue. *)
LEMMA CountsMove ==
  ASSUME SemaphoreCountsQueue, NEW d \in Progs,
         \A q \in Progs : q # d =>
            /\ queue'[q] = queue[q] /\ sem'[q] = sem[q]
            /\ NotYetPosted(q)' = NotYetPosted(q) /\ Claimed(q)' = Claimed(q),
         Len(queue[d]) = sem[d] + Cardinality(NotYetPosted(d)) + Claimed(d) =>
           Len(queue'[d]) = sem'[d] + Cardinality(NotYetPosted(d)') + Claimed(d)'
  PROVE  SemaphoreCountsQueue'
BY DEF SemaphoreCountsQueue

LEMMA CountsAreNats ==
  ASSUME TypeOK, NEW q \in Progs
  PROVE  /\ sem[q] \in Nat /\ Len(queue[q]) \in Nat
         /\ Cardinality(NotYetPosted(q)) \in Nat /\ Claimed(q) \in {0, 1}
BY NotYetPostedIsFinite DEF TypeOK, Claimed

(* A process let through its semaphore finds a task. *)
LEMMA ClaimedTaskIsThere ==
  ASSUME TypeOK, SemaphoreCountsQueue, NEW p \in Progs, pc[p] \in {"lockGet", "get", "pop"}
  PROVE  queue[p] # <<>>
<1>1. Len(queue[p]) >= 1
  BY NotYetPostedIsFinite DEF TypeOK, SemaphoreCountsQueue, Claimed
<1>. QED BY <1>1

(* A step that changes nothing the counts depend on. *)
LEMMA CountsKept ==
  ASSUME SemaphoreCountsQueue, UNCHANGED <<queue, sem>>,
         \A q \in Progs : NotYetPosted(q)' = NotYetPosted(q) /\ Claimed(q)' = Claimed(q)
  PROVE  SemaphoreCountsQueue'
BY DEF SemaphoreCountsQueue

(* The counts after one of them has moved by one. *)
LEMMA PostedAdd ==
  ASSUME NEW d \in Progs, NEW p, NotYetPosted(d)' = NotYetPosted(d) \cup {p}, p \notin NotYetPosted(d)
  PROVE  Cardinality(NotYetPosted(d)') = Cardinality(NotYetPosted(d)) + 1
BY NotYetPostedIsFinite, FS_AddElement

LEMMA PostedRemove ==
  ASSUME NEW d \in Progs, NEW p, NotYetPosted(d)' = NotYetPosted(d) \ {p}, p \in NotYetPosted(d)
  PROVE  Cardinality(NotYetPosted(d)') = Cardinality(NotYetPosted(d)) - 1
BY NotYetPostedIsFinite, FS_RemoveElement

LEMMA SemaphoreStep ==
  ASSUME TypeOK, PopHasTask, NoLostUpdate, NoTaskDropped, SemaphoreCountsQueue, [Next]_vars
  PROVE  SemaphoreCountsQueue'
<1>0. /\ pc \in [Progs -> Labels] /\ dest \in [Progs -> Progs] /\ sem \in [Progs -> Nat]
      /\ queue \in [Progs -> Seq(Tasks)] /\ out \in [Progs -> Tasks]
  BY DEF TypeOK
<1>1. CASE UNCHANGED vars
  BY <1>1, CountsKept DEF vars, NotYetPosted, Claimed
<1>2. CASE Next
  <2>. PICK p \in Progs : Step(p)
    BY <1>2 DEF Next
  <2>1. CASE WaitForTask(p)
    <3>1. /\ UNCHANGED <<queue, dest>> /\ sem'[p] = sem[p] - 1
          /\ \A q \in Progs : q # p => sem'[q] = sem[q]
          /\ pc[p] = "wait" /\ pc' = [pc EXCEPT ![p] = "lockGet"]
      BY <1>0, <2>1 DEF WaitForTask, Go
    <3>2. Claimed(p) = 0 /\ Claimed(p)' = 1
          /\ \A q \in Progs : q # p => Claimed(q)' = Claimed(q)
      BY <1>0, <3>1 DEF Claimed
    <3>3. \A q \in Progs : NotYetPosted(q)' = NotYetPosted(q)
      BY <1>0, <3>1 DEF NotYetPosted
    <3>. QED BY <3>1, <3>2, <3>3, CountsAreNats, CountsMove
  <2>2. CASE Lock(p)
    <3>1. UNCHANGED <<queue, sem, dest>>
          /\ \/ pc[p] = "lockGet" /\ pc' = [pc EXCEPT ![p] = "get"]
             \/ pc[p] = "lockAdd" /\ pc' = [pc EXCEPT ![p] = "add"]
      BY <1>0, <2>2 DEF Lock, Go
    <3>. QED BY <1>0, <3>1, CountsKept DEF NotYetPosted, Claimed
  <2>3. CASE Unlock(p)
    <3>1. UNCHANGED <<queue, sem, dest>>
          /\ \/ pc[p] = "unlockGet" /\ pc' = [pc EXCEPT ![p] = "work"]
             \/ pc[p] = "unlockAdd" /\ pc' = [pc EXCEPT ![p] = "post"]
      BY <1>0, <2>3 DEF Unlock, Go
    <3>. QED BY <1>0, <3>1, CountsKept DEF NotYetPosted, Claimed
  <2>4. CASE ReadTask(p)
    <3>1. queue[p] # <<>>
      BY <1>0, <2>4, ClaimedTaskIsThere DEF ReadTask, Go
    <3>2. UNCHANGED <<queue, sem, dest>> /\ pc[p] = "get" /\ pc' = [pc EXCEPT ![p] = "pop"]
      BY <1>0, <2>4, <3>1 DEF ReadTask, Go
    <3>. QED BY <1>0, <3>2, CountsKept DEF NotYetPosted, Claimed
  <2>5. CASE PopTask(p)
    <3>1. UNCHANGED <<sem, dest>> /\ pc[p] = "pop" /\ pc' = [pc EXCEPT ![p] = "unlockGet"]
      BY <1>0, <2>5 DEF PopTask, Go
    <3>2. queue[p] # <<>> /\ queue' = [queue EXCEPT ![p] = Tail(queue[p])]
      BY <1>0, <2>5, <3>1 DEF PopTask, PopHasTask, NoLostUpdate
    <3>3. Len(queue'[p]) = Len(queue[p]) - 1 /\ \A q \in Progs : q # p => queue'[q] = queue[q]
      BY <1>0, <3>2
    <3>4. Claimed(p) = 1 /\ Claimed(p)' = 0
          /\ \A q \in Progs : q # p => Claimed(q)' = Claimed(q)
      BY <1>0, <3>1 DEF Claimed
    <3>5. \A q \in Progs : NotYetPosted(q)' = NotYetPosted(q)
      BY <1>0, <3>1 DEF NotYetPosted
    <3>7. Len(queue[p]) = sem[p] + Cardinality(NotYetPosted(p)) + Claimed(p) =>
            Len(queue'[p]) = sem'[p] + Cardinality(NotYetPosted(p)') + Claimed(p)'
      BY <3>1, <3>3, <3>4, <3>5, CountsAreNats
    <3>8. \A q \in Progs : q # p => queue'[q] = queue[q] /\ sem'[q] = sem[q]
      BY <3>1, <3>3
    <3>. QED BY <3>4, <3>5, <3>7, <3>8, CountsMove
  <2>6. CASE (\E r \in Progs : WriteProgram(p, r)) \/ Approve(p) \/ Reject(p)
    <3>1. UNCHANGED <<queue, sem>> /\ pc[p] = "work" /\ pc' = [pc EXCEPT ![p] = "lockAdd"]
          /\ \A q \in Progs : q # p => dest'[q] = dest[q]
      BY <1>0, <2>6 DEF WriteProgram, Approve, Reject, Send, Go
    <3>. QED BY <1>0, <3>1, CountsKept DEF NotYetPosted, Claimed
  <2>7. CASE ReadQueue(p)
    <3>1. UNCHANGED <<queue, sem, dest>> /\ pc[p] = "add" /\ pc' = [pc EXCEPT ![p] = "append"]
      BY <1>0, <2>7 DEF ReadQueue, Go
    <3>. QED BY <1>0, <3>1, CountsKept DEF NotYetPosted, Claimed
  <2>8. CASE AppendTask(p)
    <3>0. PICK d \in Progs : d = dest[p]
      BY <1>0
    <3>1. UNCHANGED <<sem, dest>> /\ pc[p] = "append" /\ pc' = [pc EXCEPT ![p] = "unlockAdd"]
      BY <1>0, <2>8 DEF AppendTask, Go
    <3>2. queue' = [queue EXCEPT ![dest[p]] = Append(queue[dest[p]], out[p])]
      BY <1>0, <2>8, <3>1 DEF AppendTask, NoLostUpdate, NoTaskDropped
    <3>3. Len(queue'[d]) = Len(queue[d]) + 1 /\ \A q \in Progs : q # d => queue'[q] = queue[q]
      BY <1>0, <3>0, <3>2
    <3>4. \A q \in Progs : Claimed(q)' = Claimed(q)
      BY <1>0, <3>0, <3>1 DEF Claimed
    <3>5. /\ NotYetPosted(d)' = NotYetPosted(d) \cup {p} /\ p \notin NotYetPosted(d)
          /\ \A q \in Progs : q # d => NotYetPosted(q)' = NotYetPosted(q)
      BY <1>0, <3>0, <3>1 DEF NotYetPosted
    <3>6. Cardinality(NotYetPosted(d)') = Cardinality(NotYetPosted(d)) + 1
      BY <1>0, <3>0, <3>5, PostedAdd
    <3>7. Len(queue[d]) = sem[d] + Cardinality(NotYetPosted(d)) + Claimed(d) =>
            Len(queue'[d]) = sem'[d] + Cardinality(NotYetPosted(d)') + Claimed(d)'
      <4>1. /\ sem'[d] = sem[d] /\ Claimed(d)' = Claimed(d)
            /\ Len(queue'[d]) = Len(queue[d]) + 1
        BY <3>1, <3>3, <3>4
      <4>2. /\ sem[d] \in Nat /\ Cardinality(NotYetPosted(d)) \in Nat
            /\ Claimed(d) \in {0, 1} /\ Len(queue[d]) \in Nat
        BY <1>0, CountsAreNats
      <4>. QED BY <3>6, <4>1, <4>2
    <3>8. \A q \in Progs : q # d => queue'[q] = queue[q] /\ sem'[q] = sem[q]
      BY <3>1, <3>3
    <3>. QED BY <3>4, <3>5, <3>7, <3>8, CountsMove
  <2>9. CASE PostTask(p)
    <3>0. PICK d \in Progs : d = dest[p]
      BY <1>0
    <3>1. /\ UNCHANGED queue /\ pc[p] = "post" /\ pc' = [pc EXCEPT ![p] = "wait"]
          /\ sem'[d] = sem[d] + 1 /\ \A q \in Progs : q # d => sem'[q] = sem[q]
          /\ \A q \in Progs : q # p => dest'[q] = dest[q]
      BY <1>0, <3>0, <2>9 DEF PostTask, Go
    <3>4. \A q \in Progs : Claimed(q)' = Claimed(q)
      BY <1>0, <3>0, <3>1 DEF Claimed
    <3>5. /\ NotYetPosted(d)' = NotYetPosted(d) \ {p} /\ p \in NotYetPosted(d)
          /\ \A q \in Progs : q # d => NotYetPosted(q)' = NotYetPosted(q)
      BY <1>0, <3>0, <3>1 DEF NotYetPosted
    <3>6. Cardinality(NotYetPosted(d)') = Cardinality(NotYetPosted(d)) - 1
      BY <1>0, <3>0, <3>5, PostedRemove
    <3>7. Len(queue[d]) = sem[d] + Cardinality(NotYetPosted(d)) + Claimed(d) =>
            Len(queue'[d]) = sem'[d] + Cardinality(NotYetPosted(d)') + Claimed(d)'
      <4>1. /\ sem'[d] = sem[d] + 1 /\ Claimed(d)' = Claimed(d)
            /\ Len(queue'[d]) = Len(queue[d])
        BY <3>1, <3>4
      <4>2. /\ sem[d] \in Nat /\ Cardinality(NotYetPosted(d)) \in Nat
            /\ Claimed(d) \in {0, 1} /\ Len(queue[d]) \in Nat
        BY <1>0, CountsAreNats
      <4>. QED BY <3>6, <4>1, <4>2
    <3>8. \A q \in Progs : q # d => queue'[q] = queue[q] /\ sem'[q] = sem[q]
      BY <3>1
    <3>. QED BY <3>4, <3>5, <3>7, <3>8, CountsMove
  <2>. QED BY <2>1, <2>2, <2>3, <2>4, <2>5, <2>6, <2>7, <2>8, <2>9 DEF Step
<1>. QED BY <1>1, <1>2

----------------------------------------------------------------------------
(* Tasks and programs. *)

QueuedProgram(q, i) == ProgramOf(q, queue[q][i])

(* No program has two tasks, be they in queues or in hands. *)
TasksDiffer ==
  /\ \A p, q \in Progs : \A i \in 1..Len(queue[p]), j \in 1..Len(queue[q]) :
       QueuedProgram(p, i) = QueuedProgram(q, j) => p = q /\ i = j
  /\ \A p, q \in Progs : Holding(p) =>
       \A i \in 1..Len(queue[q]) : HeldProgram(p) # QueuedProgram(q, i)
  /\ \A p, q \in Progs :
       Holding(p) /\ Holding(q) /\ HeldProgram(p) = HeldProgram(q) => p = q

(* Every program has a task. *)
TasksExist ==
  \A g \in Progs :
    \/ \E q \in Progs : \E i \in 1..Len(queue[q]) : QueuedProgram(q, i) = g
    \/ \E p \in Progs : Holding(p) /\ HeldProgram(p) = g

(* A process about to take a task out of its queue has the first in hand. *)
PopsFirst == \A p \in Progs : pc[p] = "pop" => task[p] = Head(queue[p])

(* A task is about the program of some programmer. *)
LEMMA ProgramIsProg ==
  ASSUME NEW p \in Progs, NEW t \in Tasks
  PROVE  ProgramOf(p, t) \in Progs
<1>1. CASE t = Own
  BY <1>1 DEF ProgramOf
<1>2. CASE t # Own
  <2>1. IsReview(t) \/ IsReReview(t)
    BY <1>2, ProgrammersAssumption DEF Tasks, Own, IsReview, IsReReview
  <2>. QED BY <1>2, <2>1, AuthorIsProg DEF ProgramOf
<1>. QED BY <1>1, <1>2

LEMMA HeldIsProg ==
  ASSUME TypeOK, NEW p \in Progs
  PROVE  HeldProgram(p) \in Progs
<1>. /\ task[p] \in Tasks /\ out[p] \in Tasks /\ dest[p] \in Progs
  BY DEF TypeOK
<1>. QED BY ProgramIsProg DEF HeldProgram

(* A queue for which somebody holds a task has room for it: the programs of   *)
(* its tasks are different, and none is the one that is held.                 *)
LEMMA QueueHasRoom ==
  ASSUME TypeOK, TasksDiffer, NEW p \in Progs, Holding(p), NEW q \in Progs
  PROVE  Len(queue[q]) < MAX_TASKS
<1>. DEFINE I == 1..Len(queue[q])
            Others == Progs \ {HeldProgram(p)}
            f == [i \in I |-> QueuedProgram(q, i)]
<1>0. queue[q] \in Seq(Tasks) /\ Len(queue[q]) \in Nat
  BY DEF TypeOK
<1>1. IsFiniteSet(Progs) /\ Cardinality(Progs) = NUM_PROGS
  BY ProgrammersAssumption, FS_Interval DEF Progs
<1>2. IsFiniteSet(Others) /\ Cardinality(Others) = NUM_PROGS - 1
  BY <1>1, HeldIsProg, FS_RemoveElement
<1>3. IsFiniteSet(I) /\ Cardinality(I) = Len(queue[q])
  BY <1>0, FS_Interval
<1>4. f \in [I -> Others]
  <2>. SUFFICES ASSUME NEW i \in I PROVE QueuedProgram(q, i) \in Others
    OBVIOUS
  <2>1. queue[q][i] \in Tasks
    BY <1>0
  <2>2. QueuedProgram(q, i) \in Progs
    BY <2>1, ProgramIsProg DEF QueuedProgram
  <2>. QED BY <2>2 DEF TasksDiffer
<1>5. \A i, j \in I : f[i] = f[j] => i = j
  BY DEF TasksDiffer
<1>6. ~(Cardinality(Others) < Cardinality(I))
  <2>. HIDE DEF I, Others, f
  <2>. QED BY <1>2, <1>3, <1>4, <1>5, FS_PigeonHole
<1>. QED BY <1>0, <1>2, <1>3, <1>6, ProgrammersAssumption, QueueAssumption

LEMMA RoomForTasks == ASSUME TypeOK, TasksDiffer PROVE NoTaskDropped
BY QueueHasRoom DEF NoTaskDropped, TypeOK, Holding, Sending

(* A step that moves no task. *)
LEMMA TasksKept ==
  ASSUME TasksDiffer, TasksExist, UNCHANGED queue,
         \A q \in Progs : /\ Holding(q)' = Holding(q)
                          /\ Holding(q) => HeldProgram(q)' = HeldProgram(q)
  PROVE  TasksDiffer' /\ TasksExist'
BY DEF TasksDiffer, TasksExist, QueuedProgram

(* What run() sends is about the program it had in hand. *)
LEMMA SentIsSameProgram ==
  ASSUME TypeOK, NEW p \in Progs, NEW to, NEW t, Send(p, to, t),
         (\E r \in Progs : WriteProgram(p, r)) \/ Approve(p) \/ Reject(p)
  PROVE  ProgramOf(dest'[p], out'[p]) = ProgramOf(p, task[p])
<1>0. task[p] \in Tasks /\ dest \in [Progs -> Progs] /\ out \in [Progs -> Tasks]
  BY DEF TypeOK
<1>1. CASE \E r \in Progs : WriteProgram(p, r)
  <2>1. dest'[p] \in Progs /\ out'[p] = p /\ task[p] = Own
    BY <1>0, <1>1 DEF WriteProgram, Send
  <2>2. Author(p) = p /\ p # Own
    BY ProgrammersAssumption DEF Author, IsReReview, Progs, Own
  <2>. QED BY <2>1, <2>2 DEF ProgramOf
<1>2. CASE Approve(p)
  <2>1. dest'[p] = Author(task[p]) /\ out'[p] = Own
    BY <1>0, <1>2 DEF Approve, Send
  <2>2. task[p] # Own
    BY <1>0, <1>2, ProgrammersAssumption DEF Approve, IsReview, IsReReview, Own
  <2>. QED BY <2>1, <2>2 DEF ProgramOf
<1>3. CASE Reject(p)
  <2>1. \/ IsReview(task[p]) /\ out'[p] = task[p] + NUM_PROGS
        \/ IsReReview(task[p]) /\ out'[p] = task[p]
    BY <1>0, <1>3 DEF Reject, Send
  <2>2. Author(out'[p]) = Author(task[p]) /\ out'[p] # Own /\ task[p] # Own
    BY <1>0, <2>1, ProgrammersAssumption DEF Author, IsReview, IsReReview, Tasks, Own
  <2>. QED BY <2>2 DEF ProgramOf
<1>. QED BY <1>1, <1>2, <1>3

(* The first of queue q goes into the hands of p = q. *)
LEMMA TakenTask ==
  ASSUME TypeOK, TasksDiffer, TasksExist, NEW p \in Progs, queue[p] # <<>>, ~Holding(p),
         Holding(p)', HeldProgram(p)' = QueuedProgram(p, 1),
         queue' = [queue EXCEPT ![p] = Tail(queue[p])],
         \A q \in Progs : q # p => /\ Holding(q)' = Holding(q)
                                   /\ HeldProgram(q)' = HeldProgram(q)
  PROVE  TasksDiffer' /\ TasksExist'
<1>0. queue \in [Progs -> Seq(Tasks)]
  BY DEF TypeOK
<1>1. \A q \in Progs : q # p => queue'[q] = queue[q]
  BY <1>0
<1>2. /\ Len(queue[p]) \in Nat /\ 1 \in 1..Len(queue[p])
      /\ Len(queue'[p]) = Len(queue[p]) - 1
      /\ \A i \in 1..Len(queue'[p]) :
           i + 1 \in 1..Len(queue[p]) /\ queue'[p][i] = queue[p][i + 1]
  BY <1>0
<1>3. \A i \in 1..Len(queue'[p]) :
        /\ i + 1 \in 1..Len(queue[p]) /\ i + 1 # 1
        /\ QueuedProgram(p, i)' = QueuedProgram(p, i + 1)
  BY <1>2 DEF QueuedProgram
<1>4. \A i \in 1..Len(queue[p]) : i # 1 =>
        i - 1 \in 1..Len(queue'[p]) /\ QueuedProgram(p, i - 1)' = QueuedProgram(p, i)
  <2>. TAKE i \in 1..Len(queue[p])
  <2>. HAVE i # 1
  <2>1. i - 1 \in 1..Len(queue'[p]) /\ (i - 1) + 1 = i
    BY <1>2
  <2>. QED BY <1>3, <2>1
<1>5. \A q \in Progs : q # p => \A i \in 1..Len(queue[q]) :
        QueuedProgram(q, i)' = QueuedProgram(q, i)
  BY <1>1 DEF QueuedProgram
<1>6. \A q \in Progs : \A i \in 1..Len(queue'[q]) :
        \E j \in 1..Len(queue[q]) : /\ QueuedProgram(q, i)' = QueuedProgram(q, j)
                                    /\ j = (IF q = p THEN i + 1 ELSE i)
                                    /\ q = p => j # 1
  BY <1>1, <1>3, <1>5
<1>7. \A q \in Progs : \A i \in 1..Len(queue'[q]) :
        QueuedProgram(q, i)' # QueuedProgram(p, 1)
  BY <1>2, <1>6 DEF TasksDiffer
<1>8. TasksDiffer'
  <2>1. ASSUME NEW q \in Progs, NEW r \in Progs,
               NEW i \in 1..Len(queue'[q]), NEW j \in 1..Len(queue'[r]),
               QueuedProgram(q, i)' = QueuedProgram(r, j)'
        PROVE  q = r /\ i = j
    <3>1. PICK k \in 1..Len(queue[q]) : /\ QueuedProgram(q, i)' = QueuedProgram(q, k)
                                        /\ k = (IF q = p THEN i + 1 ELSE i)
      BY <1>6
    <3>2. PICK l \in 1..Len(queue[r]) : /\ QueuedProgram(r, j)' = QueuedProgram(r, l)
                                        /\ l = (IF r = p THEN j + 1 ELSE j)
      BY <1>6
    <3>3. q = r /\ k = l
      <4>1. QueuedProgram(q, k) = QueuedProgram(r, l)
        BY <2>1, <3>1, <3>2
      <4>. QED BY <4>1 DEF TasksDiffer
    <3>4. i \in Int /\ j \in Int
      OBVIOUS
    <3>. QED BY <3>1, <3>2, <3>3, <3>4
  <2>2. ASSUME NEW r \in Progs, Holding(r)', NEW q \in Progs, NEW i \in 1..Len(queue'[q])
        PROVE  HeldProgram(r)' # QueuedProgram(q, i)'
    BY <1>6, <1>7, <2>2 DEF TasksDiffer
  <2>3. ASSUME NEW q \in Progs, NEW r \in Progs, Holding(q)', Holding(r)',
               HeldProgram(q)' = HeldProgram(r)'
        PROVE  q = r
    BY <1>2, <2>3 DEF TasksDiffer
  <2>. QED BY <2>1, <2>2, <2>3 DEF TasksDiffer
<1>9. TasksExist'
  <2>. SUFFICES ASSUME NEW g \in Progs
                PROVE  \/ \E q \in Progs : \E i \in 1..Len(queue'[q]) : QueuedProgram(q, i)' = g
                       \/ \E q \in Progs : Holding(q)' /\ HeldProgram(q)' = g
    BY DEF TasksExist
  <2>1. ASSUME NEW q \in Progs, NEW i \in 1..Len(queue[q]), QueuedProgram(q, i) = g
        PROVE  \/ \E r \in Progs : \E j \in 1..Len(queue'[r]) : QueuedProgram(r, j)' = g
               \/ \E r \in Progs : Holding(r)' /\ HeldProgram(r)' = g
    BY <1>1, <1>4, <1>5, <2>1
  <2>2. ASSUME NEW q \in Progs, Holding(q), HeldProgram(q) = g
        PROVE  \E r \in Progs : Holding(r)' /\ HeldProgram(r)' = g
    BY <2>2
  <2>. QED BY <2>1, <2>2 DEF TasksExist
<1>. QED BY <1>8, <1>9

(* A task in hand goes to the end of queue d. *)
LEMMA QueuedTask ==
  ASSUME TypeOK, TasksDiffer, TasksExist, NEW p \in Progs, NEW d \in Progs, NEW t \in Tasks,
         Holding(p), ~Holding(p)', HeldProgram(p) = ProgramOf(d, t),
         queue' = [queue EXCEPT ![d] = Append(queue[d], t)],
         \A q \in Progs : q # p => /\ Holding(q)' = Holding(q)
                                   /\ HeldProgram(q)' = HeldProgram(q)
  PROVE  TasksDiffer' /\ TasksExist'
<1>0. queue \in [Progs -> Seq(Tasks)]
  BY DEF TypeOK
<1>1. \A q \in Progs : q # d => queue'[q] = queue[q]
  BY <1>0
<1>2. PICK n : n = Len(queue[d])
  OBVIOUS
<1>3. /\ n \in Nat /\ Len(queue'[d]) = n + 1 /\ queue'[d][n + 1] = t
      /\ \A i \in 1..n : queue'[d][i] = queue[d][i]
  BY <1>0, <1>2
<1>4. QueuedProgram(d, n + 1)' = HeldProgram(p)
  BY <1>3 DEF QueuedProgram
<1>5. \A q \in Progs : \A i \in 1..Len(queue[q]) :
        i \in 1..Len(queue'[q]) /\ QueuedProgram(q, i)' = QueuedProgram(q, i)
  BY <1>1, <1>2, <1>3 DEF QueuedProgram
<1>6. \A q \in Progs : \A i \in 1..Len(queue'[q]) :
        i \in 1..Len(queue[q]) \/ (q = d /\ i = n + 1)
  BY <1>1, <1>2, <1>3
<1>7. TasksDiffer'
  <2>1. ASSUME NEW q \in Progs, NEW r \in Progs,
               NEW i \in 1..Len(queue'[q]), NEW j \in 1..Len(queue'[r]),
               QueuedProgram(q, i)' = QueuedProgram(r, j)'
        PROVE  q = r /\ i = j
    <3>1. CASE i \in 1..Len(queue[q]) /\ j \in 1..Len(queue[r])
      <4>1. QueuedProgram(q, i) = QueuedProgram(r, j)
        BY <1>5, <2>1, <3>1
      <4>. QED BY <3>1, <4>1 DEF TasksDiffer
    <3>2. CASE i \in 1..Len(queue[q]) /\ r = d /\ j = n + 1
      <4>1. QueuedProgram(q, i) = HeldProgram(p)
        BY <1>4, <1>5, <2>1, <3>2
      <4>. QED BY <3>2, <4>1 DEF TasksDiffer
    <3>3. CASE j \in 1..Len(queue[r]) /\ q = d /\ i = n + 1
      <4>1. QueuedProgram(r, j) = HeldProgram(p)
        BY <1>4, <1>5, <2>1, <3>3
      <4>. QED BY <3>3, <4>1 DEF TasksDiffer
    <3>. QED BY <1>6, <3>1, <3>2, <3>3
  <2>2. ASSUME NEW r \in Progs, Holding(r)', NEW q \in Progs, NEW i \in 1..Len(queue'[q])
        PROVE  HeldProgram(r)' # QueuedProgram(q, i)'
    <3>0. r # p /\ Holding(r) /\ HeldProgram(r)' = HeldProgram(r)
      BY <2>2
    <3>1. CASE i \in 1..Len(queue[q])
      BY <1>5, <3>0, <3>1 DEF TasksDiffer
    <3>2. CASE q = d /\ i = n + 1
      BY <1>4, <3>0, <3>2 DEF TasksDiffer
    <3>. QED BY <1>6, <3>1, <3>2
  <2>3. ASSUME NEW q \in Progs, NEW r \in Progs, Holding(q)', Holding(r)',
               HeldProgram(q)' = HeldProgram(r)'
        PROVE  q = r
    BY <2>3 DEF TasksDiffer
  <2>. QED BY <2>1, <2>2, <2>3 DEF TasksDiffer
<1>8. TasksExist'
  <2>. SUFFICES ASSUME NEW g \in Progs
                PROVE  \/ \E q \in Progs : \E i \in 1..Len(queue'[q]) : QueuedProgram(q, i)' = g
                       \/ \E q \in Progs : Holding(q)' /\ HeldProgram(q)' = g
    BY DEF TasksExist
  <2>1. ASSUME NEW q \in Progs, NEW i \in 1..Len(queue[q]), QueuedProgram(q, i) = g
        PROVE  \E r \in Progs : \E j \in 1..Len(queue'[r]) : QueuedProgram(r, j)' = g
    BY <1>5, <2>1
  <2>2. ASSUME NEW q \in Progs, Holding(q), HeldProgram(q) = g
        PROVE  \/ \E r \in Progs : \E j \in 1..Len(queue'[r]) : QueuedProgram(r, j)' = g
               \/ \E r \in Progs : Holding(r)' /\ HeldProgram(r)' = g
    <3>1. CASE q = p
      <4>1. n + 1 \in 1..Len(queue'[d])
        BY <1>3
      <4>. QED BY <1>4, <2>2, <3>1, <4>1
    <3>2. CASE q # p
      BY <2>2, <3>2
    <3>. QED BY <3>1, <3>2
  <2>. QED BY <2>1, <2>2 DEF TasksExist
<1>. QED BY <1>7, <1>8

LEMMA TasksStep ==
  ASSUME TypeOK, PopHasTask, MutualExclusion, NoLostUpdate, SemaphoreCountsQueue,
         TasksDiffer, TasksExist, PopsFirst, [Next]_vars
  PROVE  TasksDiffer' /\ TasksExist' /\ PopsFirst'
<1>0. /\ pc \in [Progs -> Labels] /\ task \in [Progs -> Tasks] /\ queue \in [Progs -> Seq(Tasks)]
      /\ dest \in [Progs -> Progs] /\ out \in [Progs -> Tasks]
  BY DEF TypeOK
<1>1. CASE UNCHANGED vars
  <2>1. UNCHANGED <<queue, pc, task, dest, out>>
    BY <1>1 DEF vars
  <2>. QED BY <2>1, TasksKept DEF Holding, HeldProgram, Sending, Working, PopsFirst
<1>2. CASE Next
  <2>. PICK p \in Progs : Step(p)
    BY <1>2 DEF Next
  <2>1. CASE WaitForTask(p) \/ Lock(p) \/ Unlock(p) \/ ReadQueue(p) \/ PostTask(p)
    <3>1. /\ UNCHANGED <<queue, task, out>>
          /\ \A q \in Progs : q # p => pc'[q] = pc[q] /\ dest'[q] = dest[q]
      BY <1>0, <2>1 DEF WaitForTask, Lock, Unlock, ReadQueue, PostTask, Go
    <3>2. /\ Holding(p)' = Holding(p) /\ Sending(p)' = Sending(p)
          /\ Holding(p) => dest'[p] = dest[p]
          /\ pc'[p] # "pop"
      BY <1>0, <2>1 DEF WaitForTask, Lock, Unlock, ReadQueue, PostTask, Go, Holding, Sending, Working
    <3>3. TasksDiffer' /\ TasksExist'
      BY <3>1, <3>2, TasksKept DEF Holding, HeldProgram, Sending, Working
    <3>. QED BY <3>1, <3>2, <3>3 DEF PopsFirst
  <2>2. CASE ReadTask(p)
    <3>1. queue[p] # <<>>
      BY <2>2, ClaimedTaskIsThere DEF ReadTask, Go
    <3>2. /\ UNCHANGED <<queue, dest, out>> /\ pc[p] = "get" /\ pc' = [pc EXCEPT ![p] = "pop"]
          /\ task' = [task EXCEPT ![p] = Head(queue[p])]
      BY <2>2, <3>1 DEF ReadTask, Go
    <3>3. TasksDiffer' /\ TasksExist'
      BY <1>0, <3>2, TasksKept DEF Holding, HeldProgram, Sending, Working
    <3>. QED BY <1>0, <3>2, <3>3 DEF PopsFirst
  <2>3. CASE PopTask(p)
    <3>1. /\ UNCHANGED <<task, dest, out>> /\ pc[p] = "pop" /\ pc' = [pc EXCEPT ![p] = "unlockGet"]
          /\ queue[p] # <<>> /\ queue' = [queue EXCEPT ![p] = Tail(queue[p])]
      BY <2>3 DEF PopTask, Go, PopHasTask, NoLostUpdate
    <3>2. ~Holding(p) /\ Holding(p)' /\ ~Sending(p)'
      BY <1>0, <3>1 DEF Holding, Sending, Working
    <3>3. HeldProgram(p)' = QueuedProgram(p, 1)
      <4>1. task[p] = queue[p][1]
        BY <1>0, <3>1 DEF PopsFirst
      <4>. QED BY <3>1, <3>2, <4>1 DEF HeldProgram, QueuedProgram
    <3>4. \A q \in Progs : q # p => Holding(q)' = Holding(q) /\ HeldProgram(q)' = HeldProgram(q)
      BY <1>0, <3>1 DEF Holding, HeldProgram, Sending, Working
    <3>5. TasksDiffer' /\ TasksExist'
      BY <3>1, <3>2, <3>3, <3>4, TakenTask
    <3>6. PopsFirst'
      BY <1>0, <3>1 DEF PopsFirst
    <3>. QED BY <3>5, <3>6
  <2>4. CASE (\E r \in Progs : WriteProgram(p, r)) \/ Approve(p) \/ Reject(p)
    <3>1. PICK to, t : Send(p, to, t)
      BY <2>4 DEF WriteProgram, Approve, Reject
    <3>2. /\ UNCHANGED queue /\ pc[p] = "work" /\ pc' = [pc EXCEPT ![p] = "lockAdd"]
          /\ \A q \in Progs : q # p => task'[q] = task[q] /\ dest'[q] = dest[q] /\ out'[q] = out[q]
      BY <1>0, <3>1 DEF Send, Go
    <3>3. Working(p) /\ ~Sending(p) /\ Sending(p)'
      BY <1>0, <3>2 DEF Sending, Working
    <3>4. HeldProgram(p)' = HeldProgram(p)
      BY <2>4, <3>1, <3>3, SentIsSameProgram DEF HeldProgram
    <3>5. \A q \in Progs : Holding(q)' = Holding(q) /\ HeldProgram(q)' = HeldProgram(q)
      BY <1>0, <3>2, <3>3, <3>4 DEF Holding, HeldProgram, Sending, Working
    <3>6. TasksDiffer' /\ TasksExist'
      BY <3>2, <3>5, TasksKept
    <3>. QED BY <1>0, <3>2, <3>6 DEF PopsFirst
  <2>5. CASE AppendTask(p)
    <3>1. Holding(p) /\ HeldProgram(p) = ProgramOf(dest[p], out[p])
      BY <2>5 DEF AppendTask, Go, Holding, Sending, HeldProgram
    <3>2. PICK d \in Progs, t \in Tasks : d = dest[p] /\ t = out[p]
      BY <1>0
    <3>3. /\ pc[p] = "append" /\ pc' = [pc EXCEPT ![p] = "unlockAdd"] /\ UNCHANGED <<task, dest>>
          /\ \A q \in Progs : q # p => out'[q] = out[q]
      BY <1>0, <2>5 DEF AppendTask, Go
    <3>4. queue' = [queue EXCEPT ![d] = Append(queue[d], t)]
      <4>1. seen[p] = queue[d] /\ Len(queue[d]) < MAX_TASKS
        BY <3>1, <3>2, <3>3, QueueHasRoom DEF NoLostUpdate
      <4>. QED BY <2>5, <3>2, <4>1 DEF AppendTask
    <3>5. ~Holding(p)'
      BY <1>0, <3>3 DEF Holding, Sending, Working
    <3>6. \A q \in Progs : q # p => Holding(q)' = Holding(q) /\ HeldProgram(q)' = HeldProgram(q)
      BY <1>0, <3>3 DEF Holding, HeldProgram, Sending, Working
    <3>7. TasksDiffer' /\ TasksExist'
      BY <3>1, <3>2, <3>4, <3>5, <3>6, QueuedTask
    <3>8. \A q \in Progs : pc'[q] # "pop"
      BY <1>0, <3>3 DEF MutualExclusion, InCriticalSection
    <3>. QED BY <3>7, <3>8 DEF PopsFirst
  <2>. QED BY <2>1, <2>2, <2>3, <2>4, <2>5 DEF Step
<1>. QED BY <1>1, <1>2

----------------------------------------------------------------------------
TaskInv == /\ TypeOK /\ PopHasTask /\ MutualExclusion /\ NoLostUpdate
           /\ SemaphoreCountsQueue /\ TasksDiffer /\ TasksExist /\ PopsFirst

LEMMA TaskInvInit == Init => TaskInv
<1>. SUFFICES ASSUME Init PROVE TaskInv
  OBVIOUS
<1>1. MutualExclusion /\ NoLostUpdate /\ PopsFirst
  BY DEF Init, MutualExclusion, InCriticalSection, NoLostUpdate, PopsFirst
<1>2. SemaphoreCountsQueue
  <2>1. \A q \in Progs : NotYetPosted(q) = {}
    BY DEF Init, NotYetPosted
  <2>2. \A q \in Progs : sem[q] = 1 /\ Len(queue[q]) = 1 /\ Claimed(q) = 0
    BY DEF Init, Claimed
  <2>3. \A q \in Progs : Cardinality(NotYetPosted(q)) = 0
    BY <2>1, FS_EmptySet
  <2>. SUFFICES ASSUME NEW q \in Progs
                PROVE  Len(queue[q]) = sem[q] + Cardinality(NotYetPosted(q)) + Claimed(q)
    BY DEF SemaphoreCountsQueue
  <2>4. Len(queue[q]) = 1 /\ sem[q] = 1 /\ Cardinality(NotYetPosted(q)) = 0 /\ Claimed(q) = 0
    BY <2>2, <2>3
  <2>. QED BY ONLY <2>4
<1>3. \A p \in Progs : ~Holding(p)
  BY DEF Init, Holding, Sending, Working
<1>4. \A q \in Progs : 1..Len(queue[q]) = {1} /\ QueuedProgram(q, 1) = q
  BY DEF Init, QueuedProgram, ProgramOf
<1>5. TasksDiffer /\ TasksExist
  BY <1>3, <1>4 DEF TasksDiffer, TasksExist
<1>. QED BY <1>1, <1>2, <1>5, TypeInit DEF TaskInv

LEMMA TaskInvStep == TaskInv /\ [Next]_vars => TaskInv'
<1>. SUFFICES ASSUME TaskInv, [Next]_vars PROVE TaskInv'
  OBVIOUS
<1>. USE DEF TaskInv
<1>1. TypeOK' /\ PopHasTask' /\ MutualExclusion' /\ NoLostUpdate'
  BY TypeStep, MutualExclusionStep, NoLostUpdateStep
<1>2. SemaphoreCountsQueue'
  BY RoomForTasks, SemaphoreStep
<1>3. TasksDiffer' /\ TasksExist' /\ PopsFirst'
  BY TasksStep
<1>. QED BY <1>1, <1>2, <1>3

(* A semaphore counts the tasks of its queue but for those on their way, so    *)
(* that get_task always finds a task.                                          *)
THEOREM SemaphoresCorrect == Spec => []SemaphoreCountsQueue
<1>1. TaskInv => SemaphoreCountsQueue
  BY DEF TaskInv
<1>. QED BY <1>1, TaskInvInit, TaskInvStep, PTL DEF Spec

(* add_task never meets a full queue: no task is dropped. *)
THEOREM TasksNotDropped == Spec => []NoTaskDropped
<1>1. TaskInv => NoTaskDropped
  BY RoomForTasks DEF TaskInv
<1>. QED BY <1>1, TaskInvInit, TaskInvStep, PTL DEF Spec

LEMMA TasksAreCounted == ASSUME TasksDiffer, TasksExist PROVE OneTaskPerProgrammer
<1>. SUFFICES ASSUME NEW g \in Progs
              PROVE  Cardinality(QueuedTasks(g)) + Cardinality(Holders(g)) = 1
  BY DEF OneTaskPerProgrammer
<1>0. \A x : x \in QueuedTasks(g) <=>
        \E q \in Progs : \E i \in 1..Len(queue[q]) : QueuedProgram(q, i) = g /\ x = <<q, i>>
  BY DEF QueuedTasks, QueuedProgram
<1>1. ASSUME NEW q \in Progs, NEW i \in 1..Len(queue[q]), QueuedProgram(q, i) = g
      PROVE  Cardinality(QueuedTasks(g)) + Cardinality(Holders(g)) = 1
  <2>1. QueuedTasks(g) = {<<q, i>>}
    BY <1>0, <1>1 DEF TasksDiffer
  <2>2. Holders(g) = {}
    BY <1>1 DEF TasksDiffer, Holders
  <2>3. Cardinality(QueuedTasks(g)) = 1
    BY <2>1, FS_Singleton
  <2>4. Cardinality(Holders(g)) = 0
    BY <2>2, FS_EmptySet
  <2>. QED BY <2>3, <2>4
<1>2. ASSUME NEW p \in Progs, Holding(p), HeldProgram(p) = g
      PROVE  Cardinality(QueuedTasks(g)) + Cardinality(Holders(g)) = 1
  <2>1. QueuedTasks(g) = {}
    BY <1>0, <1>2 DEF TasksDiffer
  <2>2. Holders(g) = {p}
    BY <1>2 DEF TasksDiffer, Holders
  <2>3. Cardinality(QueuedTasks(g)) = 0
    BY <2>1, FS_EmptySet
  <2>4. Cardinality(Holders(g)) = 1
    BY <2>2, FS_Singleton
  <2>. QED BY <2>3, <2>4
<1>. QED BY <1>1, <1>2 DEF TasksExist

(* Every programmer has exactly one task, in a queue or in somebody's hands. *)
THEOREM OneTaskEach == Spec => []OneTaskPerProgrammer
<1>1. TaskInv => OneTaskPerProgrammer
  BY TasksAreCounted DEF TaskInv
<1>. QED BY <1>1, TaskInvInit, TaskInvStep, PTL DEF Spec

----------------------------------------------------------------------------
(* The programmers implement TaskCirculation. *)

InHand(p) == IF Sending(p) THEN <<dest[p], out[p]>> ELSE <<p, task[p]>>

(* The task of program g is t, and it is at q or on its way to q. *)
At(g, q, t) ==
  \/ q \in Progs /\ \E i \in 1..Len(queue[q]) : QueuedProgram(q, i) = g /\ queue[q][i] = t
  \/ \E p \in Progs : Holding(p) /\ HeldProgram(p) = g /\ <<q, t>> = InHand(p)

LEMMA EveryProgramIsSomewhere ==
  ASSUME TasksExist, NEW g \in Progs
  PROVE  \E q, t : At(g, q, t)
<1>1. ASSUME NEW q \in Progs, NEW i \in 1..Len(queue[q]), QueuedProgram(q, i) = g
      PROVE  At(g, q, queue[q][i])
  BY <1>1 DEF At
<1>2. ASSUME NEW p \in Progs, Holding(p), HeldProgram(p) = g
      PROVE  \E q, t : At(g, q, t)
  <2>1. PICK q, t : <<q, t>> = InHand(p)
    BY DEF InHand
  <2>2. At(g, q, t)
    BY <1>2, <2>1 DEF At
  <2>. QED BY <2>2
<1>. QED BY <1>1, <1>2 DEF TasksExist

LEMMA PlaceIs ==
  ASSUME TasksDiffer, NEW g \in Progs, NEW q, NEW t, At(g, q, t)
  PROVE  PlaceOf(g) = [at |-> Stage(t), by |-> q]
<1>1. ASSUME NEW x
      PROVE  x \in TasksOf(g) <=> \E r, u : At(g, r, u) /\ x = <<r, u>>
  <2>1. \A s : s \in QueuedTasks(g) <=>
          \E r \in Progs : \E i \in 1..Len(queue[r]) : QueuedProgram(r, i) = g /\ s = <<r, i>>
    BY DEF QueuedTasks, QueuedProgram
  <2>2. x \in {<<s[1], queue[s[1]][s[2]]>> : s \in QueuedTasks(g)} <=>
          \E r \in Progs : \E i \in 1..Len(queue[r]) :
             QueuedProgram(r, i) = g /\ x = <<r, queue[r][i]>>
    <3>1. ASSUME NEW s \in QueuedTasks(g), x = <<s[1], queue[s[1]][s[2]]>>
          PROVE  \E r \in Progs : \E i \in 1..Len(queue[r]) :
                   QueuedProgram(r, i) = g /\ x = <<r, queue[r][i]>>
      <4>0. PICK r \in Progs : \E i \in 1..Len(queue[r]) : QueuedProgram(r, i) = g /\ s = <<r, i>>
        BY <2>1
      <4>1. PICK i \in 1..Len(queue[r]) : QueuedProgram(r, i) = g /\ s = <<r, i>>
        BY <4>0
      <4>2. s[1] = r /\ s[2] = i
        BY <4>1
      <4>. QED BY <3>1, <4>1, <4>2
    <3>2. ASSUME NEW r \in Progs, NEW i \in 1..Len(queue[r]),
                 QueuedProgram(r, i) = g, x = <<r, queue[r][i]>>
          PROVE  x \in {<<s[1], queue[s[1]][s[2]]>> : s \in QueuedTasks(g)}
      <4>1. PICK s : s = <<r, i>>
        OBVIOUS
      <4>2. s \in QueuedTasks(g) /\ s[1] = r /\ s[2] = i
        BY <2>1, <3>2, <4>1
      <4>. QED BY <3>2, <4>2
    <3>. QED BY <3>1, <3>2
  <2>3. x \in {InHand(p) : p \in Holders(g)} <=>
          \E p \in Progs : Holding(p) /\ HeldProgram(p) = g /\ x = InHand(p)
    BY DEF Holders
  <2>4. TasksOf(g) = {<<s[1], queue[s[1]][s[2]]>> : s \in QueuedTasks(g)}
                       \cup {InHand(p) : p \in Holders(g)}
    BY DEF TasksOf, InHand
  <2>5. \A p : \E r, u : InHand(p) = <<r, u>>
    BY DEF InHand
  <2>. QED BY <2>2, <2>3, <2>4, <2>5 DEF At
<1>2. \A r, u : At(g, r, u) => r = q /\ u = t
  BY DEF At, TasksDiffer
<1>3. TasksOf(g) = {<<q, t>>}
  BY <1>1, <1>2
<1>4. TheTaskOf(g) = <<q, t>>
  BY <1>3 DEF TheTaskOf
<1>. QED BY <1>4 DEF PlaceOf

LEMMA PlacesAre ==
  TasksDiffer => \A g \in Progs : \A q, t : At(g, q, t) => PlaceOf(g) = [at |-> Stage(t), by |-> q]
BY PlaceIs

LEMMA PlacesWillBe ==
  (TasksDiffer => \A g \in Progs : \A q, t : At(g, q, t) => PlaceOf(g) = [at |-> Stage(t), by |-> q])'
BY PlacesAre, PTL

(* A program whose task stays where it is, is where it was. *)
LEMMA PlaceKept ==
  ASSUME TasksDiffer, TasksDiffer', NEW g \in Progs, NEW q, NEW t, At(g, q, t), At(g, q, t)'
  PROVE  PlaceOf(g)' = PlaceOf(g)
<1>1. PlaceOf(g) = [at |-> Stage(t), by |-> q]
  BY PlaceIs
<1>2. PlaceOf(g)' = [at |-> Stage(t), by |-> q]
  BY PlacesWillBe
<1>. QED BY <1>1, <1>2

LEMMA TailOfTasks ==
  ASSUME NEW s \in Seq(Tasks), s # <<>>
  PROVE  /\ Len(Tail(s)) = Len(s) - 1 /\ Len(s) \in Nat
         /\ \A k \in 1..Len(Tail(s)) : Tail(s)[k] = s[k + 1]
OBVIOUS

(* Steps that decide nothing carry tasks about, but leave the programs where   *)
(* they are.                                                                  *)
LEMMA CarryingKeepsPlaces ==
  ASSUME TaskInv, TaskInv', NEW p \in Progs,
         WaitForTask(p) \/ Lock(p) \/ Unlock(p) \/ ReadTask(p) \/ PopTask(p)
           \/ ReadQueue(p) \/ AppendTask(p) \/ PostTask(p)
  PROVE  \A g \in Progs : PlaceOf(g)' = PlaceOf(g)
<1>0. /\ pc \in [Progs -> Labels] /\ task \in [Progs -> Tasks] /\ queue \in [Progs -> Seq(Tasks)]
      /\ dest \in [Progs -> Progs] /\ out \in [Progs -> Tasks]
  BY DEF TaskInv, TypeOK
<1>. SUFFICES ASSUME NEW g \in Progs, NEW q, NEW t, At(g, q, t)
              PROVE  At(g, q, t)'
  BY EveryProgramIsSomewhere, PlaceKept DEF TaskInv
<1>1. CASE WaitForTask(p) \/ Lock(p) \/ Unlock(p) \/ ReadQueue(p) \/ PostTask(p)
  <2>1. /\ UNCHANGED <<queue, task, out>>
        /\ \A r \in Progs : r # p => pc'[r] = pc[r] /\ dest'[r] = dest[r]
    BY <1>0, <1>1 DEF WaitForTask, Lock, Unlock, ReadQueue, PostTask, Go
  <2>2. /\ Holding(p)' = Holding(p) /\ Sending(p)' = Sending(p)
        /\ Holding(p) => dest'[p] = dest[p]
    BY <1>0, <1>1 DEF WaitForTask, Lock, Unlock, ReadQueue, PostTask, Go, Holding, Sending, Working
  <2>3. \A r \in Progs : Holding(r) =>
          Holding(r)' /\ HeldProgram(r)' = HeldProgram(r) /\ InHand(r)' = InHand(r)
    BY <2>1, <2>2 DEF Holding, HeldProgram, InHand, Sending, Working
  <2>. QED BY <2>1, <2>3 DEF At, QueuedProgram
<1>2. CASE ReadTask(p)
  <2>1. queue[p] # <<>>
    BY <1>2, ClaimedTaskIsThere DEF ReadTask, Go, TaskInv
  <2>2. /\ UNCHANGED <<queue, dest, out>> /\ pc[p] = "get" /\ pc' = [pc EXCEPT ![p] = "pop"]
        /\ task' = [task EXCEPT ![p] = Head(queue[p])]
    BY <1>2, <2>1 DEF ReadTask, Go
  <2>3. \A r \in Progs : Holding(r) =>
          Holding(r)' /\ HeldProgram(r)' = HeldProgram(r) /\ InHand(r)' = InHand(r)
    BY <1>0, <2>2 DEF Holding, HeldProgram, InHand, Sending, Working
  <2>. QED BY <2>2, <2>3 DEF At, QueuedProgram
<1>3. CASE PopTask(p)
  <2>1. /\ UNCHANGED <<task, dest, out>> /\ pc[p] = "pop" /\ pc' = [pc EXCEPT ![p] = "unlockGet"]
        /\ queue[p] # <<>> /\ queue' = [queue EXCEPT ![p] = Tail(queue[p])]
    BY <1>3 DEF PopTask, Go, PopHasTask, NoLostUpdate, TaskInv
  <2>2. \A r \in Progs : Holding(r) =>
          Holding(r)' /\ HeldProgram(r)' = HeldProgram(r) /\ InHand(r)' = InHand(r)
    BY <1>0, <2>1 DEF Holding, HeldProgram, InHand, Sending, Working
  <2>3. ASSUME q \in Progs, NEW i \in 1..Len(queue[q]), QueuedProgram(q, i) = g, queue[q][i] = t
        PROVE  At(g, q, t)'
    <3>1. CASE q # p
      <4>1. queue'[q] = queue[q]
        BY <1>0, <2>1, <2>3, <3>1
      <4>. QED BY <2>3, <4>1 DEF At, QueuedProgram
    <3>2. CASE q = p /\ i = 1
      <4>1. task[p] = t
        BY <1>0, <2>1, <2>3, <3>2 DEF PopsFirst, TaskInv
      <4>2. Holding(p)' /\ HeldProgram(p)' = g /\ InHand(p)' = <<p, t>>
        BY <1>0, <2>1, <2>3, <3>2, <4>1
        DEF Holding, HeldProgram, InHand, Sending, Working, QueuedProgram
      <4>. QED BY <3>2, <4>2 DEF At
    <3>3. CASE q = p /\ i # 1
      <4>0. queue[p] \in Seq(Tasks) /\ queue'[p] = Tail(queue[p]) /\ i \in 1..Len(queue[p])
        BY <1>0, <2>1, <3>3
      <4>1. PICK j : j = i - 1
        OBVIOUS
      <4>2. j \in 1..Len(queue'[p]) /\ queue'[p][j] = queue[p][i]
        <5>1. /\ Len(queue'[p]) = Len(queue[p]) - 1 /\ Len(queue[p]) \in Nat
              /\ \A k \in 1..Len(queue'[p]) : queue'[p][k] = queue[p][k + 1]
          BY <2>1, <4>0, TailOfTasks
        <5>2. j \in 1..Len(queue'[p]) /\ j + 1 = i
          BY <3>3, <4>0, <4>1, <5>1
        <5>. QED BY <5>1, <5>2
      <4>3. QueuedProgram(p, j)' = g /\ queue'[p][j] = t
        BY <2>3, <3>3, <4>2 DEF QueuedProgram
      <4>. QED BY <3>3, <4>2, <4>3 DEF At
    <3>. QED BY <3>1, <3>2, <3>3
  <2>. QED BY <2>2, <2>3 DEF At
<1>4. CASE AppendTask(p)
  <2>1. Holding(p) /\ HeldProgram(p) = ProgramOf(dest[p], out[p]) /\ InHand(p) = <<dest[p], out[p]>>
    BY <1>4 DEF AppendTask, Go, Holding, Sending, HeldProgram, InHand
  <2>2. PICK d \in Progs, u \in Tasks : d = dest[p] /\ u = out[p]
    BY <1>0
  <2>3. /\ pc[p] = "append" /\ pc' = [pc EXCEPT ![p] = "unlockAdd"] /\ UNCHANGED <<task, dest>>
        /\ \A r \in Progs : r # p => out'[r] = out[r]
    BY <1>0, <1>4 DEF AppendTask, Go
  <2>4. queue' = [queue EXCEPT ![d] = Append(queue[d], u)]
    <3>1. seen[p] = queue[d] /\ Len(queue[d]) < MAX_TASKS
      BY <2>1, <2>2, <2>3, QueueHasRoom DEF NoLostUpdate, TaskInv
    <3>. QED BY <1>4, <2>2, <3>1 DEF AppendTask
  <2>5. \A r \in Progs : r # p /\ Holding(r) =>
          Holding(r)' /\ HeldProgram(r)' = HeldProgram(r) /\ InHand(r)' = InHand(r)
    BY <1>0, <2>3 DEF Holding, HeldProgram, InHand, Sending, Working
  <2>6. \A r \in Progs : \A i \in 1..Len(queue[r]) :
          i \in 1..Len(queue'[r]) /\ queue'[r][i] = queue[r][i]
    <3>1. \A r \in Progs : r # d => queue'[r] = queue[r]
      BY <1>0, <2>4
    <3>2. queue[d] \in Seq(Tasks) /\ queue'[d] = Append(queue[d], u)
      BY <1>0, <2>4
    <3>3. \A i \in 1..Len(queue[d]) : i \in 1..Len(queue'[d]) /\ queue'[d][i] = queue[d][i]
      BY <3>2
    <3>. QED BY <3>1, <3>3
  <2>. PICK h : h = HeldProgram(p)
    OBVIOUS
  <2>7. At(h, d, u)'
    <3>0. queue[d] \in Seq(Tasks) /\ queue'[d] = Append(queue[d], u)
      BY <1>0, <2>4
    <3>1. PICK n : n = Len(queue[d]) + 1
      OBVIOUS
    <3>2. n \in 1..Len(queue'[d]) /\ queue'[d][n] = u
      BY <3>0, <3>1
    <3>3. QueuedProgram(d, n)' = h
      BY <2>1, <2>2, <3>2 DEF QueuedProgram
    <3>. QED BY <3>2, <3>3 DEF At
  <2>8. ASSUME q \in Progs, NEW i \in 1..Len(queue[q]), QueuedProgram(q, i) = g, queue[q][i] = t
        PROVE  At(g, q, t)'
    BY <2>6, <2>8 DEF At, QueuedProgram
  <2>9. ASSUME NEW r \in Progs, Holding(r), HeldProgram(r) = g, <<q, t>> = InHand(r)
        PROVE  At(g, q, t)'
    <3>1. CASE r = p
      BY <2>1, <2>2, <2>7, <2>9, <3>1
    <3>2. CASE r # p
      BY <2>5, <2>9, <3>2 DEF At
    <3>. QED BY <3>1, <3>2
  <2>. QED BY <2>8, <2>9 DEF At
<1>. QED BY <1>1, <1>2, <1>3, <1>4

(* The abstract place of every program, as ProgrammersRefinement maps it. *)
place == [g \in Progs |-> PlaceOf(g)]

(* A process that decides what to send moves one program as TaskCirculation    *)
(* allows, or looks at it once more.                                          *)
LEMMA DecidingMovesPlace ==
  ASSUME TaskInv, TaskInv', NEW p \in Progs,
         (\E r \in Progs : WriteProgram(p, r)) \/ Approve(p) \/ Reject(p)
  PROVE  Circulation!Next \/ place' = place
<1>0. /\ pc \in [Progs -> Labels] /\ task \in [Progs -> Tasks]
      /\ dest \in [Progs -> Progs] /\ out \in [Progs -> Tasks]
  BY DEF TaskInv, TypeOK
<1>1. PICK to, t : Send(p, to, t)
  BY DEF WriteProgram, Approve, Reject
<1>2. /\ UNCHANGED queue /\ pc[p] = "work" /\ pc' = [pc EXCEPT ![p] = "lockAdd"]
      /\ \A q \in Progs : q # p => task'[q] = task[q] /\ dest'[q] = dest[q] /\ out'[q] = out[q]
      /\ dest'[p] = to /\ out'[p] = t
  BY <1>0, <1>1 DEF Send, Go
<1>3. Holding(p) /\ ~Sending(p) /\ Holding(p)' /\ Sending(p)'
  BY <1>0, <1>2 DEF Holding, Sending, Working
<1>4. \A q \in Progs : q # p /\ Holding(q) =>
        Holding(q)' /\ HeldProgram(q)' = HeldProgram(q) /\ InHand(q)' = InHand(q)
  BY <1>0, <1>2 DEF Holding, HeldProgram, InHand, Sending, Working
<1>5. PICK h \in Progs : h = HeldProgram(p)
  BY HeldIsProg DEF TaskInv
<1>6. h = ProgramOf(p, task[p]) /\ HeldProgram(p)' = h
  BY <1>1, <1>3, <1>5, SentIsSameProgram DEF HeldProgram, TaskInv
<1>7. PlaceOf(h) = [at |-> Stage(task[p]), by |-> p]
  <2>1. At(h, p, task[p])
    BY <1>3, <1>5 DEF At, InHand
  <2>. QED BY <2>1, PlaceIs DEF TaskInv
<1>8. PlaceOf(h)' = [at |-> Stage(t), by |-> to]
  <2>1. At(h, to, t)'
    BY <1>2, <1>3, <1>6 DEF At, InHand
  <2>. QED BY <2>1, PlacesWillBe DEF TaskInv
<1>9. \A g \in Progs : g # h => PlaceOf(g)' = PlaceOf(g)
  <2>. SUFFICES ASSUME NEW g \in Progs, g # h, NEW q, NEW u, At(g, q, u)
                PROVE  At(g, q, u)'
    BY EveryProgramIsSomewhere, PlaceKept DEF TaskInv
  <2>1. CASE q \in Progs /\ \E i \in 1..Len(queue[q]) : QueuedProgram(q, i) = g /\ queue[q][i] = u
    BY <1>2, <2>1 DEF At, QueuedProgram
  <2>2. ASSUME NEW r \in Progs, Holding(r), HeldProgram(r) = g, <<q, u>> = InHand(r)
        PROVE  At(g, q, u)'
    <3>1. r # p
      BY <1>5, <2>2
    <3>. QED BY <1>4, <2>2, <3>1 DEF At
  <2>. QED BY <2>1, <2>2 DEF At
<1>10. place' = [place EXCEPT ![h] = [at |-> Stage(t), by |-> to]]
  BY <1>8, <1>9 DEF place
<1>11. place[h] = [at |-> Stage(task[p]), by |-> p]
  BY <1>7 DEF place
<1>12. task[p] \in Tasks
  BY <1>0
<1>13. CASE \E r \in Progs : WriteProgram(p, r)
  <2>1. task[p] = Own /\ to \in Progs /\ to # p /\ t = p
    BY <1>0, <1>2, <1>13 DEF WriteProgram, Send
  <2>2. h = p /\ Stage(task[p]) = "author" /\ Stage(t) = "review"
    BY <1>6, <2>1, ProgrammersAssumption DEF ProgramOf, Stage, Own, IsReview, Progs
  <2>3. Circulation!Submit(h, to)
    BY <1>10, <1>11, <2>1, <2>2 DEF Circulation!Submit, place
  <2>. QED BY <2>1, <2>3 DEF Circulation!Next
<1>14. CASE Approve(p)
  <2>1. to = Author(task[p]) /\ t = Own /\ task[p] # Own
    BY <1>0, <1>2, <1>12, <1>14, ProgrammersAssumption DEF Approve, Send, Own, IsReview, IsReReview
  <2>2. h = to /\ Stage(task[p]) # "author" /\ Stage(t) = "author"
    BY <1>6, <2>1 DEF ProgramOf, Stage
  <2>3. Circulation!Approve(h)
    BY <1>10, <1>11, <2>2 DEF Circulation!Approve, Circulation!WithAuthor, place
  <2>. QED BY <2>3 DEF Circulation!Next
<1>15. CASE Reject(p)
  <2>1. to = p /\ \/ IsReview(task[p]) /\ t = task[p] + NUM_PROGS
                  \/ IsReReview(task[p]) /\ t = task[p]
    BY <1>0, <1>2, <1>15 DEF Reject, Send
  <2>2. CASE IsReview(task[p]) /\ t = task[p] + NUM_PROGS
    <3>1. Stage(task[p]) = "review" /\ Stage(t) = "rereview"
      BY <1>12, <2>2, ProgrammersAssumption DEF Stage, Own, IsReview, Tasks
    <3>2. place' = [place EXCEPT ![h].at = "rereview"]
      <4>1. [place[h] EXCEPT !.at = "rereview"] = [at |-> "rereview", by |-> p]
        BY <1>11
      <4>. QED BY <1>10, <2>1, <3>1, <4>1
    <3>3. Circulation!Reject(h)
      BY <1>11, <3>1, <3>2 DEF Circulation!Reject, place
    <3>. QED BY <3>3 DEF Circulation!Next
  <2>3. CASE IsReReview(task[p]) /\ t = task[p]
    BY <1>10, <1>11, <2>1, <2>3 DEF place
  <2>. QED BY <2>1, <2>2, <2>3
<1>. QED BY <1>13, <1>14, <1>15

LEMMA CirculationStep == TaskInv /\ TaskInv' /\ [Next]_vars => [Circulation!Next]_place
<1>. SUFFICES ASSUME TaskInv, TaskInv', [Next]_vars PROVE Circulation!Next \/ place' = place
  OBVIOUS
<1>1. CASE UNCHANGED vars
  <2>1. \A g, q, t : At(g, q, t) => At(g, q, t)'
    BY <1>1 DEF vars, At, QueuedProgram, Holding, HeldProgram, InHand, Sending, Working
  <2>2. \A g \in Progs : PlaceOf(g)' = PlaceOf(g)
    BY <2>1, EveryProgramIsSomewhere, PlaceKept DEF TaskInv
  <2>. QED BY <2>2 DEF place
<1>2. ASSUME NEW p \in Progs, Step(p) PROVE Circulation!Next \/ place' = place
  <2>1. CASE (\E r \in Progs : WriteProgram(p, r)) \/ Approve(p) \/ Reject(p)
    BY <2>1, DecidingMovesPlace
  <2>2. CASE WaitForTask(p) \/ Lock(p) \/ Unlock(p) \/ ReadTask(p) \/ PopTask(p)
               \/ ReadQueue(p) \/ AppendTask(p) \/ PostTask(p)
    <3>1. \A g \in Progs : PlaceOf(g)' = PlaceOf(g)
      BY <2>2, CarryingKeepsPlaces
    <3>. QED BY <3>1 DEF place
  <2>. QED BY <1>2, <2>1, <2>2 DEF Step
<1>. QED BY <1>1, <1>2 DEF Next

LEMMA CirculationInit == Init => Circulation!Init
<1>. SUFFICES ASSUME Init PROVE place = [g \in Progs |-> [at |-> "author", by |-> g]]
  BY DEF Circulation!Init, Circulation!WithAuthor, place
<1>. SUFFICES ASSUME NEW g \in Progs PROVE PlaceOf(g) = [at |-> "author", by |-> g]
  BY DEF place
<1>1. 1 \in 1..Len(queue[g]) /\ queue[g][1] = Own /\ QueuedProgram(g, 1) = g
  BY DEF Init, QueuedProgram, ProgramOf
<1>2. At(g, g, Own)
  BY <1>1 DEF At
<1>. QED BY <1>2, PlaceIs, TaskInvInit DEF TaskInv, Stage

(* Queues, semaphores and the mutex only carry the programs about: every step  *)
(* sends one program on as TaskCirculation allows, or moves none.             *)
THEOREM CirculationImplemented == Spec => ImplementsCirculation
<1>1. Spec => []TaskInv
  BY TaskInvInit, TaskInvStep, PTL DEF Spec
<1>. QED BY <1>1, CirculationInit, CirculationStep, PTL
         DEF Spec, ImplementsCirculation, Circulation!Spec, place
=============================================================================
