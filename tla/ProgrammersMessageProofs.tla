----------------------- MODULE ProgrammersMessageProofs -----------------------
(***************************************************************************)
(* Proofs about the programmers that send messages, for every number of    *)
(* programmers and every queue limit that holds a task of each: over       *)
(* System V queues with any number of restarts (part 9), and over POSIX    *)
(* queues that block (part 10).                                            *)
(***************************************************************************)
EXTENDS ProgrammersPosix, FiniteSetTheorems, TLAPS

Labels == {"wait", "get", "work", "send", "post"}

Types ==
  /\ msgs \in [Progs -> Seq(Tasks)] /\ sem \in [Progs -> Nat]
  /\ pc \in [Progs -> Labels] /\ task \in [Progs -> Tasks]
  /\ dest \in [Progs -> Progs] /\ out \in [Progs -> Tasks]

LEMMA ProgsAreCounted ==
  /\ NUM_PROGS \in Nat /\ Progs \subseteq Nat
  /\ IsFiniteSet(Progs) /\ Cardinality(Progs) = NUM_PROGS
BY ProgrammersAssumption, FS_Interval DEF Progs

(* The program a reviewer works on belongs to a programmer. *)
LEMMA AuthorIsProg ==
  ASSUME NEW t \in Tasks, IsReview(t) \/ IsReReview(t)
  PROVE  Author(t) \in Progs
BY ProgrammersAssumption DEF Tasks, Own, IsReview, IsReReview, Author, Progs

LEMMA ProgsAreTasks == Progs \subseteq Tasks /\ Own \in Tasks
BY ProgrammersAssumption DEF Progs, Tasks, Own

(* What the three ways to decide have in common. *)
Decides(p) ==
  \E to \in Progs, t \in Tasks :
    /\ Decide(p, to, t)
    /\ t # Own => Author(t) # to \/ (to = p /\ task[p] # Own /\ Author(t) = Author(task[p]))

LEMMA DecisionDecides ==
  ASSUME Types, NEW p \in Progs, WriteProgram(p) \/ Approve(p) \/ Reject(p)
  PROVE  Decides(p)
<1>0. task[p] \in Tasks /\ p \in Tasks
  BY ProgsAreTasks DEF Types
<1>1. CASE WriteProgram(p)
  <2>1. PICK to \in Progs \ {p} : Decide(p, to, p)
    BY <1>1 DEF WriteProgram
  <2>2. Author(p) = p
    BY ProgrammersAssumption DEF Author, IsReReview, Progs
  <2>. QED BY <1>0, <2>1, <2>2 DEF Decides
<1>2. CASE Approve(p)
  <2>1. Author(task[p]) \in Progs
    BY <1>0, <1>2, AuthorIsProg DEF Approve
  <2>. QED BY <1>2, <2>1, ProgsAreTasks DEF Approve, Decides
<1>3. CASE Reject(p)
  <2>1. CASE IsReview(task[p]) /\ Decide(p, p, task[p] + NUM_PROGS)
    <3>1. /\ task[p] + NUM_PROGS \in Tasks /\ task[p] # Own
          /\ Author(task[p] + NUM_PROGS) = Author(task[p])
      BY <1>0, <2>1, ProgrammersAssumption
      DEF Tasks, Own, IsReview, IsReReview, Author
    <3>. QED BY <2>1, <3>1 DEF Decides
  <2>2. CASE IsReReview(task[p]) /\ Decide(p, p, task[p])
    <3>1. task[p] # Own
      BY <2>2, ProgrammersAssumption DEF Own, IsReReview
    <3>. QED BY <1>0, <2>2, <3>1 DEF Decides
  <2>. QED BY <1>3, <2>1, <2>2 DEF Reject
<1>. QED BY <1>1, <1>2, <1>3

(* A step without its guesses. *)
LEMMA StepCases ==
  ASSUME Types, NEW p \in Progs, Step(p)
  PROVE  WaitForTask(p) \/ GetTask(p) \/ Decides(p) \/ SendTask(p) \/ PostTask(p)
BY DecisionDecides DEF Step

LEMMA TypesInit == Init => Types
BY ProgsAreTasks DEF Init, Types, Labels, Everyone, Self

LEMMA TypesStep ==
  ASSUME Types, NEW p \in Progs, Step(p)
  PROVE  Types'
<1>. USE DEF Types, Labels, Go
<1>1. CASE WaitForTask(p)
  BY <1>1 DEF WaitForTask
<1>2. CASE GetTask(p)
  <2>1. msgs[p] # <<>> => Head(msgs[p]) \in Tasks /\ Tail(msgs[p]) \in Seq(Tasks)
    OBVIOUS
  <2>. QED BY <1>2, <2>1, ProgsAreTasks DEF GetTask
<1>3. CASE Decides(p)
  BY <1>3, ProgsAreTasks DEF Decides, Decide
<1>4. CASE SendTask(p)
  <2>1. AddTask(msgs[dest[p]], out[p]) \in Seq(Tasks)
    BY DEF AddTask
  <2>. QED BY <1>4, <2>1, ProgsAreTasks DEF SendTask
<1>5. CASE PostTask(p)
  BY <1>5 DEF PostTask
<1>. QED BY <1>1, <1>2, <1>3, <1>4, <1>5, StepCases

LEMMA TypesRestart == ASSUME Types, Restart PROVE Types'
<1>1. \A p \in Progs : AddTask(msgs[p], Own) \in Seq(Tasks)
  BY ProgsAreTasks DEF Types, AddTask
<1>. QED BY <1>1, ProgsAreTasks DEF Restart, Types, Labels, Everyone, Self

----------------------------------------------------------------------------
(* Turns.  Every programmer that is not waiting has taken a turn from a        *)
(* semaphore; with those still in the semaphores there are NUM_PROGS of them.  *)

Turns == {s \in Progs \X Nat : s[2] \in 1..sem[s[1]]}
Busy == {p \in Progs : pc[p] # "wait"}

TurnsShared ==
  /\ IsFiniteSet(Turns)
  /\ Cardinality(Turns) + Cardinality(Busy) = NUM_PROGS

(* Those who have sent q a message they have not announced. *)
NotYetPosted(q) == {p \in Progs : pc[p] = "post" /\ dest[p] = q}
Claimed(q) == IF pc[q] = "get" THEN 1 ELSE 0

(* The messages programmer q has been or will be told of. *)
Promised(q) == sem[q] + Cardinality(NotYetPosted(q)) + Claimed(q)

LEMMA SubsetsAreCounted ==
  ASSUME NEW q
  PROVE  /\ IsFiniteSet(Busy) /\ Cardinality(Busy) \in Nat
         /\ IsFiniteSet(Busy') /\ Cardinality(Busy') \in Nat
         /\ IsFiniteSet(NotYetPosted(q)) /\ Cardinality(NotYetPosted(q)) \in Nat
         /\ IsFiniteSet(NotYetPosted(q)') /\ Cardinality(NotYetPosted(q)') \in Nat
<1>1. Busy \in SUBSET Progs /\ Busy' \in SUBSET Progs
  BY DEF Busy
<1>2. NotYetPosted(q) \in SUBSET Progs /\ NotYetPosted(q)' \in SUBSET Progs
  BY DEF NotYetPosted
<1>. QED BY <1>1, <1>2, ProgsAreCounted, FS_Subset, FS_CardinalityType

(* At the start, and after every restart, each semaphore holds one turn. *)
LEMMA TurnsAtStart ==
  (sem = Everyone(1) /\ pc = Everyone("wait")) => TurnsShared /\ \A q \in Progs : Promised(q) = 1
<1>. SUFFICES ASSUME sem = Everyone(1), pc = Everyone("wait")
              PROVE  TurnsShared /\ \A q \in Progs : Promised(q) = 1
  OBVIOUS
<1>1. Turns = Progs \X {1}
  <2>1. \A n \in Nat : n \in 1..1 <=> n = 1
    OBVIOUS
  <2>2. \A s \in Progs \X Nat : sem[s[1]] = 1
    BY DEF Everyone
  <2>. QED BY <2>1, <2>2 DEF Turns
<1>2. IsFiniteSet({1}) /\ Cardinality({1}) = 1
  BY FS_Singleton
<1>3. IsFiniteSet(Turns) /\ Cardinality(Turns) = NUM_PROGS
  BY <1>1, <1>2, ProgsAreCounted, FS_Product
<1>4. Cardinality(Busy) = 0 /\ \A q : Cardinality(NotYetPosted(q)) = 0
  <2>1. Busy = {} /\ \A q : NotYetPosted(q) = {}
    BY DEF Busy, NotYetPosted, Everyone
  <2>. QED BY <2>1, FS_EmptySet
<1>5. TurnsShared
  BY <1>3, <1>4, ProgsAreCounted DEF TurnsShared
<1>6. ASSUME NEW q \in Progs PROVE Promised(q) = 1
  <2>1. sem[q] = 1 /\ Claimed(q) = 0 /\ Cardinality(NotYetPosted(q)) = 0
    BY <1>4 DEF Claimed, Everyone
  <2>. QED BY <2>1 DEF Promised
<1>. QED BY <1>5, <1>6

LEMMA TurnsWillBeAtStart ==
  (sem' = Everyone(1)' /\ pc' = Everyone("wait")') =>
    TurnsShared' /\ \A q \in Progs : Promised(q)' = 1
<1>1. (sem = Everyone(1) /\ pc = Everyone("wait") => TurnsShared /\ \A q \in Progs : Promised(q) = 1)'
  BY TurnsAtStart, PTL
<1>. QED BY <1>1

(* The step that takes a turn, and the one that gives one back. *)
LEMMA TurnTaken ==
  ASSUME Types, TurnsShared, NEW p \in Progs, WaitForTask(p)
  PROVE  TurnsShared' /\ \A q \in Progs : Promised(q)' = Promised(q)
<1>1. /\ pc[p] = "wait" /\ pc' = [pc EXCEPT ![p] = "get"] /\ sem[p] > 0
      /\ sem' = [sem EXCEPT ![p] = sem[p] - 1] /\ dest' = dest
  BY DEF WaitForTask, Go
<1>2. pc \in [Progs -> Labels] /\ sem \in [Progs -> Nat]
  BY DEF Types
<1>3. Turns' = Turns \ {<<p, sem[p]>>} /\ <<p, sem[p]>> \in Turns
  <2>1. ASSUME NEW q \in Progs, NEW n \in Nat
        PROVE  n \in 1..sem'[q] <=> n \in 1..sem[q] /\ <<q, n>> # <<p, sem[p]>>
    <3>1. CASE q = p
      BY <1>1, <1>2, <3>1
    <3>2. CASE q # p
      BY <1>1, <1>2, <3>2
    <3>. QED BY <3>1, <3>2
  <2>2. sem[p] \in Nat /\ sem[p] \in 1..sem[p]
    BY <1>1, <1>2
  <2>. QED BY <2>1, <2>2 DEF Turns
<1>4. Busy' = Busy \cup {p} /\ p \notin Busy
  BY <1>1, <1>2 DEF Busy
<1>5. IsFiniteSet(Turns') /\ Cardinality(Turns') = Cardinality(Turns) - 1
  BY <1>3, FS_RemoveElement DEF TurnsShared
<1>6. Cardinality(Busy') = Cardinality(Busy) + 1
  BY <1>4, SubsetsAreCounted, FS_AddElement
<1>7. Cardinality(Turns) \in Nat /\ Cardinality(Busy) \in Nat
  BY SubsetsAreCounted, FS_CardinalityType DEF TurnsShared
<1>8. TurnsShared'
  BY <1>5, <1>6, <1>7 DEF TurnsShared
<1>9. ASSUME NEW q \in Progs PROVE Promised(q)' = Promised(q)
  <2>1. NotYetPosted(q)' = NotYetPosted(q)
    BY <1>1, <1>2 DEF NotYetPosted
  <2>2. CASE q = p
    <3>1. sem'[q] = sem[q] - 1 /\ Claimed(q) = 0 /\ Claimed(q)' = 1
      BY <1>1, <1>2, <2>2 DEF Claimed
    <3>. QED BY <1>2, <2>1, <3>1, SubsetsAreCounted DEF Promised
  <2>3. CASE q # p
    BY <1>1, <1>2, <2>1, <2>3 DEF Claimed, Promised
  <2>. QED BY <2>2, <2>3
<1>. QED BY <1>8, <1>9

LEMMA TurnGiven ==
  ASSUME Types, TurnsShared, NEW p \in Progs, PostTask(p)
  PROVE  TurnsShared' /\ \A q \in Progs : Promised(q)' = Promised(q)
<1>0. PICK d \in Progs : d = dest[p]
  BY DEF Types
<1>1. /\ pc[p] = "post" /\ pc' = [pc EXCEPT ![p] = "wait"]
      /\ sem' = [sem EXCEPT ![d] = sem[d] + 1]
      /\ \A q \in Progs : q # p => dest'[q] = dest[q]
  BY <1>0 DEF PostTask, Go, Types
<1>2. pc \in [Progs -> Labels] /\ sem \in [Progs -> Nat]
  BY DEF Types
<1>3. Turns' = Turns \cup {<<d, sem[d] + 1>>} /\ <<d, sem[d] + 1>> \notin Turns
  <2>1. ASSUME NEW q \in Progs, NEW n \in Nat
        PROVE  n \in 1..sem'[q] <=> n \in 1..sem[q] \/ <<q, n>> = <<d, sem[d] + 1>>
    <3>1. CASE q = d
      BY <1>1, <1>2, <3>1
    <3>2. CASE q # d
      BY <1>1, <1>2, <3>2
    <3>. QED BY <3>1, <3>2
  <2>2. sem[d] + 1 \in Nat /\ sem[d] + 1 \notin 1..sem[d]
    BY <1>2
  <2>. QED BY <2>1, <2>2 DEF Turns
<1>4. Busy' = Busy \ {p} /\ p \in Busy
  BY <1>1, <1>2 DEF Busy
<1>5. IsFiniteSet(Turns') /\ Cardinality(Turns') = Cardinality(Turns) + 1
  BY <1>3, FS_AddElement DEF TurnsShared
<1>6. Cardinality(Busy') = Cardinality(Busy) - 1
  BY <1>4, SubsetsAreCounted, FS_RemoveElement
<1>7. Cardinality(Turns) \in Nat /\ Cardinality(Busy) \in Nat
  BY SubsetsAreCounted, FS_CardinalityType DEF TurnsShared
<1>8. TurnsShared'
  BY <1>5, <1>6, <1>7 DEF TurnsShared
<1>9. ASSUME NEW q \in Progs PROVE Promised(q)' = Promised(q)
  <2>0. Claimed(q)' = Claimed(q)
    BY <1>1, <1>2 DEF Claimed
  <2>1. CASE q = d
    <3>1. NotYetPosted(q)' = NotYetPosted(q) \ {p} /\ p \in NotYetPosted(q)
      BY <1>0, <1>1, <1>2, <2>1 DEF NotYetPosted
    <3>2. Cardinality(NotYetPosted(q)') = Cardinality(NotYetPosted(q)) - 1
      BY <3>1, SubsetsAreCounted, FS_RemoveElement
    <3>3. sem'[q] = sem[q] + 1 /\ sem[q] \in Nat /\ Claimed(q) \in Nat
      BY <1>1, <1>2, <2>1 DEF Claimed
    <3>. QED BY <2>0, <3>2, <3>3, SubsetsAreCounted DEF Promised
  <2>2. CASE q # d
    <3>1. NotYetPosted(q)' = NotYetPosted(q)
      BY <1>0, <1>1, <1>2, <2>2 DEF NotYetPosted
    <3>. QED BY <1>1, <1>2, <2>0, <2>2, <3>1 DEF Promised
  <2>. QED BY <2>1, <2>2
<1>. QED BY <1>8, <1>9

LEMMA TurnsKept ==
  ASSUME TurnsShared, sem' = sem, \A q \in Progs : pc'[q] = "wait" <=> pc[q] = "wait"
  PROVE  TurnsShared'
<1>1. Turns' = Turns /\ Busy' = Busy
  BY DEF Turns, Busy
<1>. QED BY <1>1 DEF TurnsShared

(* A message that is about to be sent is promised to nobody yet: there is room *)
(* for it.                                                                     *)
LEMMA PromisesAreShared ==
  ASSUME Types, TurnsShared, NEW p \in Progs, pc[p] = "send", NEW q \in Progs
  PROVE  Promised(q) + 1 <= NUM_PROGS
<1>. DEFINE Mine == {q} \X (1..sem[q])
            Claiming == {r \in {q} : pc[r] = "get"}
            Others == (NotYetPosted(q) \cup Claiming) \cup {p}
<1>0. sem[q] \in Nat
  BY DEF Types
<1>1. IsFiniteSet(1..sem[q]) /\ Cardinality(1..sem[q]) = sem[q]
  BY <1>0, FS_Interval
<1>2. IsFiniteSet({q}) /\ Cardinality({q}) = 1
  BY FS_Singleton
<1>3. IsFiniteSet(Mine) /\ Cardinality(Mine) = sem[q]
  <2>. HIDE DEF Mine
  <2>1. IsFiniteSet(Mine) /\ Cardinality(Mine) = Cardinality({q}) * Cardinality(1..sem[q])
    BY <1>1, <1>2, FS_Product DEF Mine
  <2>. QED BY <1>0, <1>1, <1>2, <2>1
<1>4. Mine \in SUBSET Turns
  BY <1>0 DEF Turns
<1>5. sem[q] <= Cardinality(Turns)
  BY <1>3, <1>4, FS_Subset DEF TurnsShared
<1>6. IsFiniteSet(Claiming) /\ Cardinality(Claiming) = Claimed(q)
  <2>1. CASE pc[q] = "get"
    <3>1. Claiming = {q}
      BY <2>1
    <3>. QED BY <1>2, <2>1, <3>1 DEF Claimed
  <2>2. CASE pc[q] # "get"
    <3>1. Claiming = {}
      BY <2>2
    <3>. QED BY <2>2, <3>1, FS_EmptySet DEF Claimed
  <2>. QED BY <2>1, <2>2
<1>7. /\ IsFiniteSet(NotYetPosted(q) \cup Claiming)
      /\ Cardinality(NotYetPosted(q) \cup Claiming) = Cardinality(NotYetPosted(q)) + Claimed(q)
  <2>1. NotYetPosted(q) \cap Claiming = {}
    BY DEF NotYetPosted
  <2>2. Cardinality(NotYetPosted(q) \cap Claiming) = 0
    BY <2>1, FS_EmptySet
  <2>3. Claimed(q) \in Nat
    BY DEF Claimed
  <2>. HIDE DEF Claiming
  <2>4. /\ IsFiniteSet(NotYetPosted(q) \cup Claiming)
        /\ Cardinality(NotYetPosted(q) \cup Claiming) =
             Cardinality(NotYetPosted(q)) + Cardinality(Claiming)
               - Cardinality(NotYetPosted(q) \cap Claiming)
    BY <1>6, SubsetsAreCounted, FS_Union
  <2>. QED BY <1>6, <2>2, <2>3, <2>4, SubsetsAreCounted
<1>8. p \notin NotYetPosted(q) \cup Claiming
  BY DEF NotYetPosted
<1>9. IsFiniteSet(Others) /\ Cardinality(Others) = Cardinality(NotYetPosted(q)) + Claimed(q) + 1
  <2>. HIDE DEF Claiming
  <2>. QED BY <1>7, <1>8, FS_AddElement
<1>10. Others \in SUBSET Busy
  BY DEF Busy, NotYetPosted
<1>11. Cardinality(NotYetPosted(q)) + Claimed(q) + 1 <= Cardinality(Busy)
  <2>. HIDE DEF Others
  <2>. QED BY <1>9, <1>10, SubsetsAreCounted, FS_Subset
<1>12. Cardinality(Turns) \in Nat /\ Cardinality(Busy) \in Nat
       /\ Cardinality(NotYetPosted(q)) \in Nat /\ Claimed(q) \in Nat
  BY SubsetsAreCounted, FS_CardinalityType DEF TurnsShared, Claimed
<1>13. Cardinality(Turns) + Cardinality(Busy) = NUM_PROGS /\ NUM_PROGS \in Nat
  BY ProgsAreCounted DEF TurnsShared
<1>. HIDE DEF Mine, Claiming, Others
<1>. QED BY <1>0, <1>5, <1>11, <1>12, <1>13 DEF Promised

(* What the steps in between do with the promises. *)
LEMMA PromisesMove ==
  ASSUME Types, NEW p \in Progs,
         GetTask(p) \/ Decides(p) \/ SendTask(p), NEW q \in Progs
  PROVE  /\ sem' = sem /\ \A r \in Progs : pc'[r] = "wait" <=> pc[r] = "wait"
         /\ Promised(q) \in Nat
         /\ GetTask(p) => Promised(q)' = IF q = p THEN Promised(q) - 1 ELSE Promised(q)
         /\ Decides(p) => Promised(q)' = Promised(q)
         /\ SendTask(p) => Promised(q)' = IF q = dest[p] THEN Promised(q) + 1 ELSE Promised(q)
<1>0. pc \in [Progs -> Labels] /\ sem \in [Progs -> Nat] /\ dest \in [Progs -> Progs]
  BY DEF Types
<1>1. sem' = sem /\ \A r \in Progs : r # p => pc'[r] = pc[r] /\ dest'[r] = dest[r]
  BY <1>0 DEF GetTask, Decides, Decide, SendTask, Go
<1>2. /\ GetTask(p) => pc[p] = "get" /\ pc'[p] = "work"
      /\ Decides(p) => pc[p] = "work" /\ pc'[p] = "send"
      /\ SendTask(p) => pc[p] = "send" /\ pc'[p] = "post" /\ dest'[p] = dest[p]
  BY <1>0 DEF GetTask, Decides, Decide, SendTask, Go
<1>3. /\ sem[q] \in Nat /\ Claimed(q) \in Nat /\ Promised(q) \in Nat
      /\ Cardinality(NotYetPosted(q)) \in Nat
  BY <1>0, SubsetsAreCounted DEF Claimed, Promised
<1>4. ASSUME GetTask(p) PROVE Promised(q)' = IF q = p THEN Promised(q) - 1 ELSE Promised(q)
  <2>1. NotYetPosted(q)' = NotYetPosted(q)
    BY <1>1, <1>2, <1>4 DEF NotYetPosted
  <2>2. Claimed(q)' = IF q = p THEN Claimed(q) - 1 ELSE Claimed(q)
    BY <1>1, <1>2, <1>4 DEF Claimed
  <2>. QED BY <1>1, <1>3, <2>1, <2>2 DEF Promised
<1>5. ASSUME Decides(p) PROVE Promised(q)' = Promised(q)
  <2>1. NotYetPosted(q)' = NotYetPosted(q) /\ Claimed(q)' = Claimed(q)
    BY <1>1, <1>2, <1>5 DEF NotYetPosted, Claimed
  <2>. QED BY <1>1, <2>1 DEF Promised
<1>6. ASSUME SendTask(p)
      PROVE  Promised(q)' = IF q = dest[p] THEN Promised(q) + 1 ELSE Promised(q)
  <2>1. Claimed(q)' = Claimed(q)
    BY <1>1, <1>2, <1>6 DEF Claimed
  <2>2. CASE q = dest[p]
    <3>1. NotYetPosted(q)' = NotYetPosted(q) \cup {p} /\ p \notin NotYetPosted(q)
      BY <1>1, <1>2, <1>6, <2>2 DEF NotYetPosted
    <3>2. Cardinality(NotYetPosted(q)') = Cardinality(NotYetPosted(q)) + 1
      BY <3>1, SubsetsAreCounted, FS_AddElement
    <3>. QED BY <1>1, <1>3, <2>1, <2>2, <3>2 DEF Promised
  <2>3. CASE q # dest[p]
    <3>1. NotYetPosted(q)' = NotYetPosted(q)
      BY <1>1, <1>2, <1>6, <2>3 DEF NotYetPosted
    <3>. QED BY <1>1, <2>1, <2>3, <3>1 DEF Promised
  <2>. QED BY <2>2, <2>3
<1>7. \A r \in Progs : pc'[r] = "wait" <=> pc[r] = "wait"
  BY <1>1, <1>2
<1>. QED BY <1>1, <1>3, <1>4, <1>5, <1>6, <1>7

LEMMA PromiseIsThere ==
  ASSUME Types, NEW p \in Progs, pc[p] = "get", Promised(p) <= Len(msgs[p])
  PROVE  msgs[p] # <<>>
<1>1. sem[p] \in Nat /\ Cardinality(NotYetPosted(p)) \in Nat /\ Claimed(p) = 1
  BY SubsetsAreCounted DEF Types, Claimed
<1>2. Len(msgs[p]) \in Nat
  BY DEF Types
<1>3. Len(msgs[p]) > 0
  BY <1>1, <1>2 DEF Promised
<1>. QED BY <1>3
----------------------------------------------------------------------------
(* Part 9.  A restart leaves old messages, so that the promises are no more    *)
(* than the messages there are; and a full queue drops a message only if it    *)
(* holds enough of them for all the promises.                                  *)

PromisesKept == \A q \in Progs : Promised(q) <= Len(msgs[q])

LEMMA PromisesStep ==
  ASSUME Types, TurnsShared, PromisesKept, NEW p \in Progs, Step(p)
  PROVE  TurnsShared' /\ PromisesKept'
<1>0. msgs \in [Progs -> Seq(Tasks)] /\ out[p] \in Tasks
  BY DEF Types
<1>1. CASE WaitForTask(p) \/ PostTask(p)
  <2>1. msgs' = msgs
    BY <1>1 DEF WaitForTask, PostTask
  <2>. QED BY <1>1, <2>1, TurnTaken, TurnGiven DEF PromisesKept
<1>2. CASE GetTask(p)
  <2>1. msgs[p] # <<>>
    BY <1>2, PromiseIsThere DEF GetTask, Go, PromisesKept
  <2>2. msgs' = [msgs EXCEPT ![p] = Tail(msgs[p])]
    BY <1>2, <2>1 DEF GetTask
  <2>3. /\ Len(msgs'[p]) = Len(msgs[p]) - 1 /\ Len(msgs[p]) \in Nat
        /\ \A q \in Progs : q # p => msgs'[q] = msgs[q]
    BY <1>0, <2>1, <2>2
  <2>4. ASSUME NEW q \in Progs PROVE (Promised(q) <= Len(msgs[q]))'
    <3>1. Promised(q) \in Nat /\ Promised(q)' = IF q = p THEN Promised(q) - 1 ELSE Promised(q)
      BY <1>2, PromisesMove
    <3>. QED BY <2>3, <3>1 DEF PromisesKept
  <2>. QED BY <1>2, <2>4, TurnsKept, PromisesMove DEF PromisesKept
<1>3. CASE Decides(p)
  <2>1. msgs' = msgs
    BY <1>3 DEF Decides, Decide
  <2>. QED BY <1>3, <2>1, TurnsKept, PromisesMove DEF PromisesKept
<1>4. CASE SendTask(p)
  <2>1. PICK d \in Progs : d = dest[p]
    BY DEF Types
  <2>2. msgs' = [msgs EXCEPT ![d] = AddTask(msgs[d], out[p])] /\ pc[p] = "send"
    BY <1>4, <2>1 DEF SendTask, Go
  <2>3. /\ Len(msgs[d]) \in Nat
        /\ Len(msgs'[d]) = Len(msgs[d]) + 1 \/ (msgs'[d] = msgs[d] /\ Len(msgs[d]) >= QUEUE_LIMIT)
        /\ \A q \in Progs : q # d => msgs'[q] = msgs[q]
    <3>1. Len(msgs[d]) \in Nat /\ \A q \in Progs : q # d => msgs'[q] = msgs[q]
      BY <1>0, <2>2
    <3>2. msgs'[d] = AddTask(msgs[d], out[p])
      BY <1>0, <2>2
    <3>3. CASE Len(msgs[d]) < QUEUE_LIMIT
      BY <1>0, <3>1, <3>2, <3>3 DEF AddTask
    <3>4. CASE ~(Len(msgs[d]) < QUEUE_LIMIT)
      BY <3>1, <3>2, <3>4, SysVAssumption DEF AddTask
    <3>. QED BY <3>1, <3>3, <3>4
  <2>4. ASSUME NEW q \in Progs PROVE (Promised(q) <= Len(msgs[q]))'
    <3>1. Promised(q) \in Nat /\ Promised(q)' = IF q = d THEN Promised(q) + 1 ELSE Promised(q)
      BY <1>4, <2>1, PromisesMove
    <3>2. Promised(q) + 1 <= NUM_PROGS
      BY <2>2, PromisesAreShared
    <3>. QED BY <2>3, <3>1, <3>2, SysVAssumption, ProgsAreCounted DEF PromisesKept
  <2>. QED BY <1>4, <2>4, TurnsKept, PromisesMove DEF PromisesKept
<1>. QED BY <1>1, <1>2, <1>3, <1>4, StepCases

(* No task that is queued, on its way or in hand gives a programmer its own    *)
(* program for review.                                                         *)
ForeignTask(q, t) == t # Own => Author(t) # q

TasksAreForeign ==
  \A q \in Progs : /\ \A i \in 1..Len(msgs[q]) : ForeignTask(q, msgs[q][i])
                   /\ ForeignTask(q, task[q])
                   /\ ForeignTask(dest[q], out[q])
                   /\ pc[q] # "send" => out[q] = Own

LEMMA ForeignStep ==
  ASSUME Types, TasksAreForeign, NEW p \in Progs, Step(p)
  PROVE  TasksAreForeign'
<1>0. /\ msgs \in [Progs -> Seq(Tasks)] /\ task \in [Progs -> Tasks]
      /\ dest \in [Progs -> Progs] /\ out \in [Progs -> Tasks] /\ pc \in [Progs -> Labels]
  BY DEF Types
<1>. USE DEF ForeignTask
<1>1. CASE WaitForTask(p)
  BY <1>1 DEF WaitForTask, Go, TasksAreForeign
<1>2. CASE PostTask(p)
  <2>1. out[p] = Own
    BY <1>2 DEF PostTask, Go, TasksAreForeign
  <2>. QED BY <1>0, <1>2, <2>1 DEF PostTask, Go, TasksAreForeign
<1>3. CASE GetTask(p)
  <2>1. CASE msgs[p] = <<>>
    BY <1>0, <1>3, <2>1 DEF GetTask, Go, TasksAreForeign
  <2>2. CASE msgs[p] # <<>>
    <3>1. /\ msgs' = [msgs EXCEPT ![p] = Tail(msgs[p])] /\ UNCHANGED <<dest, out>>
          /\ task' = [task EXCEPT ![p] = Head(msgs[p])]
          /\ \A q \in Progs : pc'[q] # "send" => pc[q] # "send"
      BY <1>0, <1>3, <2>2 DEF GetTask, Go
    <3>2. Head(msgs[p]) = msgs[p][1] /\ 1 \in 1..Len(msgs[p])
      BY <1>0, <2>2
    <3>3. \A i \in 1..Len(Tail(msgs[p])) :
            i + 1 \in 1..Len(msgs[p]) /\ Tail(msgs[p])[i] = msgs[p][i + 1]
      BY <1>0, <2>2
    <3>. QED BY <1>0, <3>1, <3>2, <3>3 DEF TasksAreForeign
  <2>. QED BY <2>1, <2>2
<1>4. CASE Decides(p)
  <2>1. PICK to \in Progs, t \in Tasks :
          /\ Decide(p, to, t)
          /\ t # Own => Author(t) # to \/ (to = p /\ task[p] # Own /\ Author(t) = Author(task[p]))
    BY <1>4 DEF Decides
  <2>2. ForeignTask(to, t)
    BY <2>1 DEF TasksAreForeign
  <2>3. msgs' = msgs /\ Go(p, "work", "send")
        /\ dest' = [dest EXCEPT ![p] = to] /\ out' = [out EXCEPT ![p] = t]
        /\ task' = [task EXCEPT ![p] = Own]
    BY <2>1 DEF Decide
  <2>4. /\ dest'[p] = to /\ out'[p] = t /\ task'[p] = Own /\ pc'[p] = "send"
        /\ \A q \in Progs \ {p} : /\ dest'[q] = dest[q] /\ out'[q] = out[q]
                                  /\ task'[q] = task[q] /\ pc'[q] = pc[q]
    BY <1>0, <2>3 DEF Go
  <2>. QED BY <2>2, <2>3, <2>4 DEF TasksAreForeign
<1>5. CASE SendTask(p)
  <2>1. PICK d \in Progs : d = dest[p]
    BY <1>0
  <2>2. /\ msgs' = [msgs EXCEPT ![d] = AddTask(msgs[d], out[p])] /\ UNCHANGED <<dest, task>>
        /\ out' = [out EXCEPT ![p] = Own]
        /\ \A q \in Progs : q # p => pc'[q] = pc[q]
    BY <1>0, <1>5, <2>1 DEF SendTask, Go
  <2>3. \A i \in 1..Len(AddTask(msgs[d], out[p])) :
          LET t == AddTask(msgs[d], out[p])[i]
          IN  t = out[p] \/ (i \in 1..Len(msgs[d]) /\ t = msgs[d][i])
    BY <1>0 DEF AddTask
  <2>4. /\ msgs'[d] = AddTask(msgs[d], out[p]) /\ out'[p] = Own
        /\ dest' = dest /\ task' = task
        /\ \A q \in Progs : q # d => msgs'[q] = msgs[q]
        /\ \A q \in Progs : q # p => out'[q] = out[q] /\ pc'[q] = pc[q]
    BY <1>0, <2>2
  <2>5. ASSUME NEW q \in Progs, NEW i \in 1..Len(msgs'[q])
        PROVE  ForeignTask(q, msgs'[q][i])
    <3>1. CASE q # d
      BY <2>4, <2>5, <3>1 DEF TasksAreForeign
    <3>2. CASE q = d
      <4>1. msgs'[q][i] = out[p] \/ (i \in 1..Len(msgs[q]) /\ msgs'[q][i] = msgs[q][i])
        BY <2>3, <2>4, <2>5, <3>2
      <4>2. ForeignTask(q, out[p])
        BY <2>1, <3>2 DEF TasksAreForeign
      <4>. QED BY <4>1, <4>2 DEF TasksAreForeign
    <3>. QED BY <3>1, <3>2
  <2>6. ASSUME NEW q \in Progs
        PROVE  /\ ForeignTask(q, task'[q]) /\ ForeignTask(dest'[q], out'[q])
               /\ pc'[q] # "send" => out'[q] = Own
    <3>1. CASE q = p
      BY <2>4, <3>1 DEF TasksAreForeign
    <3>2. CASE q # p
      BY <2>4, <3>2 DEF TasksAreForeign
    <3>. QED BY <3>1, <3>2
  <2>. QED BY <2>5, <2>6 DEF TasksAreForeign
<1>. QED BY <1>1, <1>2, <1>3, <1>4, <1>5, StepCases

(* The invariant of part 9. *)
SysVInv == Types /\ TurnsShared /\ PromisesKept /\ TasksAreForeign

LEMMA SysVInit == Init => SysVInv
<1>. SUFFICES ASSUME Init PROVE SysVInv
  OBVIOUS
<1>1. TurnsShared /\ \A q \in Progs : Promised(q) = 1
  BY TurnsAtStart DEF Init
<1>2. /\ \A q \in Progs : msgs[q] = <<Own>> /\ task[q] = Own /\ out[q] = Own
      /\ Len(<<Own>>) = 1 /\ \A i \in 1..1 : <<Own>>[i] = Own
  BY DEF Init, Everyone
<1>3. PromisesKept
  BY <1>1, <1>2 DEF PromisesKept
<1>4. TasksAreForeign
  BY <1>2 DEF TasksAreForeign, ForeignTask
<1>. QED BY <1>1, <1>3, <1>4, TypesInit DEF SysVInv

LEMMA SysVRestart == ASSUME SysVInv, Restart PROVE SysVInv'
<1>0. Types /\ \A q \in Progs : msgs[q] \in Seq(Tasks) /\ Own \in Tasks
  BY ProgsAreTasks DEF SysVInv, Types
<1>1. TurnsShared' /\ \A q \in Progs : Promised(q)' = 1
  <2>1. Everyone(1)' = Everyone(1) /\ Everyone("wait")' = Everyone("wait")
    BY DEF Everyone
  <2>. QED BY <2>1, TurnsWillBeAtStart DEF Restart
<1>2. ASSUME NEW q \in Progs
      PROVE  /\ msgs'[q] = AddTask(msgs[q], Own)
             /\ task'[q] = Own /\ out'[q] = Own
  BY DEF Restart, Everyone
<1>3. ASSUME NEW q \in Progs
      PROVE  /\ Len(AddTask(msgs[q], Own)) >= 1
             /\ \A i \in 1..Len(AddTask(msgs[q], Own)) :
                  \/ AddTask(msgs[q], Own)[i] = Own
                  \/ i \in 1..Len(msgs[q]) /\ AddTask(msgs[q], Own)[i] = msgs[q][i]
  <2>1. CASE Len(msgs[q]) < QUEUE_LIMIT
    BY <1>0, <2>1 DEF AddTask
  <2>2. CASE ~(Len(msgs[q]) < QUEUE_LIMIT)
    <3>1. Len(msgs[q]) \in Nat
      BY <1>0
    <3>. QED BY <2>2, <3>1, SysVAssumption, ProgrammersAssumption DEF AddTask
  <2>. QED BY <2>1, <2>2
<1>4. PromisesKept'
  BY <1>1, <1>2, <1>3 DEF PromisesKept
<1>5. TasksAreForeign'
  <2>1. ASSUME NEW q \in Progs, NEW i \in 1..Len(msgs'[q])
        PROVE  ForeignTask(q, msgs'[q][i])
    BY <1>2, <1>3 DEF SysVInv, TasksAreForeign, ForeignTask
  <2>. QED BY <1>2, <2>1 DEF TasksAreForeign, ForeignTask
<1>. QED BY <1>0, <1>1, <1>4, <1>5, TypesRestart DEF SysVInv

LEMMA SysVStep == SysVInv /\ [Next]_vars => SysVInv'
<1>. SUFFICES ASSUME SysVInv, [Next]_vars PROVE SysVInv'
  OBVIOUS
<1>1. CASE UNCHANGED vars
  <2>1. /\ Turns' = Turns /\ Busy' = Busy
        /\ \A q \in Progs : Promised(q)' = Promised(q)
    BY <1>1 DEF vars, Turns, Busy, Promised, NotYetPosted, Claimed
  <2>. QED BY <1>1, <2>1 DEF vars, SysVInv, Types, TurnsShared, PromisesKept, TasksAreForeign
<1>2. ASSUME NEW p \in Progs, Step(p) PROVE SysVInv'
  BY <1>2, TypesStep, PromisesStep, ForeignStep DEF SysVInv
<1>3. CASE Restart
  BY <1>3, SysVRestart
<1>. QED BY <1>1, <1>2, <1>3 DEF Next

THEOREM SysVInvariant == Spec => []SysVInv
BY SysVInit, SysVStep, PTL DEF Spec

(* With any number of restarts over queues that keep their messages, and       *)
(* whatever the limit drops, a programmer that a semaphore lets through finds  *)
(* a message: msgrcv with IPC_NOWAIT never fails.                              *)
THEOREM SysVMessageFound == Spec => []GetTaskFindsOne
<1>1. SysVInv => GetTaskFindsOne
  BY PromiseIsThere DEF SysVInv, PromisesKept, GetTaskFindsOne
<1>. QED BY <1>1, SysVInvariant, PTL

(* No programmer ever reviews a program of its own, not even with messages of  *)
(* runs that were killed.                                                      *)
THEOREM SysVReviewIsForeign == Spec => []ReviewerIsNotAuthor
<1>1. SysVInv => ReviewerIsNotAuthor
  BY DEF SysVInv, TasksAreForeign, ForeignTask, ReviewerIsNotAuthor
<1>. QED BY <1>1, SysVInvariant, PTL

----------------------------------------------------------------------------
(* Part 10.  The initializer empties the queues, so that the promises and the  *)
(* messages are the same.                                                      *)

PromisesExact == \A q \in Progs : Promised(q) = Len(msgs[q])

LEMMA PosixStepIsStep ==
  ASSUME NEW p \in Progs, PosixStep(p)
  PROVE  Step(p)
BY DEF PosixStep, Step, Receive, SendBlocking

LEMMA PosixStepCases ==
  ASSUME Types, NEW p \in Progs, PosixStep(p)
  PROVE  WaitForTask(p) \/ Receive(p) \/ Decides(p) \/ SendBlocking(p) \/ PostTask(p)
BY DecisionDecides DEF PosixStep

(* The message mq_receive takes and the one mq_send adds. *)
LEMMA Received ==
  ASSUME Types, NEW p \in Progs, Receive(p)
  PROVE  /\ pc[p] = "get" /\ pc' = [pc EXCEPT ![p] = "work"] /\ UNCHANGED <<dest, out>>
         /\ msgs[p] # <<>> /\ task' = [task EXCEPT ![p] = Head(msgs[p])]
         /\ msgs' = [msgs EXCEPT ![p] = Tail(msgs[p])]
BY DEF Receive, GetTask, Go

LEMMA Sent ==
  ASSUME Types, NEW p \in Progs, SendBlocking(p)
  PROVE  /\ pc[p] = "send" /\ pc' = [pc EXCEPT ![p] = "post"] /\ UNCHANGED <<dest, task>>
         /\ msgs' = [msgs EXCEPT ![dest[p]] = Append(msgs[dest[p]], out[p])]
         /\ out' = [out EXCEPT ![p] = Own]
BY DEF SendBlocking, SendTask, AddTask, Go

LEMMA ExactStep ==
  ASSUME Types, TurnsShared, PromisesExact, NEW p \in Progs, PosixStep(p)
  PROVE  TurnsShared' /\ PromisesExact'
<1>0. msgs \in [Progs -> Seq(Tasks)] /\ out[p] \in Tasks
  BY DEF Types
<1>1. CASE WaitForTask(p) \/ PostTask(p)
  <2>1. msgs' = msgs
    BY <1>1 DEF WaitForTask, PostTask
  <2>. QED BY <1>1, <2>1, TurnTaken, TurnGiven DEF PromisesExact
<1>2. CASE Receive(p)
  <2>0. GetTask(p)
    BY <1>2 DEF Receive
  <2>1. /\ Len(msgs'[p]) = Len(msgs[p]) - 1
        /\ \A q \in Progs : q # p => msgs'[q] = msgs[q]
    BY <1>0, <1>2, Received
  <2>2. ASSUME NEW q \in Progs PROVE (Promised(q) = Len(msgs[q]))'
    <3>1. Promised(q)' = IF q = p THEN Promised(q) - 1 ELSE Promised(q)
      BY <2>0, PromisesMove
    <3>. QED BY <2>1, <3>1 DEF PromisesExact
  <2>. QED BY <2>0, <2>2, TurnsKept, PromisesMove DEF PromisesExact
<1>3. CASE Decides(p)
  <2>1. msgs' = msgs
    BY <1>3 DEF Decides, Decide
  <2>. QED BY <1>3, <2>1, TurnsKept, PromisesMove DEF PromisesExact
<1>4. CASE SendBlocking(p)
  <2>0. SendTask(p)
    BY <1>4 DEF SendBlocking
  <2>1. PICK d \in Progs : d = dest[p]
    BY DEF Types
  <2>2. /\ Len(msgs'[d]) = Len(msgs[d]) + 1
        /\ \A q \in Progs : q # d => msgs'[q] = msgs[q]
    BY <1>0, <1>4, <2>1, Sent
  <2>3. ASSUME NEW q \in Progs PROVE (Promised(q) = Len(msgs[q]))'
    <3>1. Promised(q)' = IF q = d THEN Promised(q) + 1 ELSE Promised(q)
      BY <2>0, <2>1, PromisesMove
    <3>. QED BY <2>2, <3>1 DEF PromisesExact
  <2>. QED BY <2>0, <2>3, TurnsKept, PromisesMove DEF PromisesExact
<1>. QED BY <1>1, <1>2, <1>3, <1>4, PosixStepCases

(* Programs. *)

QueuedProgram(q, i) == ProgramOf(q, msgs[q][i])

(* No program has two tasks, be they in messages or in hands. *)
TasksDiffer ==
  /\ \A p, q \in Progs : \A i \in 1..Len(msgs[p]), j \in 1..Len(msgs[q]) :
       QueuedProgram(p, i) = QueuedProgram(q, j) => p = q /\ i = j
  /\ \A p, q \in Progs : Holding(p) =>
       \A i \in 1..Len(msgs[q]) : HeldProgram(p) # QueuedProgram(q, i)
  /\ \A p, q \in Progs :
       Holding(p) /\ Holding(q) /\ HeldProgram(p) = HeldProgram(q) => p = q

(* Every program has a task. *)
TasksExist ==
  \A g \in Progs :
    \/ \E q \in Progs : \E i \in 1..Len(msgs[q]) : QueuedProgram(q, i) = g
    \/ \E p \in Progs : Holding(p) /\ HeldProgram(p) = g

(* A task is about the program of some programmer. *)
LEMMA ProgramIsProg ==
  ASSUME NEW p \in Progs, NEW t \in Tasks
  PROVE  ProgramOf(p, t) \in Progs
<1>1. CASE t = Own
  BY <1>1 DEF ProgramOf
<1>2. CASE t # Own
  <2>1. IsReview(t) \/ IsReReview(t)
    BY <1>2, ProgrammersAssumption DEF Tasks, Own, IsReview, IsReReview
  <2>. QED BY <1>2, <2>1, AuthorIsProg DEF ProgramOf
<1>. QED BY <1>1, <1>2

(* A step that moves no task. *)
LEMMA TasksKept ==
  ASSUME TasksDiffer, TasksExist, UNCHANGED msgs,
         \A q \in Progs : /\ Holding(q)' = Holding(q)
                          /\ Holding(q) => HeldProgram(q)' = HeldProgram(q)
  PROVE  TasksDiffer' /\ TasksExist'
BY DEF TasksDiffer, TasksExist, QueuedProgram

(* What a programmer decides to send is about the program it had in hand. *)
LEMMA SentIsSameProgram ==
  ASSUME Types, NEW p \in Progs, NEW to, NEW t, Decide(p, to, t),
         WriteProgram(p) \/ Approve(p) \/ Reject(p)
  PROVE  ProgramOf(dest'[p], out'[p]) = ProgramOf(p, task[p])
<1>0. task[p] \in Tasks /\ dest \in [Progs -> Progs] /\ out \in [Progs -> Tasks]
  BY DEF Types
<1>1. CASE WriteProgram(p)
  <2>1. dest'[p] \in Progs /\ out'[p] = p /\ task[p] = Own
    BY <1>0, <1>1 DEF WriteProgram, Decide
  <2>2. Author(p) = p /\ p # Own
    BY ProgrammersAssumption DEF Author, IsReReview, Progs, Own
  <2>. QED BY <2>1, <2>2 DEF ProgramOf
<1>2. CASE Approve(p)
  <2>1. dest'[p] = Author(task[p]) /\ out'[p] = Own
    BY <1>0, <1>2 DEF Approve, Decide
  <2>2. task[p] # Own
    BY <1>0, <1>2, ProgrammersAssumption DEF Approve, IsReview, IsReReview, Own
  <2>. QED BY <2>1, <2>2 DEF ProgramOf
<1>3. CASE Reject(p)
  <2>1. \/ IsReview(task[p]) /\ out'[p] = task[p] + NUM_PROGS
        \/ IsReReview(task[p]) /\ out'[p] = task[p]
    BY <1>0, <1>3 DEF Reject, Decide
  <2>2. Author(out'[p]) = Author(task[p]) /\ out'[p] # Own /\ task[p] # Own
    BY <1>0, <2>1, ProgrammersAssumption DEF Author, IsReview, IsReReview, Tasks, Own
  <2>. QED BY <2>2 DEF ProgramOf
<1>. QED BY <1>1, <1>2, <1>3

(* The first message of p goes into its hands. *)
LEMMA TakenTask ==
  ASSUME Types, TasksDiffer, TasksExist, NEW p \in Progs, msgs[p] # <<>>, ~Holding(p),
         Holding(p)', HeldProgram(p)' = QueuedProgram(p, 1),
         msgs' = [msgs EXCEPT ![p] = Tail(msgs[p])],
         \A q \in Progs : q # p => /\ Holding(q)' = Holding(q)
                                   /\ HeldProgram(q)' = HeldProgram(q)
  PROVE  TasksDiffer' /\ TasksExist'
<1>0. msgs \in [Progs -> Seq(Tasks)]
  BY DEF Types
<1>1. \A q \in Progs : q # p => msgs'[q] = msgs[q]
  BY <1>0
<1>2. /\ Len(msgs[p]) \in Nat /\ 1 \in 1..Len(msgs[p])
      /\ Len(msgs'[p]) = Len(msgs[p]) - 1
      /\ \A i \in 1..Len(msgs'[p]) :
           i + 1 \in 1..Len(msgs[p]) /\ msgs'[p][i] = msgs[p][i + 1]
  BY <1>0
<1>3. \A i \in 1..Len(msgs'[p]) :
        /\ i + 1 \in 1..Len(msgs[p]) /\ i + 1 # 1
        /\ QueuedProgram(p, i)' = QueuedProgram(p, i + 1)
  BY <1>2 DEF QueuedProgram
<1>4. \A i \in 1..Len(msgs[p]) : i # 1 =>
        i - 1 \in 1..Len(msgs'[p]) /\ QueuedProgram(p, i - 1)' = QueuedProgram(p, i)
  <2>. TAKE i \in 1..Len(msgs[p])
  <2>. HAVE i # 1
  <2>1. i - 1 \in 1..Len(msgs'[p]) /\ (i - 1) + 1 = i
    BY <1>2
  <2>. QED BY <1>3, <2>1
<1>5. \A q \in Progs : q # p => \A i \in 1..Len(msgs[q]) :
        QueuedProgram(q, i)' = QueuedProgram(q, i)
  BY <1>1 DEF QueuedProgram
<1>6. ASSUME NEW q \in Progs, NEW i \in 1..Len(msgs'[q])
      PROVE  \E j \in 1..Len(msgs[q]) : /\ QueuedProgram(q, i)' = QueuedProgram(q, j)
                                        /\ j = (IF q = p THEN i + 1 ELSE i)
                                        /\ q = p => j # 1
  <2>1. CASE q = p
    BY <1>3, <2>1
  <2>2. CASE q # p
    BY <1>1, <1>5, <2>2
  <2>. QED BY <2>1, <2>2
<1>7. \A q \in Progs : \A i \in 1..Len(msgs'[q]) :
        QueuedProgram(q, i)' # QueuedProgram(p, 1)
  BY <1>2, <1>6 DEF TasksDiffer
<1>8. TasksDiffer'
  <2>1. ASSUME NEW q \in Progs, NEW r \in Progs,
               NEW i \in 1..Len(msgs'[q]), NEW j \in 1..Len(msgs'[r]),
               QueuedProgram(q, i)' = QueuedProgram(r, j)'
        PROVE  q = r /\ i = j
    <3>1. PICK k \in 1..Len(msgs[q]) : /\ QueuedProgram(q, i)' = QueuedProgram(q, k)
                                        /\ k = (IF q = p THEN i + 1 ELSE i)
      BY <1>6
    <3>2. PICK l \in 1..Len(msgs[r]) : /\ QueuedProgram(r, j)' = QueuedProgram(r, l)
                                        /\ l = (IF r = p THEN j + 1 ELSE j)
      BY <1>6
    <3>3. q = r /\ k = l
      <4>1. QueuedProgram(q, k) = QueuedProgram(r, l)
        BY <2>1, <3>1, <3>2
      <4>. QED BY <4>1 DEF TasksDiffer
    <3>4. i \in Int /\ j \in Int
      OBVIOUS
    <3>. QED BY <3>1, <3>2, <3>3, <3>4
  <2>2. ASSUME NEW r \in Progs, Holding(r)', NEW q \in Progs, NEW i \in 1..Len(msgs'[q])
        PROVE  HeldProgram(r)' # QueuedProgram(q, i)'
    BY <1>6, <1>7, <2>2 DEF TasksDiffer
  <2>3. ASSUME NEW q \in Progs, NEW r \in Progs, Holding(q)', Holding(r)',
               HeldProgram(q)' = HeldProgram(r)'
        PROVE  q = r
    BY <1>2, <2>3 DEF TasksDiffer
  <2>. QED BY <2>1, <2>2, <2>3 DEF TasksDiffer
<1>9. TasksExist'
  <2>. SUFFICES ASSUME NEW g \in Progs
                PROVE  \/ \E q \in Progs : \E i \in 1..Len(msgs'[q]) : QueuedProgram(q, i)' = g
                       \/ \E q \in Progs : Holding(q)' /\ HeldProgram(q)' = g
    BY DEF TasksExist
  <2>1. ASSUME NEW q \in Progs, NEW i \in 1..Len(msgs[q]), QueuedProgram(q, i) = g
        PROVE  \/ \E r \in Progs : \E j \in 1..Len(msgs'[r]) : QueuedProgram(r, j)' = g
               \/ \E r \in Progs : Holding(r)' /\ HeldProgram(r)' = g
    BY <1>1, <1>4, <1>5, <2>1
  <2>2. ASSUME NEW q \in Progs, Holding(q), HeldProgram(q) = g
        PROVE  \E r \in Progs : Holding(r)' /\ HeldProgram(r)' = g
    BY <2>2
  <2>. QED BY <2>1, <2>2 DEF TasksExist
<1>. QED BY <1>8, <1>9

(* A task in hand goes to the end of queue d. *)
LEMMA QueuedTask ==
  ASSUME Types, TasksDiffer, TasksExist, NEW p \in Progs, NEW d \in Progs, NEW t \in Tasks,
         Holding(p), ~Holding(p)', HeldProgram(p) = ProgramOf(d, t),
         msgs' = [msgs EXCEPT ![d] = Append(msgs[d], t)],
         \A q \in Progs : q # p => /\ Holding(q)' = Holding(q)
                                   /\ HeldProgram(q)' = HeldProgram(q)
  PROVE  TasksDiffer' /\ TasksExist'
<1>0. msgs \in [Progs -> Seq(Tasks)]
  BY DEF Types
<1>1. \A q \in Progs : q # d => msgs'[q] = msgs[q]
  BY <1>0
<1>2. PICK n : n = Len(msgs[d])
  OBVIOUS
<1>3. /\ n \in Nat /\ Len(msgs'[d]) = n + 1 /\ msgs'[d][n + 1] = t
      /\ \A i \in 1..n : msgs'[d][i] = msgs[d][i]
  BY <1>0, <1>2
<1>4. QueuedProgram(d, n + 1)' = HeldProgram(p)
  BY <1>3 DEF QueuedProgram
<1>5. \A q \in Progs : \A i \in 1..Len(msgs[q]) :
        i \in 1..Len(msgs'[q]) /\ QueuedProgram(q, i)' = QueuedProgram(q, i)
  BY <1>1, <1>2, <1>3 DEF QueuedProgram
<1>6. \A q \in Progs : \A i \in 1..Len(msgs'[q]) :
        i \in 1..Len(msgs[q]) \/ (q = d /\ i = n + 1)
  BY <1>1, <1>2, <1>3
<1>7. TasksDiffer'
  <2>1. ASSUME NEW q \in Progs, NEW r \in Progs,
               NEW i \in 1..Len(msgs'[q]), NEW j \in 1..Len(msgs'[r]),
               QueuedProgram(q, i)' = QueuedProgram(r, j)'
        PROVE  q = r /\ i = j
    <3>1. CASE i \in 1..Len(msgs[q]) /\ j \in 1..Len(msgs[r])
      <4>1. QueuedProgram(q, i) = QueuedProgram(r, j)
        BY <1>5, <2>1, <3>1
      <4>. QED BY <3>1, <4>1 DEF TasksDiffer
    <3>2. CASE i \in 1..Len(msgs[q]) /\ r = d /\ j = n + 1
      <4>1. QueuedProgram(q, i) = HeldProgram(p)
        BY <1>4, <1>5, <2>1, <3>2
      <4>. QED BY <3>2, <4>1 DEF TasksDiffer
    <3>3. CASE j \in 1..Len(msgs[r]) /\ q = d /\ i = n + 1
      <4>1. QueuedProgram(r, j) = HeldProgram(p)
        BY <1>4, <1>5, <2>1, <3>3
      <4>. QED BY <3>3, <4>1 DEF TasksDiffer
    <3>. QED BY <1>6, <3>1, <3>2, <3>3
  <2>2. ASSUME NEW r \in Progs, Holding(r)', NEW q \in Progs, NEW i \in 1..Len(msgs'[q])
        PROVE  HeldProgram(r)' # QueuedProgram(q, i)'
    <3>0. r # p /\ Holding(r) /\ HeldProgram(r)' = HeldProgram(r)
      BY <2>2
    <3>1. CASE i \in 1..Len(msgs[q])
      BY <1>5, <3>0, <3>1 DEF TasksDiffer
    <3>2. CASE q = d /\ i = n + 1
      BY <1>4, <3>0, <3>2 DEF TasksDiffer
    <3>. QED BY <1>6, <3>1, <3>2
  <2>3. ASSUME NEW q \in Progs, NEW r \in Progs, Holding(q)', Holding(r)',
               HeldProgram(q)' = HeldProgram(r)'
        PROVE  q = r
    BY <2>3 DEF TasksDiffer
  <2>. QED BY <2>1, <2>2, <2>3 DEF TasksDiffer
<1>8. TasksExist'
  <2>. SUFFICES ASSUME NEW g \in Progs
                PROVE  \/ \E q \in Progs : \E i \in 1..Len(msgs'[q]) : QueuedProgram(q, i)' = g
                       \/ \E q \in Progs : Holding(q)' /\ HeldProgram(q)' = g
    BY DEF TasksExist
  <2>1. ASSUME NEW q \in Progs, NEW i \in 1..Len(msgs[q]), QueuedProgram(q, i) = g
        PROVE  \E r \in Progs : \E j \in 1..Len(msgs'[r]) : QueuedProgram(r, j)' = g
    BY <1>5, <2>1
  <2>2. ASSUME NEW q \in Progs, Holding(q), HeldProgram(q) = g
        PROVE  \/ \E r \in Progs : \E j \in 1..Len(msgs'[r]) : QueuedProgram(r, j)' = g
               \/ \E r \in Progs : Holding(r)' /\ HeldProgram(r)' = g
    <3>1. CASE q = p
      <4>1. n + 1 \in 1..Len(msgs'[d])
        BY <1>3
      <4>. QED BY <1>4, <2>2, <3>1, <4>1
    <3>2. CASE q # p
      BY <2>2, <3>2
    <3>. QED BY <3>1, <3>2
  <2>. QED BY <2>1, <2>2 DEF TasksExist
<1>. QED BY <1>7, <1>8

LEMMA TasksStep ==
  ASSUME Types, TasksDiffer, TasksExist, NEW p \in Progs, PosixStep(p)
  PROVE  TasksDiffer' /\ TasksExist'
<1>0. /\ pc \in [Progs -> Labels] /\ task \in [Progs -> Tasks] /\ msgs \in [Progs -> Seq(Tasks)]
      /\ dest \in [Progs -> Progs] /\ out \in [Progs -> Tasks]
  BY DEF Types
<1>1. CASE WaitForTask(p) \/ PostTask(p)
  <2>1. /\ UNCHANGED <<msgs, task, out>> /\ ~Holding(p) /\ ~Holding(p)'
        /\ \A q \in Progs : q # p => pc'[q] = pc[q] /\ dest'[q] = dest[q]
    BY <1>0, <1>1 DEF WaitForTask, PostTask, Go, Holding
  <2>. QED BY <2>1, TasksKept DEF Holding, HeldProgram
<1>2. CASE Receive(p)
  <2>1. ~Holding(p) /\ Holding(p)' /\ pc'[p] # "send"
    BY <1>0, <1>2, Received DEF Holding
  <2>2. HeldProgram(p)' = QueuedProgram(p, 1)
    <3>1. task'[p] = msgs[p][1]
      BY <1>0, <1>2, Received
    <3>. QED BY <2>1, <3>1 DEF HeldProgram, QueuedProgram
  <2>3. \A q \in Progs : q # p => Holding(q)' = Holding(q) /\ HeldProgram(q)' = HeldProgram(q)
    BY <1>0, <1>2, Received DEF Holding, HeldProgram
  <2>. QED BY <1>2, <2>1, <2>2, <2>3, Received, TakenTask
<1>3. CASE WriteProgram(p) \/ Approve(p) \/ Reject(p)
  <2>1. PICK to, t : Decide(p, to, t)
    BY <1>3 DEF WriteProgram, Approve, Reject
  <2>2. /\ UNCHANGED msgs /\ pc[p] = "work" /\ pc'[p] = "send"
        /\ \A q \in Progs \ {p} : /\ pc'[q] = pc[q] /\ task'[q] = task[q]
                                  /\ dest'[q] = dest[q] /\ out'[q] = out[q]
    BY <1>0, <2>1 DEF Decide, Go
  <2>3. Holding(p) /\ Holding(p)' /\ HeldProgram(p)' = HeldProgram(p)
    BY <1>3, <2>1, <2>2, SentIsSameProgram DEF Holding, HeldProgram
  <2>4. \A q \in Progs : Holding(q)' = Holding(q) /\ HeldProgram(q)' = HeldProgram(q)
    BY <2>2, <2>3 DEF Holding, HeldProgram
  <2>. QED BY <2>2, <2>4, TasksKept
<1>4. CASE SendBlocking(p)
  <2>1. PICK d \in Progs, t \in Tasks : d = dest[p] /\ t = out[p]
    BY <1>0
  <2>2. Holding(p) /\ HeldProgram(p) = ProgramOf(d, t) /\ ~Holding(p)'
    BY <1>0, <1>4, <2>1, Sent DEF Holding, HeldProgram
  <2>3. \A q \in Progs : q # p => Holding(q)' = Holding(q) /\ HeldProgram(q)' = HeldProgram(q)
    BY <1>0, <1>4, Sent DEF Holding, HeldProgram
  <2>4. msgs' = [msgs EXCEPT ![d] = Append(msgs[d], t)]
    BY <1>4, <2>1, Sent
  <2>. QED BY <2>2, <2>3, <2>4, QueuedTask
<1>. QED BY <1>1, <1>2, <1>3, <1>4 DEF PosixStep

(* The invariant of part 10. *)
PosixInv == Types /\ TurnsShared /\ PromisesExact /\ TasksDiffer /\ TasksExist

LEMMA PosixInit == Init => PosixInv
<1>. SUFFICES ASSUME Init PROVE PosixInv
  OBVIOUS
<1>1. TurnsShared /\ \A q \in Progs : Promised(q) = 1
  BY TurnsAtStart DEF Init
<1>2. /\ \A q \in Progs : msgs[q] = <<Own>> /\ pc[q] = "wait"
      /\ Len(<<Own>>) = 1 /\ <<Own>>[1] = Own
  BY DEF Init, Everyone
<1>3. PromisesExact
  BY <1>1, <1>2 DEF PromisesExact
<1>4. \A q \in Progs : 1..Len(msgs[q]) = {1} /\ QueuedProgram(q, 1) = q
  <2>1. 1..1 = {1} /\ \A q \in Progs : Len(msgs[q]) = 1 /\ msgs[q][1] = Own
    BY <1>2
  <2>. QED BY <2>1 DEF QueuedProgram, ProgramOf
<1>5. TasksDiffer /\ TasksExist
  BY <1>2, <1>4 DEF TasksDiffer, TasksExist, Holding
<1>. QED BY <1>1, <1>3, <1>5, TypesInit DEF PosixInv

LEMMA PosixInvStep == PosixInv /\ [PosixNext]_vars => PosixInv'
<1>. SUFFICES ASSUME PosixInv, [PosixNext]_vars PROVE PosixInv'
  OBVIOUS
<1>1. CASE UNCHANGED vars
  <2>1. /\ Turns' = Turns /\ Busy' = Busy
        /\ \A q \in Progs : Promised(q)' = Promised(q)
    BY <1>1 DEF vars, Turns, Busy, Promised, NotYetPosted, Claimed
  <2>2. TasksDiffer' /\ TasksExist'
    BY <1>1, TasksKept DEF vars, PosixInv, Holding, HeldProgram
  <2>. QED BY <1>1, <2>1, <2>2 DEF vars, PosixInv, Types, TurnsShared, PromisesExact
<1>2. ASSUME NEW p \in Progs, PosixStep(p) PROVE PosixInv'
  BY <1>2, PosixStepIsStep, TypesStep, ExactStep, TasksStep DEF PosixInv
<1>. QED BY <1>1, <1>2 DEF PosixNext

THEOREM PosixInvariant == PosixSpec => []PosixInv
BY PosixInit, PosixInvStep, PTL DEF PosixSpec

(* The semaphores do all the waiting: whoever is let through finds a message   *)
(* in its queue, and whoever sends finds room.                                 *)
THEOREM PosixNeverBlocks == PosixSpec => []NeverBlocksInQueue
<1>1. ASSUME PosixInv PROVE NeverBlocksInQueue
  <2>1. ASSUME NEW p \in Progs, pc[p] = "get" PROVE msgs[p] # <<>>
    BY <1>1, <2>1, PromiseIsThere DEF PosixInv, PromisesExact, Types
  <2>2. ASSUME NEW p \in Progs, pc[p] = "send" PROVE Len(msgs[dest[p]]) < QUEUE_LIMIT
    <3>1. PICK d \in Progs : d = dest[p]
      BY <1>1 DEF PosixInv, Types
    <3>2. Promised(d) + 1 <= NUM_PROGS /\ Promised(d) = Len(msgs[d]) /\ Len(msgs[d]) \in Nat
      BY <1>1, <2>2, PromisesAreShared DEF PosixInv, PromisesExact, Types
    <3>. QED BY <3>1, <3>2, SysVAssumption, ProgsAreCounted
  <2>. QED BY <2>1, <2>2 DEF NeverBlocksInQueue
<1>. QED BY <1>1, PosixInvariant, PTL

----------------------------------------------------------------------------
(* The programmers implement TaskCirculation over message queues too. *)

InHand(p) == IF pc[p] = "send" THEN <<dest[p], out[p]>> ELSE <<p, task[p]>>

(* The task of program g is t, and it is at q or on its way to q. *)
At(g, q, t) ==
  \/ q \in Progs /\ \E i \in 1..Len(msgs[q]) : QueuedProgram(q, i) = g /\ msgs[q][i] = t
  \/ \E p \in Progs : Holding(p) /\ HeldProgram(p) = g /\ <<q, t>> = InHand(p)

LEMMA EveryProgramIsSomewhere ==
  ASSUME TasksExist, NEW g \in Progs
  PROVE  \E q, t : At(g, q, t)
<1>1. ASSUME NEW q \in Progs, NEW i \in 1..Len(msgs[q]), QueuedProgram(q, i) = g
      PROVE  At(g, q, msgs[q][i])
  BY <1>1 DEF At
<1>2. ASSUME NEW p \in Progs, Holding(p), HeldProgram(p) = g
      PROVE  \E q, t : At(g, q, t)
  <2>1. PICK q, t : <<q, t>> = InHand(p)
    BY DEF InHand
  <2>2. At(g, q, t)
    BY <1>2, <2>1 DEF At
  <2>. QED BY <2>2
<1>. QED BY <1>1, <1>2 DEF TasksExist

LEMMA PlaceIs ==
  ASSUME TasksDiffer, NEW g \in Progs, NEW q, NEW t, At(g, q, t)
  PROVE  PlaceOf(g) = [at |-> Stage(t), by |-> q]
<1>1. ASSUME NEW x
      PROVE  x \in TasksOf(g) <=> \E r, u : At(g, r, u) /\ x = <<r, u>>
  <2>1. \A s : s \in QueuedTasks(g) <=>
          \E r \in Progs : \E i \in 1..Len(msgs[r]) : QueuedProgram(r, i) = g /\ s = <<r, i>>
    BY DEF QueuedTasks, QueuedProgram
  <2>2. x \in {<<s[1], msgs[s[1]][s[2]]>> : s \in QueuedTasks(g)} <=>
          \E r \in Progs : \E i \in 1..Len(msgs[r]) :
             QueuedProgram(r, i) = g /\ x = <<r, msgs[r][i]>>
    <3>1. ASSUME NEW s \in QueuedTasks(g), x = <<s[1], msgs[s[1]][s[2]]>>
          PROVE  \E r \in Progs : \E i \in 1..Len(msgs[r]) :
                   QueuedProgram(r, i) = g /\ x = <<r, msgs[r][i]>>
      <4>0. PICK r \in Progs : \E i \in 1..Len(msgs[r]) : QueuedProgram(r, i) = g /\ s = <<r, i>>
        BY <2>1
      <4>1. PICK i \in 1..Len(msgs[r]) : QueuedProgram(r, i) = g /\ s = <<r, i>>
        BY <4>0
      <4>2. s[1] = r /\ s[2] = i
        BY <4>1
      <4>. QED BY <3>1, <4>1, <4>2
    <3>2. ASSUME NEW r \in Progs, NEW i \in 1..Len(msgs[r]),
                 QueuedProgram(r, i) = g, x = <<r, msgs[r][i]>>
          PROVE  x \in {<<s[1], msgs[s[1]][s[2]]>> : s \in QueuedTasks(g)}
      <4>1. PICK s : s = <<r, i>>
        OBVIOUS
      <4>2. s \in QueuedTasks(g) /\ s[1] = r /\ s[2] = i
        BY <2>1, <3>2, <4>1
      <4>. QED BY <3>2, <4>2
    <3>. QED BY <3>1, <3>2
  <2>3. x \in {InHand(p) : p \in Holders(g)} <=>
          \E p \in Progs : Holding(p) /\ HeldProgram(p) = g /\ x = InHand(p)
    BY DEF Holders
  <2>4. TasksOf(g) = {<<s[1], msgs[s[1]][s[2]]>> : s \in QueuedTasks(g)}
                       \cup {InHand(p) : p \in Holders(g)}
    BY DEF TasksOf, InHand
  <2>5. \A p : \E r, u : InHand(p) = <<r, u>>
    BY DEF InHand
  <2>. QED BY <2>2, <2>3, <2>4, <2>5 DEF At
<1>2. \A r, u : At(g, r, u) => r = q /\ u = t
  BY DEF At, TasksDiffer
<1>3. TasksOf(g) = {<<q, t>>}
  BY <1>1, <1>2
<1>4. TheTaskOf(g) = <<q, t>>
  BY <1>3 DEF TheTaskOf
<1>. QED BY <1>4 DEF PlaceOf

LEMMA PlacesAre ==
  TasksDiffer => \A g \in Progs : \A q, t : At(g, q, t) => PlaceOf(g) = [at |-> Stage(t), by |-> q]
BY PlaceIs

LEMMA PlacesWillBe ==
  (TasksDiffer => \A g \in Progs : \A q, t : At(g, q, t) => PlaceOf(g) = [at |-> Stage(t), by |-> q])'
BY PlacesAre, PTL

(* A program whose task stays where it is, is where it was. *)
LEMMA PlaceKept ==
  ASSUME TasksDiffer, TasksDiffer', NEW g \in Progs, NEW q, NEW t, At(g, q, t), At(g, q, t)'
  PROVE  PlaceOf(g)' = PlaceOf(g)
<1>1. PlaceOf(g) = [at |-> Stage(t), by |-> q]
  BY PlaceIs
<1>2. PlaceOf(g)' = [at |-> Stage(t), by |-> q]
  BY PlacesWillBe
<1>. QED BY <1>1, <1>2

LEMMA TailOfTasks ==
  ASSUME NEW s \in Seq(Tasks), s # <<>>
  PROVE  /\ Len(Tail(s)) = Len(s) - 1 /\ Len(s) \in Nat
         /\ \A k \in 1..Len(Tail(s)) : Tail(s)[k] = s[k + 1]
OBVIOUS

(* Semaphores, receiving and sending leave the programs where they are. *)
LEMMA CarryingKeepsPlaces ==
  ASSUME PosixInv, PosixInv', NEW p \in Progs,
         WaitForTask(p) \/ Receive(p) \/ SendBlocking(p) \/ PostTask(p)
  PROVE  \A g \in Progs : PlaceOf(g)' = PlaceOf(g)
<1>0. /\ pc \in [Progs -> Labels] /\ task \in [Progs -> Tasks] /\ msgs \in [Progs -> Seq(Tasks)]
      /\ dest \in [Progs -> Progs] /\ out \in [Progs -> Tasks] /\ Types
  BY DEF PosixInv, Types
<1>. SUFFICES ASSUME NEW g \in Progs, NEW q, NEW t, At(g, q, t)
              PROVE  At(g, q, t)'
  BY EveryProgramIsSomewhere, PlaceKept DEF PosixInv
<1>1. CASE WaitForTask(p) \/ PostTask(p)
  <2>1. /\ UNCHANGED <<msgs, task, out>> /\ ~Holding(p)
        /\ \A r \in Progs : r # p => pc'[r] = pc[r] /\ dest'[r] = dest[r]
    BY <1>0, <1>1 DEF WaitForTask, PostTask, Go, Holding
  <2>2. \A r \in Progs : Holding(r) =>
          Holding(r)' /\ HeldProgram(r)' = HeldProgram(r) /\ InHand(r)' = InHand(r)
    BY <2>1 DEF Holding, HeldProgram, InHand
  <2>. QED BY <2>1, <2>2 DEF At, QueuedProgram
<1>2. CASE Receive(p)
  <2>1. \A r \in Progs : Holding(r) =>
          Holding(r)' /\ HeldProgram(r)' = HeldProgram(r) /\ InHand(r)' = InHand(r)
    BY <1>0, <1>2, Received DEF Holding, HeldProgram, InHand
  <2>2. /\ msgs[p] # <<>> /\ msgs'[p] = Tail(msgs[p]) /\ msgs[p] \in Seq(Tasks)
        /\ task'[p] = Head(msgs[p]) /\ pc'[p] = "work"
        /\ \A r \in Progs : r # p => msgs'[r] = msgs[r]
    BY <1>0, <1>2, Received
  <2>3. ASSUME q \in Progs, NEW i \in 1..Len(msgs[q]), QueuedProgram(q, i) = g, msgs[q][i] = t
        PROVE  At(g, q, t)'
    <3>1. CASE q # p
      <4>1. msgs'[q] = msgs[q]
        BY <2>2, <2>3, <3>1
      <4>. QED BY <2>3, <4>1 DEF At, QueuedProgram
    <3>2. CASE q = p /\ i = 1
      <4>1. task'[p] = t
        BY <2>2, <2>3, <3>2
      <4>2. Holding(p)' /\ HeldProgram(p)' = g /\ InHand(p)' = <<p, t>>
        BY <2>2, <2>3, <3>2, <4>1 DEF Holding, HeldProgram, InHand, QueuedProgram
      <4>. QED BY <3>2, <4>2 DEF At
    <3>3. CASE q = p /\ i # 1
      <4>1. PICK j : j = i - 1
        OBVIOUS
      <4>2. j \in 1..Len(msgs'[p]) /\ msgs'[p][j] = msgs[p][i]
        <5>1. /\ Len(msgs'[p]) = Len(msgs[p]) - 1 /\ Len(msgs[p]) \in Nat
              /\ \A k \in 1..Len(msgs'[p]) : msgs'[p][k] = msgs[p][k + 1]
          BY <2>2, TailOfTasks
        <5>2. j \in 1..Len(msgs'[p]) /\ j + 1 = i
          BY <3>3, <4>1, <5>1
        <5>. QED BY <5>1, <5>2
      <4>3. QueuedProgram(p, j)' = g /\ msgs'[p][j] = t
        BY <2>3, <3>3, <4>2 DEF QueuedProgram
      <4>. QED BY <3>3, <4>2, <4>3 DEF At
    <3>. QED BY <3>1, <3>2, <3>3
  <2>. QED BY <2>1, <2>3 DEF At
<1>3. CASE SendBlocking(p)
  <2>1. Holding(p) /\ HeldProgram(p) = ProgramOf(dest[p], out[p]) /\ InHand(p) = <<dest[p], out[p]>>
    BY <1>0, <1>3, Sent DEF Holding, HeldProgram, InHand
  <2>2. PICK d \in Progs, u \in Tasks : d = dest[p] /\ u = out[p]
    BY <1>0
  <2>3. ASSUME NEW r \in Progs, r # p, Holding(r)
        PROVE  Holding(r)' /\ HeldProgram(r)' = HeldProgram(r) /\ InHand(r)' = InHand(r)
    <3>1. pc'[r] = pc[r] /\ task'[r] = task[r] /\ dest'[r] = dest[r] /\ out'[r] = out[r]
      BY <1>0, <1>3, <2>3, Sent
    <3>. QED BY <2>3, <3>1 DEF Holding, HeldProgram, InHand
  <2>4. /\ msgs[d] \in Seq(Tasks) /\ msgs'[d] = Append(msgs[d], u)
        /\ \A r \in Progs : r # d => msgs'[r] = msgs[r]
    BY <1>0, <1>3, <2>2, Sent
  <2>5. \A r \in Progs : \A i \in 1..Len(msgs[r]) :
          i \in 1..Len(msgs'[r]) /\ msgs'[r][i] = msgs[r][i]
    <3>1. \A i \in 1..Len(msgs[d]) : i \in 1..Len(msgs'[d]) /\ msgs'[d][i] = msgs[d][i]
      BY <2>4
    <3>. QED BY <2>4, <3>1
  <2>. PICK h : h = HeldProgram(p)
    OBVIOUS
  <2>6. At(h, d, u)'
    <3>1. PICK n : n = Len(msgs[d]) + 1
      OBVIOUS
    <3>2. n \in 1..Len(msgs'[d]) /\ msgs'[d][n] = u
      BY <2>4, <3>1
    <3>3. QueuedProgram(d, n)' = h
      BY <2>1, <2>2, <3>2 DEF QueuedProgram
    <3>. QED BY <3>2, <3>3 DEF At
  <2>7. ASSUME q \in Progs, NEW i \in 1..Len(msgs[q]), QueuedProgram(q, i) = g, msgs[q][i] = t
        PROVE  At(g, q, t)'
    BY <2>5, <2>7 DEF At, QueuedProgram
  <2>8. ASSUME NEW r \in Progs, Holding(r), HeldProgram(r) = g, <<q, t>> = InHand(r)
        PROVE  At(g, q, t)'
    <3>1. CASE r = p
      BY <2>1, <2>2, <2>6, <2>8, <3>1
    <3>2. CASE r # p
      BY <2>3, <2>8, <3>2 DEF At
    <3>. QED BY <3>1, <3>2
  <2>. QED BY <2>7, <2>8 DEF At
<1>. QED BY <1>1, <1>2, <1>3

(* The abstract place of every program, as ProgrammersPosix maps it. *)
place == [g \in Progs |-> PlaceOf(g)]

(* A decision moves one program as TaskCirculation allows, or is to look at it *)
(* once more.                                                                  *)
LEMMA DecidingMovesPlace ==
  ASSUME PosixInv, PosixInv', NEW p \in Progs,
         WriteProgram(p) \/ Approve(p) \/ Reject(p)
  PROVE  Circulation!Next \/ place' = place
<1>0. /\ pc \in [Progs -> Labels] /\ task \in [Progs -> Tasks]
      /\ dest \in [Progs -> Progs] /\ out \in [Progs -> Tasks] /\ Types
  BY DEF PosixInv, Types
<1>1. PICK to, t : /\ Decide(p, to, t)
                   /\ \/ task[p] = Own /\ to \in Progs \ {p} /\ t = p
                      \/ (IsReview(task[p]) \/ IsReReview(task[p])) /\ to = Author(task[p]) /\ t = Own
                      \/ IsReview(task[p]) /\ to = p /\ t = task[p] + NUM_PROGS
                      \/ IsReReview(task[p]) /\ to = p /\ t = task[p]
  BY DEF WriteProgram, Approve, Reject
<1>2. /\ UNCHANGED msgs /\ pc[p] = "work" /\ pc'[p] = "send"
      /\ \A q \in Progs \ {p} : /\ pc'[q] = pc[q] /\ task'[q] = task[q]
                                /\ dest'[q] = dest[q] /\ out'[q] = out[q]
      /\ dest'[p] = to /\ out'[p] = t
  <2>1. Decide(p, to, t)
    BY <1>1
  <2>. QED BY <1>0, <2>1 DEF Decide, Go
<1>3. Holding(p) /\ Holding(p)'
  BY <1>2 DEF Holding
<1>4. \A q \in Progs : q # p /\ Holding(q) =>
        Holding(q)' /\ HeldProgram(q)' = HeldProgram(q) /\ InHand(q)' = InHand(q)
  BY <1>2 DEF Holding, HeldProgram, InHand
<1>5. PICK h \in Progs : h = ProgramOf(p, task[p])
  BY <1>0, ProgramIsProg
<1>6. HeldProgram(p) = h /\ HeldProgram(p)' = h
  <2>1. ProgramOf(dest'[p], out'[p]) = h
    BY <1>0, <1>1, <1>5, SentIsSameProgram
  <2>. QED BY <1>2, <1>5, <2>1 DEF HeldProgram
<1>7. PlaceOf(h) = [at |-> Stage(task[p]), by |-> p]
  <2>1. At(h, p, task[p])
    BY <1>2, <1>3, <1>6 DEF At, InHand
  <2>. QED BY <2>1, PlaceIs DEF PosixInv
<1>8. PlaceOf(h)' = [at |-> Stage(t), by |-> to]
  <2>1. At(h, to, t)'
    BY <1>2, <1>3, <1>6 DEF At, InHand
  <2>. QED BY <2>1, PlacesWillBe DEF PosixInv
<1>9. \A g \in Progs : g # h => PlaceOf(g)' = PlaceOf(g)
  <2>. SUFFICES ASSUME NEW g \in Progs, g # h, NEW q, NEW u, At(g, q, u)
                PROVE  At(g, q, u)'
    BY EveryProgramIsSomewhere, PlaceKept DEF PosixInv
  <2>1. CASE q \in Progs /\ \E i \in 1..Len(msgs[q]) : QueuedProgram(q, i) = g /\ msgs[q][i] = u
    BY <1>2, <2>1 DEF At, QueuedProgram
  <2>2. ASSUME NEW r \in Progs, Holding(r), HeldProgram(r) = g, <<q, u>> = InHand(r)
        PROVE  At(g, q, u)'
    <3>1. r # p
      BY <1>6, <2>2
    <3>. QED BY <1>4, <2>2, <3>1 DEF At
  <2>. QED BY <2>1, <2>2 DEF At
<1>10. place' = [place EXCEPT ![h] = [at |-> Stage(t), by |-> to]]
  BY <1>8, <1>9 DEF place
<1>11. place[h] = [at |-> Stage(task[p]), by |-> p]
  BY <1>7 DEF place
<1>12. task[p] \in Tasks
  BY <1>0
<1>13. CASE task[p] = Own /\ to \in Progs \ {p} /\ t = p
  <2>1. h = p /\ Stage(task[p]) = "author" /\ Stage(t) = "review"
    BY <1>5, <1>13, ProgrammersAssumption DEF ProgramOf, Stage, Own, IsReview, Progs
  <2>2. Circulation!Submit(h, to)
    BY <1>10, <1>11, <1>13, <2>1 DEF Circulation!Submit, place
  <2>. QED BY <1>13, <2>2 DEF Circulation!Next
<1>14. CASE (IsReview(task[p]) \/ IsReReview(task[p])) /\ to = Author(task[p]) /\ t = Own
  <2>1. task[p] # Own
    BY <1>12, <1>14, ProgrammersAssumption DEF Own, IsReview, IsReReview
  <2>2. h = to /\ Stage(task[p]) # "author" /\ Stage(t) = "author"
    BY <1>5, <1>14, <2>1 DEF ProgramOf, Stage
  <2>3. Circulation!Approve(h)
    BY <1>10, <1>11, <2>2 DEF Circulation!Approve, Circulation!WithAuthor, place
  <2>. QED BY <2>3 DEF Circulation!Next
<1>15. CASE IsReview(task[p]) /\ to = p /\ t = task[p] + NUM_PROGS
  <2>1. Stage(task[p]) = "review" /\ Stage(t) = "rereview"
    BY <1>12, <1>15, ProgrammersAssumption DEF Stage, Own, IsReview, Tasks
  <2>2. place' = [place EXCEPT ![h].at = "rereview"]
    <3>1. [place[h] EXCEPT !.at = "rereview"] = [at |-> "rereview", by |-> p]
      BY <1>11
    <3>. QED BY <1>10, <1>15, <2>1, <3>1
  <2>3. Circulation!Reject(h)
    BY <1>11, <2>1, <2>2 DEF Circulation!Reject, place
  <2>. QED BY <2>3 DEF Circulation!Next
<1>16. CASE IsReReview(task[p]) /\ to = p /\ t = task[p]
  BY <1>10, <1>11, <1>16 DEF place
<1>. QED BY <1>1, <1>13, <1>14, <1>15, <1>16

LEMMA CirculationStep == PosixInv /\ PosixInv' /\ [PosixNext]_vars => [Circulation!Next]_place
<1>. SUFFICES ASSUME PosixInv, PosixInv', [PosixNext]_vars
              PROVE  Circulation!Next \/ place' = place
  OBVIOUS
<1>1. CASE UNCHANGED vars
  <2>1. \A g, q, t : At(g, q, t) => At(g, q, t)'
    BY <1>1 DEF vars, At, QueuedProgram, Holding, HeldProgram, InHand
  <2>2. \A g \in Progs : PlaceOf(g)' = PlaceOf(g)
    BY <2>1, EveryProgramIsSomewhere, PlaceKept DEF PosixInv
  <2>. QED BY <2>2 DEF place
<1>2. ASSUME NEW p \in Progs, PosixStep(p) PROVE Circulation!Next \/ place' = place
  <2>1. CASE WriteProgram(p) \/ Approve(p) \/ Reject(p)
    BY <2>1, DecidingMovesPlace
  <2>2. CASE WaitForTask(p) \/ Receive(p) \/ SendBlocking(p) \/ PostTask(p)
    <3>1. \A g \in Progs : PlaceOf(g)' = PlaceOf(g)
      BY <2>2, CarryingKeepsPlaces
    <3>. QED BY <3>1 DEF place
  <2>. QED BY <1>2, <2>1, <2>2 DEF PosixStep
<1>. QED BY <1>1, <1>2 DEF PosixNext

LEMMA CirculationInit == Init => Circulation!Init
<1>. SUFFICES ASSUME Init PROVE place = [g \in Progs |-> [at |-> "author", by |-> g]]
  BY DEF Circulation!Init, Circulation!WithAuthor, place
<1>. SUFFICES ASSUME NEW g \in Progs PROVE PlaceOf(g) = [at |-> "author", by |-> g]
  BY DEF place
<1>1. 1 \in 1..Len(msgs[g]) /\ msgs[g][1] = Own /\ QueuedProgram(g, 1) = g
  BY DEF Init, Everyone, QueuedProgram, ProgramOf
<1>2. At(g, g, Own)
  BY <1>1 DEF At
<1>. QED BY <1>2, PlaceIs, PosixInit DEF PosixInv, Stage

(* Message queues and semaphores only carry the programs about: every step     *)
(* sends one program on as TaskCirculation allows, or moves none.              *)
THEOREM PosixImplementsCirculation == PosixSpec => Circulation!Spec
BY PosixInvariant, CirculationInit, CirculationStep, PTL
DEF PosixSpec, Circulation!Spec, place
=============================================================================
