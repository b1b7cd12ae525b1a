------------------------------ MODULE ClockProofs ------------------------------
(***************************************************************************)
(* Proofs about the clock of dz9, for every number of readers and writers, *)
(* started, signalled and killed in any order: a writer never uses a       *)
(* memory that is not ready, no turn is lost or taken twice, and a writer  *)
(* that is alone with a memory never mixes more than two times in a line.  *)
(***************************************************************************)
EXTENDS Clock, FiniteSetTheorems, TLAPS

(* Where the processes are: a writer uses only a memory that is ready, and a   *)
(* memory becomes ready when its reader has made the semaphores, so that       *)
(* sem_init never runs under a writer.                                         *)
Places ==
  /\ pc \in [Procs -> ReaderPlaces \cup WriterPlaces]
  /\ \A r \in Readers : pc[r] \in ReaderPlaces
  /\ \A w \in Writers : pc[w] \in WriterPlaces
  /\ \A w \in Writers : pc[w] \notin {"start", "check", "refused"} => at[w] \in mem_ready
  /\ \A r \in Readers :
       /\ pc[r] = "init" => r \in sized
       /\ r \in mem_ready => pc[r] \notin {"start", "truncate", "init", "refused"}

Data ==
  /\ named \in Readers \cup {None} /\ sized \subseteq Readers /\ mem_ready \subseteq sized
  /\ sem1 \in [Readers -> Nat] /\ sem2 \in [Readers -> Nat]
  /\ time_str \in [Readers -> [Halves -> Ages]] /\ line \in [Readers -> [Halves -> Ages]]
  /\ at \in [Writers -> Readers \cup {None}]
  /\ is_continue \in [Procs -> BOOLEAN] /\ alive \subseteq Procs

Tokens(m) == sem1[m] + sem2[m] + Cardinality(Printing(m)) = Cardinality(Unanswered(m))

IInv == Places /\ Data /\ TokensConserved

----------------------------------------------------------------------------
(* A reader that moves keeps all writers where they are, *)
LEMMA ReaderMoves ==
  ASSUME Places, NEW r \in Readers, NEW to \in ReaderPlaces,
         pc' = [pc EXCEPT ![r] = to], at' = at,
         sized \subseteq sized', mem_ready \subseteq mem_ready', mem_ready' \subseteq mem_ready \cup {r},
         to = "init" => r \in sized',
         r \in mem_ready' => to \notin {"start", "truncate", "init", "refused"}
  PROVE  Places'
<1>1. /\ r \in Procs /\ pc'[r] = to
      /\ \A q \in Procs : q # r => pc'[q] = pc[q]
      /\ pc' \in [Procs -> ReaderPlaces \cup WriterPlaces]
  BY DEF Places, Procs
<1>2. \A w \in Writers : w \in Procs /\ w # r
  BY ClockAssumption DEF Procs
<1>3. \A q \in Readers : q \in Procs
  BY DEF Procs
<1>. QED BY <1>1, <1>2, <1>3 DEF Places

(* and a writer that moves all readers. *)
LEMMA WriterMoves ==
  ASSUME Places, NEW w \in Writers, NEW to \in WriterPlaces,
         pc' = [pc EXCEPT ![w] = to], UNCHANGED <<sized, mem_ready>>,
         \A v \in Writers : v # w => at'[v] = at[v],
         to \notin {"start", "check", "refused"} => at'[w] \in mem_ready
  PROVE  Places'
<1>1. /\ w \in Procs /\ pc'[w] = to
      /\ \A q \in Procs : q # w => pc'[q] = pc[q]
      /\ pc' \in [Procs -> ReaderPlaces \cup WriterPlaces]
  BY DEF Places, Procs
<1>2. \A r \in Readers : r \in Procs /\ r # w
  BY ClockAssumption DEF Procs
<1>3. \A v \in Writers : v \in Procs
  BY DEF Procs
<1>. QED BY <1>1, <1>2, <1>3 DEF Places

LEMMA ReaderPlacesStep ==
  ASSUME Places, Data, NEW r \in Readers, Create(r) \/ Reader(r) PROVE Places'
<1>0. r \in mem_ready => pc[r] \notin {"start", "truncate", "init", "refused"}
  BY DEF Places
<1>1. CASE Create(r)
  BY <1>0, <1>1, ReaderMoves DEF Create, Start, Go, ReaderPlaces
<1>2. CASE Ftruncate(r)
  BY <1>0, <1>2, ReaderMoves DEF Ftruncate, Go, ReaderPlaces
<1>3. CASE SemInit(r)
  BY <1>0, <1>3, ReaderMoves DEF SemInit, Go, ReaderPlaces
<1>4. CASE TestReader(r)
  BY <1>0, <1>4, ReaderMoves DEF TestReader, Go, ReaderPlaces, memory
<1>5. CASE WaitForTime(r)
  BY <1>0, <1>5, ReaderMoves DEF WaitForTime, Wait, Go, ReaderPlaces, memory
<1>6. ASSUME NEW h \in Halves, PrintHalf(r, h) PROVE Places'
  BY <1>0, <1>6, ReaderMoves DEF PrintHalf, Go, ReaderPlaces, memory
<1>7. CASE PostPrinted(r)
  BY <1>0, <1>7, ReaderMoves DEF PostPrinted, Go, ReaderPlaces, memory
<1>8. CASE Unlink(r)
  BY <1>0, <1>8, ReaderMoves DEF Unlink, Go, ReaderPlaces
<1>. QED
  BY <1>1, <1>2, <1>3, <1>4, <1>5, <1>6, <1>7, <1>8 DEF Reader, Halves

LEMMA WriterPlacesStep ==
  ASSUME Places, Data, NEW w \in Writers, ShmOpen(w) \/ Writer(w) PROVE Places'
<1>0. pc[w] \notin {"start", "check", "refused"} => at[w] \in mem_ready
  BY DEF Places
<1>1. CASE ShmOpen(w)
  <2>1. \A v \in Writers : v # w => at'[v] = at[v]
    BY <1>1 DEF ShmOpen, Data
  <2>2. PICK to \in {"refused", "check"} : pc' = [pc EXCEPT ![w] = to]
    BY <1>1 DEF ShmOpen, Start, Go
  <2>. QED BY <1>1, <2>1, <2>2, WriterMoves DEF ShmOpen, WriterPlaces, memory
<1>2. CASE CheckReady(w)
  BY <1>0, <1>2, WriterMoves DEF CheckReady, Go, WriterPlaces, memory
<1>3. CASE TestWriter(w)
  BY <1>0, <1>3, WriterMoves DEF TestWriter, Go, WriterPlaces, memory
<1>4. CASE PostTime(w)
  BY <1>0, <1>4, WriterMoves DEF PostTime, Go, WriterPlaces, memory
<1>5. ASSUME NEW h \in Halves, CopyHalf(w, h) PROVE Places'
  BY <1>0, <1>5, WriterMoves DEF CopyHalf, Go, WriterPlaces, memory
<1>6. CASE WaitForPrinted(w)
  BY <1>0, <1>6, WriterMoves DEF WaitForPrinted, Wait, Go, WriterPlaces, memory
<1>. QED
  BY <1>1, <1>2, <1>3, <1>4, <1>5, <1>6 DEF Writer, Halves

LEMMA SignalPlacesStep ==
  ASSUME Places, Data, NEW p \in Procs, Signal(p) \/ Kill(p) PROVE Places'
<1>1. CASE UNCHANGED pc
  <2>1. UNCHANGED <<memory, at>>
    BY DEF Signal, Kill
  <2>. QED BY <1>1, <2>1 DEF Places, memory
<1>2. CASE pc[p] = "blocked" /\ p \in Readers /\ Signal(p)
  <2>1. pc' = [pc EXCEPT ![p] = "unlink"] /\ UNCHANGED <<memory, at>>
    BY <1>2 DEF Signal
  <2>2. p \in mem_ready => pc[p] \notin {"start", "truncate", "init", "refused"}
    BY <1>2 DEF Places
  <2>. QED BY <1>2, <2>1, <2>2, ReaderMoves DEF ReaderPlaces, memory
<1>3. CASE pc[p] = "blocked" /\ p \notin Readers /\ Signal(p)
  <2>1. pc' = [pc EXCEPT ![p] = "broken_off"] /\ UNCHANGED <<memory, at>>
    BY <1>3 DEF Signal
  <2>2. p \in Writers /\ at[p] \in mem_ready
    BY <1>3 DEF Procs, Places
  <2>. QED BY <2>1, <2>2, WriterMoves DEF WriterPlaces, memory
<1>. QED BY <1>1, <1>2, <1>3 DEF Signal, Kill

LEMMA PlacesStep == ASSUME Places, Data, [Next]_vars PROVE Places'
<1>1. CASE UNCHANGED vars
  BY <1>1 DEF vars, memory, Places
<1>. QED BY <1>1, ReaderPlacesStep, WriterPlacesStep, SignalPlacesStep DEF Next

----------------------------------------------------------------------------
(* Ages stay ages when they grow. *)
LEMMA OlderAges == ASSUME NEW ages \in [Halves -> Ages] PROVE Older(ages) \in [Halves -> Ages]
BY DEF Older, Ages, OLD, Halves

LEMMA ReaderDataStep ==
  ASSUME Places, Data, NEW r \in Readers, Create(r) \/ Reader(r) PROVE Data'
<1>. USE DEF Data, memory
<1>1. CASE Create(r)
  BY <1>1 DEF Create
<1>2. CASE Ftruncate(r)
  BY <1>2 DEF Ftruncate
<1>3. CASE SemInit(r)
  <2>1. r \in sized
    BY <1>3 DEF SemInit, Go, Places
  <2>. QED BY <1>3, <2>1 DEF SemInit
<1>4. CASE TestReader(r)
  BY <1>4 DEF TestReader
<1>5. CASE WaitForTime(r)
  BY <1>5 DEF WaitForTime, Wait
<1>6. ASSUME NEW h \in Halves, PrintHalf(r, h) PROVE Data'
  <2>1. time_str[r][h] \in Ages
    OBVIOUS
  <2>. QED BY <1>6, <2>1 DEF PrintHalf
<1>7. CASE PostPrinted(r)
  <2>1. Blank \in [Halves -> Ages]
    BY DEF Blank, Ages, OLD
  <2>. QED BY <1>7, <2>1 DEF PostPrinted, Post
<1>8. CASE Unlink(r)
  BY <1>8 DEF Unlink
<1>. HIDE DEF Data, memory
<1>. QED
  BY <1>1, <1>2, <1>3, <1>4, <1>5, <1>6, <1>7, <1>8 DEF Reader, Halves

LEMMA WriterDataStep ==
  ASSUME Places, Data, NEW w \in Writers, ShmOpen(w) \/ Writer(w) PROVE Data'
<1>. USE DEF Data, memory
<1>0. pc[w] \notin {"start", "check", "refused"} => at[w] \in Readers
  BY DEF Places
<1>1. CASE ShmOpen(w)
  BY <1>1 DEF ShmOpen
<1>2. CASE CheckReady(w)
  BY <1>2 DEF CheckReady
<1>3. CASE TestWriter(w)
  BY <1>3 DEF TestWriter
<1>4. CASE PostTime(w)
  <2>1. at[w] \in Readers
    BY <1>0, <1>4 DEF PostTime, Go
  <2>2. Older(time_str[at[w]]) \in [Halves -> Ages] /\ Older(line[at[w]]) \in [Halves -> Ages]
    BY <2>1, OlderAges
  <2>3. sem1' \in [Readers -> Nat]
    <3>1. sem1' = [sem1 EXCEPT ![at[w]] = sem1[at[w]] + 1]
      BY <1>4 DEF PostTime, Post
    <3>2. sem1[at[w]] + 1 \in Nat
      BY <2>1
    <3>. QED BY <2>1, <3>1, <3>2
  <2>4. time_str' \in [Readers -> [Halves -> Ages]]
    BY <1>4, <2>1, <2>2 DEF PostTime
  <2>5. line' \in [Readers -> [Halves -> Ages]]
    BY <1>4, <2>1, <2>2 DEF PostTime
  <2>. QED BY <1>4, <2>3, <2>4, <2>5 DEF PostTime
<1>5. ASSUME NEW h \in Halves, CopyHalf(w, h) PROVE Data'
  <2>1. at[w] \in Readers
    BY <1>0, <1>5 DEF CopyHalf, Go
  <2>2. [time_str[at[w]] EXCEPT ![h] = 0] \in [Halves -> Ages]
    BY <2>1 DEF Ages, OLD
  <2>3. time_str' = [time_str EXCEPT ![at[w]] = [time_str[at[w]] EXCEPT ![h] = 0]]
    BY <1>5 DEF CopyHalf
  <2>4. time_str' \in [Readers -> [Halves -> Ages]]
    BY <2>1, <2>2, <2>3
  <2>. QED BY <1>5, <2>4 DEF CopyHalf
<1>6. CASE WaitForPrinted(w)
  <2>1. at[w] \in Readers
    BY <1>0, <1>6 DEF WaitForPrinted, Wait
  <2>2. sem2' \in [Readers -> Nat]
    BY <1>6, <2>1 DEF WaitForPrinted, Wait
  <2>. QED BY <1>6, <2>2 DEF WaitForPrinted
<1>. HIDE DEF Data, memory
<1>. QED
  BY <1>1, <1>2, <1>3, <1>4, <1>5, <1>6 DEF Writer, Halves

LEMMA DataStep == ASSUME Places, Data, [Next]_vars PROVE Data'
<1>1. CASE UNCHANGED vars
  BY <1>1 DEF vars, memory, Data
<1>2. ASSUME NEW p \in Procs, Signal(p) \/ Kill(p) PROVE Data'
  BY <1>2 DEF Signal, Kill, Data, memory
<1>. QED BY <1>1, <1>2, ReaderDataStep, WriterDataStep DEF Next

----------------------------------------------------------------------------
LEMMA UnansweredIsFinite ==
  \A m \in Readers : /\ IsFiniteSet(Unanswered(m)) /\ Cardinality(Unanswered(m)) \in Nat
                     /\ IsFiniteSet(Unanswered(m)') /\ Cardinality(Unanswered(m)') \in Nat
<1>. TAKE m \in Readers
<1>1. Unanswered(m) \subseteq Writers /\ Unanswered(m)' \subseteq Writers
  BY DEF Unanswered
<1>. QED BY <1>1, ClockAssumption, FS_Subset, FS_CardinalityType

LEMMA PrintingCount ==
  \A m \in Readers :
    /\ Cardinality(Printing(m)) = IF pc[m] \in {"print", "print_on", "post"} THEN 1 ELSE 0
    /\ Cardinality(Printing(m)') = IF pc'[m] \in {"print", "print_on", "post"} THEN 1 ELSE 0
<1>. TAKE m \in Readers
<1>1. /\ Printing(m) = IF pc[m] \in {"print", "print_on", "post"} THEN {m} ELSE {}
      /\ Printing(m)' = IF pc'[m] \in {"print", "print_on", "post"} THEN {m} ELSE {}
  BY DEF Printing
<1>. QED BY <1>1, FS_Singleton, FS_EmptySet

(* A step of a reader changes at most its own semaphores and its own place. *)
LEMMA ReaderTokensStep ==
  ASSUME IInv, NEW r \in Readers, Create(r) \/ Reader(r) PROVE TokensConserved'
<1>. USE DEF IInv
<1>0. /\ \A w \in Writers : at'[w] = at[w] /\ pc'[w] = pc[w]
      /\ \A m \in Readers : m # r => pc'[m] = pc[m]
  <2>1. \A p \in Procs : p # r => pc'[p] = pc[p]
    BY DEF Places, Create, Reader, Ftruncate, SemInit, TestReader, WaitForTime, Wait, PrintHalf,
           PostPrinted, Unlink, Start, Go
  <2>2. at' = at
    BY DEF Create, Reader, Ftruncate, SemInit, TestReader, WaitForTime, PrintHalf,
           PostPrinted, Unlink
  <2>. QED BY <2>1, <2>2, ClockAssumption DEF Procs
<1>1. \A m \in Readers : Unanswered(m)' = Unanswered(m)
  BY <1>0 DEF Unanswered
<1>2. r \in Procs
  BY DEF Procs
<1>3. \A m \in Readers : m # r => sem1'[m] = sem1[m] /\ sem2'[m] = sem2[m]
  BY DEF Data, Create, Reader, Ftruncate, SemInit, TestReader, WaitForTime, Wait, PrintHalf,
         PostPrinted, Post, Unlink
<1>4. Tokens(r)
  BY DEF TokensConserved, Tokens
<1>5. Tokens(r)'
  <2>0. /\ sem1[r] \in Nat /\ sem2[r] \in Nat /\ Cardinality(Unanswered(r)) \in Nat
        /\ Cardinality(Unanswered(r)') = Cardinality(Unanswered(r))
    BY <1>1, UnansweredIsFinite DEF Data
  <2>a. ASSUME UNCHANGED <<sem1[r], sem2[r], Cardinality(Printing(r))>> PROVE Tokens(r)'
    BY <1>4, <2>a, <2>0 DEF Tokens
  <2>b. pc \in [Procs -> ReaderPlaces \cup WriterPlaces]
    BY DEF Places
  <2>1. CASE Create(r) \/ Ftruncate(r) \/ TestReader(r) \/ PrintHalf(r, 1) \/ PrintHalf(r, 2) \/ Unlink(r)
    BY <1>2, <2>a, <2>b, <2>1, PrintingCount
    DEF Create, Start, Ftruncate, TestReader, PrintHalf, Unlink, Go
  <2>2. CASE SemInit(r)
    <3>1. Unanswered(r) = {}
      <4>1. r \notin mem_ready
        BY <2>2 DEF SemInit, Go, Places
      <4>. QED BY <4>1 DEF Unanswered, Places
    <3>2. Cardinality(Unanswered(r)') = 0
      BY <1>1, <3>1, FS_EmptySet
    <3>3. sem1'[r] = 0 /\ sem2'[r] = 0 /\ pc'[r] = "test"
      BY <1>2, <2>b, <2>2 DEF SemInit, Go, Data
    <3>4. Cardinality(Printing(r)') = 0
      BY <3>3, PrintingCount
    <3>. QED BY <3>2, <3>3, <3>4 DEF Tokens
  <2>3. CASE WaitForTime(r)
    <3>1. sem2'[r] = sem2[r] /\ Cardinality(Printing(r)) = 0
      BY <2>3, PrintingCount DEF WaitForTime, Wait
    <3>2. CASE sem1[r] > 0
      <4>1. sem1'[r] = sem1[r] - 1 /\ pc'[r] = "print"
        BY <1>2, <2>b, <2>3, <3>2 DEF WaitForTime, Wait, Data
      <4>2. Cardinality(Printing(r)') = 1
        BY <4>1, PrintingCount
      <4>. QED BY <1>4, <2>0, <3>1, <4>1, <4>2 DEF Tokens
    <3>3. CASE ~(sem1[r] > 0)
      <4>1. sem1'[r] = sem1[r] /\ pc'[r] = "blocked"
        BY <1>2, <2>b, <2>3, <3>3 DEF WaitForTime, Wait, Go
      <4>. QED BY <2>a, <3>1, <4>1, PrintingCount
    <3>. QED BY <3>2, <3>3
  <2>4. CASE PostPrinted(r)
    <3>1. sem1'[r] = sem1[r] /\ sem2'[r] = sem2[r] + 1 /\ pc[r] = "post" /\ pc'[r] = "test"
      BY <1>2, <2>b, <2>4 DEF PostPrinted, Post, Go, Data
    <3>2. Cardinality(Printing(r)) = 1 /\ Cardinality(Printing(r)') = 0
      BY <3>1, PrintingCount
    <3>. QED BY <1>4, <2>0, <3>1, <3>2 DEF Tokens
  <2>. QED BY <2>1, <2>2, <2>3, <2>4 DEF Reader
<1>6. \A m \in Readers : m # r => Tokens(m)'
  BY <1>0, <1>1, <1>3, PrintingCount DEF TokensConserved, Tokens
<1>. QED BY <1>5, <1>6 DEF TokensConserved, Tokens

(* A step of a writer changes at most the semaphores of its own memory, and    *)
(* whether it waits for an answer there.                                       *)
LEMMA WriterTokensStep ==
  ASSUME IInv, NEW w \in Writers, ShmOpen(w) \/ Writer(w) PROVE TokensConserved'
<1>. USE DEF IInv
<1>. DEFINE Waits == {"copy", "copy_on", "wait", "blocked", "broken_off"}
<1>0. /\ w \in Procs /\ \A v \in Writers : v # w => pc'[v] = pc[v] /\ at'[v] = at[v]
      /\ \A m \in Readers : pc'[m] = pc[m]
  <2>1. \A p \in Procs : p # w => pc'[p] = pc[p]
    BY DEF Places, ShmOpen, Writer, CheckReady, TestWriter, PostTime, CopyHalf, WaitForPrinted,
           Wait, Start, Go
  <2>2. \A v \in Writers : v # w => at'[v] = at[v]
    BY DEF Data, ShmOpen, Writer, CheckReady, TestWriter, PostTime, CopyHalf, WaitForPrinted
  <2>. QED BY <2>1, <2>2, ClockAssumption DEF Procs
<1>1. \A m \in Readers : Cardinality(Printing(m)') = Cardinality(Printing(m))
  BY <1>0, PrintingCount
<1>2. ASSUME pc[w] \notin Waits, pc'[w] \notin Waits, UNCHANGED <<sem1, sem2>>
      PROVE  TokensConserved'
  <2>1. \A m \in Readers : Unanswered(m)' = Unanswered(m)
    BY <1>0, <1>2 DEF Unanswered
  <2>. QED BY <1>1, <1>2, <2>1 DEF TokensConserved
<1>3. ASSUME pc[w] \in Waits, pc'[w] \in Waits, UNCHANGED <<at, sem1, sem2>>
      PROVE  TokensConserved'
  <2>1. \A m \in Readers : Unanswered(m)' = Unanswered(m)
    BY <1>0, <1>3 DEF Unanswered
  <2>. QED BY <1>1, <1>3, <2>1 DEF TokensConserved
<1>4. CASE ShmOpen(w) \/ CheckReady(w) \/ TestWriter(w)
  BY <1>0, <1>2, <1>4 DEF ShmOpen, Start, CheckReady, TestWriter, Go, Places
<1>5. CASE CopyHalf(w, 1) \/ CopyHalf(w, 2)
  BY <1>0, <1>3, <1>5 DEF CopyHalf, Go, Places
<1>6. CASE PostTime(w)
  <2>1. /\ pc[w] = "post" /\ pc'[w] = "copy" /\ at' = at /\ sem2' = sem2
        /\ sem1' = [sem1 EXCEPT ![at[w]] = sem1[at[w]] + 1]
    BY <1>0, <1>6 DEF PostTime, Post, Go, Places
  <2>2. PICK r \in Readers : r = at[w]
    BY <2>1 DEF Places, Data
  <2>3. \A m \in Readers : m # r => Unanswered(m)' = Unanswered(m) /\ sem1'[m] = sem1[m]
    BY <1>0, <2>1, <2>2 DEF Unanswered, Data
  <2>4. w \notin Unanswered(r) /\ Unanswered(r)' = Unanswered(r) \cup {w}
    BY <1>0, <2>1, <2>2 DEF Unanswered
  <2>5. Cardinality(Unanswered(r)') = Cardinality(Unanswered(r)) + 1
    BY <2>4, UnansweredIsFinite, FS_AddElement
  <2>6. sem1'[r] = sem1[r] + 1
    BY <2>1, <2>2 DEF Data
  <2>7. Tokens(r) /\ sem1[r] \in Nat /\ sem2[r] \in Nat /\ sem2'[r] = sem2[r]
    BY <2>1 DEF TokensConserved, Tokens, Data
  <2>8. /\ Cardinality(Printing(r)) \in {0, 1} /\ Cardinality(Unanswered(r)) \in Nat
        /\ Cardinality(Printing(r)') = Cardinality(Printing(r))
    BY <1>1, PrintingCount, UnansweredIsFinite
  <2>9. Tokens(r)'
    BY <2>5, <2>6, <2>7, <2>8 DEF Tokens
  <2>. QED BY <1>1, <2>1, <2>3, <2>9 DEF TokensConserved, Tokens
<1>7. CASE WaitForPrinted(w)
  <2>1. pc[w] \in {"wait", "blocked"} /\ at' = at /\ sem1' = sem1
    BY <1>7 DEF WaitForPrinted, Wait
  <2>2. PICK r \in Readers : r = at[w]
    BY <2>1 DEF Places, Data
  <2>3. CASE sem2[r] > 0
    <3>1. sem2' = [sem2 EXCEPT ![r] = sem2[r] - 1] /\ pc'[w] = "test"
      BY <1>0, <1>7, <2>2, <2>3 DEF WaitForPrinted, Wait, Places
    <3>2. \A m \in Readers : m # r => Unanswered(m)' = Unanswered(m) /\ sem2'[m] = sem2[m]
      BY <1>0, <2>1, <2>2, <3>1 DEF Unanswered, Data
    <3>3. w \in Unanswered(r) /\ Unanswered(r)' = Unanswered(r) \ {w}
      BY <1>0, <2>1, <2>2, <3>1 DEF Unanswered
    <3>4. Cardinality(Unanswered(r)') = Cardinality(Unanswered(r)) - 1
      BY <3>3, UnansweredIsFinite, FS_RemoveElement
    <3>5. sem2'[r] = sem2[r] - 1
      BY <3>1 DEF Data
    <3>6. Tokens(r)'
      BY <1>1, <2>1, <3>4, <3>5, PrintingCount, UnansweredIsFinite DEF TokensConserved, Tokens, Data
    <3>. QED BY <1>1, <2>1, <3>2, <3>6 DEF TokensConserved, Tokens
  <2>4. CASE ~(sem2[r] > 0)
    <3>1. pc'[w] = "blocked" /\ sem2' = sem2
      BY <1>0, <1>7, <2>2, <2>4 DEF WaitForPrinted, Wait, Go, Places
    <3>. QED BY <1>3, <2>1, <3>1
  <2>. QED BY <2>3, <2>4
<1>. QED BY <1>4, <1>5, <1>6, <1>7 DEF Writer

LEMMA TokensStep == ASSUME IInv, [Next]_vars PROVE TokensConserved'
<1>1. ASSUME UNCHANGED <<sem1, sem2, at>>,
             \A m \in Readers : pc'[m] \in {"print", "print_on", "post"}
                                  <=> pc[m] \in {"print", "print_on", "post"},
             \A w \in Writers : pc'[w] \in {"copy", "copy_on", "wait", "blocked", "broken_off"}
                                  <=> pc[w] \in {"copy", "copy_on", "wait", "blocked", "broken_off"}
      PROVE  TokensConserved'
  <2>1. \A m \in Readers : Unanswered(m)' = Unanswered(m) /\ Printing(m)' = Printing(m)
    BY <1>1 DEF Unanswered, Printing
  <2>. QED BY <1>1, <2>1 DEF IInv, TokensConserved
<1>2. CASE UNCHANGED vars
  BY <1>1, <1>2 DEF vars
<1>3. ASSUME NEW p \in Procs, Signal(p) \/ Kill(p) PROVE TokensConserved'
  <2>1. UNCHANGED <<sem1, sem2, at>>
    BY <1>3 DEF Signal, Kill
  <2>2. \/ pc' = pc
        \/ /\ pc[p] = "blocked"
           /\ pc' = [pc EXCEPT ![p] = IF p \in Readers THEN "unlink" ELSE "broken_off"]
    BY <1>3 DEF Signal, Kill
  <2>3. pc \in [Procs -> ReaderPlaces \cup WriterPlaces]
    BY DEF IInv, Places
  <2>. QED BY <1>1, <2>1, <2>2, <2>3, ClockAssumption DEF Procs
<1>. QED BY <1>2, <1>3, ReaderTokensStep, WriterTokensStep DEF Next

----------------------------------------------------------------------------
LEMMA ClockInit == Init => IInv
<1>. SUFFICES ASSUME Init PROVE IInv
  OBVIOUS
<1>1. Places
  BY ClockAssumption DEF Init, Places, Procs, ReaderPlaces, WriterPlaces
<1>2. Data
  BY DEF Init, Data, Blank, Ages, OLD
<1>3. \A m \in Readers : Unanswered(m) = {} /\ Printing(m) = {}
  BY DEF Init, Unanswered, Printing, Procs
<1>4. TokensConserved
  BY <1>3, FS_EmptySet DEF Init, TokensConserved
<1>. QED BY <1>1, <1>2, <1>4 DEF IInv

LEMMA ClockInvariant == Spec => []IInv
<1>1. IInv /\ [Next]_vars => IInv'
  BY PlacesStep, DataStep, TokensStep DEF IInv
<1>. QED BY <1>1, ClockInit, PTL DEF Spec

(* Every variable keeps its type, and no writer is in a memory that is not     *)
(* ready, whoever is started, signalled or killed when.                        *)
THEOREM ClockTypeCorrect == Spec => []TypeOK
<1>1. IInv => TypeOK
  BY DEF IInv, Places, Data, TypeOK
<1>. QED BY <1>1, ClockInvariant, PTL

(* No turn is lost and none is taken twice, whatever the number of readers and *)
(* writers and however they are interleaved, signalled and killed.             *)
THEOREM TokensCorrect == Spec => []TokensConserved
<1>1. IInv => TokensConserved
  BY DEF IInv
<1>. QED BY <1>1, ClockInvariant, PTL

----------------------------------------------------------------------------
(* The ages of what is in the memory and on the line. *)

(* The writers that have used memory m; killed ones and those that have gone   *)
(* home are among them, since what they have posted stays.                     *)
Active(m) == {w \in Writers : at[w] = m /\ pc[w] \notin {"start", "check", "refused"}}
Alone(m) == \A v, w \in Active(m) : v = w
Copying == {"copy", "copy_on"}

(* With one writer only, nothing is older than the time before the latest, and *)
(* but for the copying the latest is in the memory.                            *)
AgesAlone ==
  \A m \in Readers : Alone(m) =>
    /\ \A h \in Halves : time_str[m][h] <= 1 /\ line[m][h] <= 1
    /\ (\A w \in Active(m) : pc[w] \notin Copying) => time_str[m] = Blank
    /\ \A w \in Active(m) : pc[w] = "copy_on" => time_str[m][1] = 0

(* The steps that neither post nor copy. *)
LEMMA AgesKept ==
  ASSUME AgesAlone, time_str' = time_str,
         \A m \in Readers : Active(m)' = Active(m),
         \A w \in Writers : pc'[w] = pc[w] \/ (pc[w] \notin Copying /\ pc'[w] \notin Copying),
         \A m \in Readers, h \in Halves : line'[m][h] \in {line[m][h], time_str[m][h], 0}
  PROVE  AgesAlone'
<1>. SUFFICES ASSUME NEW m \in Readers, Alone(m)'
              PROVE  /\ \A h \in Halves : time_str'[m][h] <= 1 /\ line'[m][h] <= 1
                     /\ (\A w \in Active(m)' : pc'[w] \notin Copying) => time_str'[m] = Blank
                     /\ \A w \in Active(m)' : pc'[w] = "copy_on" => time_str'[m][1] = 0
  BY DEF AgesAlone
<1>1. Active(m)' = Active(m) /\ \A w \in Active(m) : w \in Writers
  BY DEF Active
<1>2. Alone(m)
  BY <1>1 DEF Alone
<1>3. /\ \A h \in Halves : time_str[m][h] <= 1 /\ line[m][h] <= 1
      /\ (\A w \in Active(m) : pc[w] \notin Copying) => time_str[m] = Blank
      /\ \A w \in Active(m) : pc[w] = "copy_on" => time_str[m][1] = 0
  BY <1>2 DEF AgesAlone
<1>4. \A h \in Halves : time_str'[m][h] <= 1 /\ line'[m][h] <= 1
  BY <1>3
<1>5. (\A w \in Active(m)' : pc'[w] \notin Copying) => time_str'[m] = Blank
  BY <1>1, <1>3
<1>6. \A w \in Active(m)' : pc'[w] = "copy_on" => time_str'[m][1] = 0
  BY <1>1, <1>3 DEF Copying
<1>. QED BY <1>4, <1>5, <1>6

LEMMA ReaderAgesStep ==
  ASSUME IInv, AgesAlone, NEW r \in Readers, Create(r) \/ Reader(r) PROVE AgesAlone'
<1>. USE DEF IInv
<1>1. \A w \in Writers : at'[w] = at[w] /\ pc'[w] = pc[w]
  <2>1. \A p \in Procs : p # r => pc'[p] = pc[p]
    BY DEF Places, Create, Reader, Ftruncate, SemInit, TestReader, WaitForTime, Wait, PrintHalf,
           PostPrinted, Unlink, Start, Go
  <2>2. at' = at
    BY DEF Create, Reader, Ftruncate, SemInit, TestReader, WaitForTime, PrintHalf,
           PostPrinted, Unlink
  <2>. QED BY <2>1, <2>2, ClockAssumption DEF Procs
<1>2. \A m \in Readers : Active(m)' = Active(m)
  BY <1>1 DEF Active
<1>3. time_str' = time_str
  BY DEF Create, Reader, Ftruncate, SemInit, TestReader, WaitForTime, PrintHalf, PostPrinted, Unlink
<1>4. ASSUME NEW m \in Readers, NEW h \in Halves
      PROVE  line'[m][h] \in {line[m][h], time_str[m][h], 0}
  <2>1. CASE line' = line
    BY <2>1
  <2>2. ASSUME NEW i \in Halves, PrintHalf(r, i)
        PROVE  line'[m][h] \in {line[m][h], time_str[m][h], 0}
    <3>1. line' = [line EXCEPT ![r] = [line[r] EXCEPT ![i] = time_str[r][i]]]
      BY <2>2 DEF PrintHalf
    <3>2. line[r] \in [Halves -> Ages] /\ line \in [Readers -> [Halves -> Ages]]
      BY DEF Data
    <3>. QED BY <3>1, <3>2
  <2>3. CASE PostPrinted(r)
    <3>1. line' = [line EXCEPT ![r] = Blank] /\ line \in [Readers -> [Halves -> Ages]]
      BY <2>3 DEF PostPrinted, Data
    <3>. QED BY <3>1 DEF Blank
  <2>. QED BY <2>1, <2>2, <2>3
           DEF Create, Reader, Ftruncate, SemInit, TestReader, WaitForTime, Unlink, Halves
<1>. QED BY <1>1, <1>2, <1>3, <1>4, AgesKept

(* While the only writer is not waiting for an answer its reader is not        *)
(* printing.                                                                   *)
LEMMA AloneIsNotPrinted ==
  ASSUME IInv, NEW w \in Writers, pc[w] = "post", NEW m \in Readers, at[w] = m, Alone(m)
  PROVE  pc[m] \notin {"print_on", "post"}
<1>1. Unanswered(m) \subseteq Active(m) /\ w \in Active(m)
  BY DEF Unanswered, Active
<1>2. Unanswered(m) = {}
  BY <1>1 DEF Alone, Unanswered
<1>3. sem1[m] + sem2[m] + Cardinality(Printing(m)) = 0
  BY <1>2, FS_EmptySet DEF IInv, TokensConserved
<1>4. sem1[m] \in Nat /\ sem2[m] \in Nat
  BY DEF IInv, Data
<1>. QED BY <1>3, <1>4, PrintingCount

LEMMA WriterAgesStep ==
  ASSUME IInv, AgesAlone, NEW w \in Writers, ShmOpen(w) \/ Writer(w) PROVE AgesAlone'
<1>. USE DEF IInv
<1>0. /\ w \in Procs /\ \A v \in Writers : v # w => pc'[v] = pc[v] /\ at'[v] = at[v]
      /\ pc \in [Procs -> ReaderPlaces \cup WriterPlaces]
      /\ time_str \in [Readers -> [Halves -> Ages]] /\ line \in [Readers -> [Halves -> Ages]]
  <2>1. \A p \in Procs : p # w => pc'[p] = pc[p]
    BY DEF Places, ShmOpen, Writer, CheckReady, TestWriter, PostTime, CopyHalf, WaitForPrinted,
           Wait, Start, Go
  <2>2. \A v \in Writers : v # w => at'[v] = at[v]
    BY DEF Data, ShmOpen, Writer, CheckReady, TestWriter, PostTime, CopyHalf, WaitForPrinted
  <2>. QED BY <2>1, <2>2 DEF Procs, Places, Data
<1>1. ASSUME UNCHANGED <<time_str, line>>, pc[w] \notin Copying, pc'[w] \notin Copying,
             \A m \in Readers : Active(m)' = Active(m)
      PROVE  AgesAlone'
  <2>1. \A v \in Writers : pc'[v] = pc[v] \/ (pc[v] \notin Copying /\ pc'[v] \notin Copying)
    BY <1>0, <1>1
  <2>. QED BY <1>1, <2>1, AgesKept
<1>2. CASE ShmOpen(w)
  <2>1. /\ pc[w] = "start" /\ pc'[w] \in {"check", "refused"} /\ UNCHANGED <<time_str, line>>
    BY <1>0, <1>2 DEF ShmOpen, Start, Go
  <2>2. \A m \in Readers : Active(m)' = Active(m)
    BY <1>0, <2>1 DEF Active
  <2>. QED BY <1>1, <2>1, <2>2 DEF Copying
<1>3. CASE CheckReady(w)
  <2>1. pc[w] = "check" /\ pc'[w] \in {"test", "refused"} /\ UNCHANGED <<time_str, line, at>>
    BY <1>0, <1>3 DEF CheckReady, Go
  <2>2. CASE pc'[w] = "refused"
    <3>1. \A m \in Readers : Active(m)' = Active(m)
      BY <1>0, <2>1, <2>2 DEF Active
    <3>. QED BY <1>1, <2>1, <2>2, <3>1 DEF Copying
  <2>3. CASE pc'[w] = "test"
    <3>. SUFFICES ASSUME NEW m \in Readers, Alone(m)'
                  PROVE  /\ \A h \in Halves : time_str'[m][h] <= 1 /\ line'[m][h] <= 1
                         /\ (\A v \in Active(m)' : pc'[v] \notin Copying) => time_str'[m] = Blank
                         /\ \A v \in Active(m)' : pc'[v] = "copy_on" => time_str'[m][1] = 0
      BY DEF AgesAlone
    <3>1. Active(m) \subseteq Active(m)' /\ w \notin Active(m) /\ (at[w] = m => w \in Active(m)')
      BY <1>0, <2>1, <2>3 DEF Active
    <3>2. Alone(m)
      BY <3>1 DEF Alone
    <3>3. CASE at[w] = m
      <4>1. Active(m) = {} /\ Active(m)' = {w}
        BY <3>1, <3>3 DEF Alone
      <4>. QED BY <2>1, <2>3, <3>2, <4>1 DEF AgesAlone, Copying
    <3>4. CASE at[w] # m
      <4>1. Active(m)' = Active(m) /\ \A v \in Active(m) : pc'[v] = pc[v]
        BY <1>0, <2>1, <3>4 DEF Active
      <4>. QED BY <2>1, <3>2, <4>1 DEF AgesAlone
    <3>. QED BY <3>3, <3>4
  <2>. QED BY <2>1, <2>2, <2>3
<1>4. CASE TestWriter(w) \/ WaitForPrinted(w)
  <2>1. /\ pc[w] \in {"test", "wait", "blocked"} /\ pc'[w] \in {"post", "ended", "test", "blocked"}
        /\ UNCHANGED <<time_str, line, at>>
    BY <1>0, <1>4 DEF TestWriter, WaitForPrinted, Wait, Go
  <2>2. \A m \in Readers : Active(m)' = Active(m)
    BY <1>0, <2>1 DEF Active
  <2>. QED BY <1>1, <2>1, <2>2 DEF Copying
(* A post makes the time in the memory one older, a copy half of it new. *)
<1>5. ASSUME NEW a \in Readers, at[w] = a, UNCHANGED at,
             pc[w] \in {"post", "copy", "copy_on"}, pc'[w] \in {"copy", "copy_on", "wait"},
             \A m \in Readers : m # a => time_str'[m] = time_str[m] /\ line'[m] = line[m],
             Alone(a) => /\ \A h \in Halves : time_str'[a][h] <= 1 /\ line'[a][h] <= 1
                         /\ pc'[w] \notin Copying => time_str'[a] = Blank
                         /\ pc'[w] = "copy_on" => time_str'[a][1] = 0
      PROVE  AgesAlone'
  <2>1. \A m \in Readers : Active(m)' = Active(m)
    BY <1>0, <1>5 DEF Active
  <2>. SUFFICES ASSUME NEW m \in Readers, Alone(m)'
                PROVE  /\ \A h \in Halves : time_str'[m][h] <= 1 /\ line'[m][h] <= 1
                       /\ (\A v \in Active(m)' : pc'[v] \notin Copying) => time_str'[m] = Blank
                       /\ \A v \in Active(m)' : pc'[v] = "copy_on" => time_str'[m][1] = 0
    BY DEF AgesAlone
  <2>2. Alone(m)
    BY <2>1 DEF Alone
  <2>3. CASE m = a
    <3>1. Active(m) = {w}
      BY <1>5, <2>2, <2>3 DEF Alone, Active
    <3>. QED BY <1>5, <2>1, <2>2, <2>3, <3>1
  <2>4. CASE m # a
    <3>1. \A v \in Active(m) : pc'[v] = pc[v]
      BY <1>0, <1>5, <2>4 DEF Active
    <3>. QED BY <1>5, <2>1, <2>2, <2>4, <3>1 DEF AgesAlone
  <2>. QED BY <2>3, <2>4
<1>6. CASE PostTime(w)
  <2>1. /\ pc[w] = "post" /\ pc'[w] = "copy" /\ at' = at
        /\ time_str' = [time_str EXCEPT ![at[w]] = Older(time_str[at[w]])]
        /\ line' = [line EXCEPT ![at[w]] = IF pc[at[w]] \in {"print_on", "post"}
                                             THEN Older(line[at[w]]) ELSE line[at[w]]]
    BY <1>0, <1>6 DEF PostTime, Go
  <2>2. PICK a \in Readers : a = at[w]
    BY <2>1 DEF Places, Data
  <2>3. \A m \in Readers : m # a => time_str'[m] = time_str[m] /\ line'[m] = line[m]
    BY <1>0, <2>1, <2>2
  <2>4. ASSUME Alone(a)
        PROVE  \A h \in Halves : time_str'[a][h] <= 1 /\ line'[a][h] <= 1
    <3>1. Active(a) = {w}
      BY <2>1, <2>2, <2>4 DEF Alone, Active
    <3>2. time_str[a] = Blank /\ \A h \in Halves : line[a][h] <= 1
      BY <2>1, <2>4, <3>1 DEF AgesAlone, Copying
    <3>3. line'[a] = line[a]
      BY <1>0, <2>1, <2>2, <2>4, AloneIsNotPrinted
    <3>4. time_str'[a] = Older(Blank)
      BY <1>0, <2>1, <2>2, <3>2
    <3>5. \A h \in Halves : Older(Blank)[h] = 1
      BY DEF Older, Blank, OLD
    <3>. QED BY <3>2, <3>3, <3>4, <3>5
  <2>. QED BY <1>5, <2>1, <2>2, <2>3, <2>4 DEF Copying
<1>7. ASSUME NEW h \in Halves, CopyHalf(w, h) PROVE AgesAlone'
  <2>1. /\ pc[w] = (IF h = 1 THEN "copy" ELSE "copy_on")
        /\ pc'[w] = (IF h = 1 THEN "copy_on" ELSE "wait") /\ UNCHANGED <<line, at>>
        /\ time_str' = [time_str EXCEPT ![at[w]] = [time_str[at[w]] EXCEPT ![h] = 0]]
    BY <1>0, <1>7 DEF CopyHalf, Go
  <2>2. PICK a \in Readers : a = at[w]
    BY <2>1 DEF Places, Data
  <2>3. \A m \in Readers : m # a => time_str'[m] = time_str[m] /\ line'[m] = line[m]
    BY <1>0, <2>1, <2>2
  <2>4. time_str[a] \in [Halves -> Ages] /\ time_str'[a] = [time_str[a] EXCEPT ![h] = 0]
    BY <1>0, <2>1, <2>2
  <2>5. time_str'[a][h] = 0 /\ \A i \in Halves : i # h => time_str'[a][i] = time_str[a][i]
    BY <2>4
  <2>6. ASSUME Alone(a)
        PROVE  /\ \A i \in Halves : time_str'[a][i] <= 1 /\ line'[a][i] <= 1
               /\ pc'[w] \notin Copying => time_str'[a] = Blank
               /\ pc'[w] = "copy_on" => time_str'[a][1] = 0
    <3>1. \A i \in Halves : time_str[a][i] <= 1 /\ line[a][i] <= 1
      BY <2>6 DEF AgesAlone
    <3>2. \A i \in Halves : time_str'[a][i] <= 1 /\ line'[a][i] <= 1
      BY <2>1, <2>5, <3>1
    <3>3. CASE h = 1
      BY <2>1, <2>5, <3>2, <3>3 DEF Copying
    <3>4. CASE h = 2
      <4>1. time_str[a][1] = 0
        BY <2>1, <2>2, <2>6, <3>4 DEF AgesAlone, Active
      <4>2. \A i \in Halves : time_str'[a][i] = 0
        BY <2>5, <3>4, <4>1 DEF Halves
      <4>3. time_str'[a] = Blank
        BY <2>4, <4>2 DEF Blank
      <4>. QED BY <2>1, <3>2, <3>4, <4>3
    <3>. QED BY <3>3, <3>4 DEF Halves
  <2>. QED BY <1>5, <2>1, <2>2, <2>3, <2>6
<1>. QED BY <1>2, <1>3, <1>4, <1>6, <1>7 DEF Writer, Halves

LEMMA AgesStep == ASSUME IInv, AgesAlone, [Next]_vars PROVE AgesAlone'
<1>1. CASE UNCHANGED vars
  <2>1. UNCHANGED <<time_str, line, pc, at>>
    BY <1>1 DEF vars
  <2>. QED BY <2>1, AgesKept DEF Active
<1>2. ASSUME NEW p \in Procs, Signal(p) \/ Kill(p) PROVE AgesAlone'
  <2>1. UNCHANGED <<time_str, line, at>>
    BY <1>2 DEF Signal, Kill
  <2>2. \/ pc' = pc
        \/ /\ pc[p] = "blocked"
           /\ pc' = [pc EXCEPT ![p] = IF p \in Readers THEN "unlink" ELSE "broken_off"]
    BY <1>2 DEF Signal, Kill
  <2>3. pc \in [Procs -> ReaderPlaces \cup WriterPlaces]
    BY DEF IInv, Places
  <2>4. \A q \in Procs : \/ pc'[q] = pc[q]
                         \/ pc[q] = "blocked" /\ pc'[q] \in {"unlink", "broken_off"}
    BY <2>2, <2>3
  <2>5. \A m \in Readers : Active(m)' = Active(m)
    BY <2>1, <2>4 DEF Active, Procs
  <2>6. \A w \in Writers : pc'[w] = pc[w] \/ (pc[w] \notin Copying /\ pc'[w] \notin Copying)
    BY <2>4 DEF Copying, Procs
  <2>. QED BY <2>1, <2>5, <2>6, AgesKept
<1>. QED BY <1>1, <1>2, ReaderAgesStep, WriterAgesStep DEF Next

(* As long as one writer has been alone with a memory, a line that is printed  *)
(* from it mixes at most two times, and these followed one another.            *)
THEOREM LinesCorrect == Spec => []LinesMixNeighbours
<1>1. Init => AgesAlone
  BY DEF Init, AgesAlone, Blank, Active, Procs, Halves
<1>2. IInv /\ AgesAlone /\ [Next]_vars => AgesAlone'
  BY AgesStep
<1>3. IInv /\ AgesAlone => LinesMixNeighbours
  <2>. SUFFICES ASSUME IInv, AgesAlone, NEW r \in Readers, Cardinality(Users(r)) = 1
                PROVE  line[r][1] <= line[r][2] + 1 /\ line[r][2] <= line[r][1] + 1
    BY DEF LinesMixNeighbours
  <2>1. \A v, w \in Users(r) : v = w
    <3>1. Users(r) \subseteq Writers
      BY DEF Users
    <3>2. IsFiniteSet(Users(r))
      BY <3>1, ClockAssumption, FS_Subset
    <3>3. PICK x : Users(r) = {x}
      BY <3>2, FS_Singleton
    <3>. QED BY <3>3
  <2>2. Alone(r)
    BY <2>1 DEF Alone, Active, Users
  <2>3. /\ line[r][1] \in Ages /\ line[r][2] \in Ages
        /\ line[r][1] <= 1 /\ line[r][2] <= 1
    BY <2>2 DEF AgesAlone, IInv, Data, Halves
  <2>. QED BY <2>3 DEF Ages, OLD
<1>. QED BY <1>1, <1>2, <1>3, ClockInvariant, PTL DEF Spec
=============================================================================
