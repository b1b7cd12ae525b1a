---------------------------- MODULE ValentineProofs ----------------------------
(***************************************************************************)
(* Proofs about the Valentine server, for any number of fans, registering  *)
(* clients and loggers, any lengths of proposals, every heartbeat interval *)
(* of two seconds or more, and all five parts: the longest proposal is     *)
(* agreed to, and the loggers that answer are kept while silent ones go.   *)
(***************************************************************************)
EXTENDS Valentine, FiniteSetTheorems, WellFoundedInduction, TLAPS

----------------------------------------------------------------------------
(* The selection. *)

(* A set of numbers has a least one.                                           *)
LEMMA LeastExists ==
  ASSUME NEW T, T \subseteq Nat, T # {}
  PROVE  \E x \in T : \A y \in T : x <= y
<1>. DEFINE R == {ss \in Nat \X Nat : ss[1] < ss[2]}
<1>1. IsWellFoundedOn(R, Nat)
  BY NatLessThanWellFounded DEF OpToRel
<1>2. PICK x \in T : \A y \in T : ~ (<<y, x>> \in R)
  <2>. HIDE DEF R
  <2>. QED BY <1>1, WFMin
<1>3. ASSUME NEW y \in T PROVE x <= y
  <2>1. x \in Nat /\ y \in Nat
    OBVIOUS
  <2>2. y < x => <<y, x>> \in R
    BY <2>1
  <2>. QED BY <1>2, <2>1, <2>2
<1>. QED BY <1>3

LEMMA LengthIsBounded ==
  ASSUME proposal \in Proposals, NEW f \in Senders
  PROVE  Length(f) \in 0..MAX_LEN
<1>1. proposal[f] \in Nat
  BY ValentineAssumption
<1>. QED BY <1>1, ValentineAssumption DEF Length

(* b is the first of the longest of the first n messages. *)
FirstLongest(b, n) ==
  /\ b \in 1..n
  /\ \A j \in 1..n : /\ Length(clients[j]) <= Length(clients[b])
                     /\ j < b => Length(clients[j]) < Length(clients[b])

LEMMA FirstLongestExists ==
  ASSUME proposal \in Proposals, clients \in Seq(Senders), NEW n \in 1..Len(clients)
  PROVE  \E b : FirstLongest(b, n)
<1>. DEFINE I == 1..n
            L(i) == Length(clients[i])
            Gaps == {MAX_LEN - L(i) : i \in I}
<1>1. \A i \in I : L(i) \in 0..MAX_LEN
  <2>1. \A i \in I : clients[i] \in Senders
    OBVIOUS
  <2>. HIDE DEF I
  <2>. QED BY <2>1, LengthIsBounded
<1>2. Gaps \subseteq Nat /\ Gaps # {}
  <2>1. \A i \in I : MAX_LEN - L(i) \in Nat
    BY <1>1, ValentineAssumption
  <2>2. 1 \in I
    OBVIOUS
  <2>. QED BY <2>1, <2>2
<1>3. PICK gap \in Gaps : \A y \in Gaps : gap <= y
  BY <1>2, LeastExists
<1>4. PICK l \in I : gap = MAX_LEN - L(l)
  OBVIOUS
<1>5. \A i \in I : L(i) <= L(l)
  <2>. TAKE i \in I
  <2>1. MAX_LEN - L(i) \in Gaps
    OBVIOUS
  <2>2. MAX_LEN - L(l) <= MAX_LEN - L(i)
    BY <1>3, <1>4, <2>1
  <2>3. L(i) \in Int /\ L(l) \in Int /\ MAX_LEN \in Int
    BY <1>1, ValentineAssumption
  <2>. QED BY ONLY <2>2, <2>3
<1>. DEFINE Longest == {i \in I : L(i) = L(l)}
<1>6. Longest \subseteq Nat /\ Longest # {}
  OBVIOUS
<1>7. PICK b \in Longest : \A y \in Longest : b <= y
  BY <1>6, LeastExists
<1>8. \A j \in I : j < b => L(j) < L(b)
  <2>. TAKE j \in I
  <2>. HAVE j < b
  <2>1. j \notin Longest
    BY <1>7
  <2>. QED BY <1>1, <1>5, <1>7, <2>1
<1>. QED BY <1>5, <1>7, <1>8 DEF FirstLongest

LEMMA FirstLongestIsOne ==
  ASSUME proposal \in Proposals, clients \in Seq(Senders), NEW n \in 1..Len(clients),
         NEW b, NEW c, FirstLongest(b, n), FirstLongest(c, n)
  PROVE  b = c
<1>1. b \in 1..n /\ c \in 1..n
  BY DEF FirstLongest
<1>2. Length(clients[b]) \in Nat /\ Length(clients[c]) \in Nat
  <2>1. clients[b] \in Senders /\ clients[c] \in Senders
    BY <1>1
  <2>. QED BY <2>1, LengthIsBounded, ValentineAssumption
<1>3. Length(clients[b]) <= Length(clients[c]) /\ Length(clients[c]) <= Length(clients[b])
  BY <1>1 DEF FirstLongest
<1>4. ~ (b < c) /\ ~ (c < b)
  BY <1>1, <1>2, <1>3 DEF FirstLongest
<1>. QED BY <1>1, <1>4

(* One more turn of the loop of the selection: what it keeps. *)
LEMMA FirstLongestStep ==
  ASSUME proposal \in Proposals, clients \in Seq(Senders),
         NEW n \in 2..Len(clients), NEW b, FirstLongest(b, n - 1)
  PROVE  FirstLongest(IF Longer(n, b) THEN n ELSE b, n)
<1>1. b \in 1..n - 1 /\ n - 1 \in 1..Len(clients)
  BY DEF FirstLongest
<1>2. \A i \in 1..n : Length(clients[i]) \in Nat
  <2>1. \A i \in 1..n : clients[i] \in Senders
    OBVIOUS
  <2>. QED BY <2>1, LengthIsBounded, ValentineAssumption
<1>3. \A j \in 1..n : j = n \/ j \in 1..n - 1
  OBVIOUS
<1>4. CASE Longer(n, b)
  <2>1. \A j \in 1..n - 1 : Length(clients[j]) < Length(clients[n])
    BY <1>1, <1>2, <1>4 DEF FirstLongest, Longer
  <2>. QED BY <1>2, <1>3, <1>4, <2>1 DEF FirstLongest
<1>5. CASE ~Longer(n, b)
  <2>1. Length(clients[n]) <= Length(clients[b]) /\ b < n
    BY <1>1, <1>2, <1>5 DEF Longer
  <2>. QED BY <1>1, <1>3, <1>5, <2>1 DEF FirstLongest
<1>. QED BY <1>4, <1>5

(* There is a function with the equation of best, and its last value is the    *)
(* first of the longest messages.                                              *)
LEMMA BestIsFirstLongest ==
  ASSUME proposal \in Proposals, clients \in Seq(Senders), Len(clients) > 0
  PROVE  FirstLongest(Best, Len(clients))
<1>. DEFINE I == 1..Len(clients)
            AfterTurn(i, b) == IF Longer(i, b) THEN i ELSE b
            Is(f) == f = [i \in I |-> IF i = 1 THEN 1 ELSE AfterTurn(i, f[i - 1])]
            best == CHOOSE f : Is(f)
            g == [i \in I |-> CHOOSE b : FirstLongest(b, i)]
<1>1. ASSUME NEW i \in I PROVE FirstLongest(g[i], i)
  <2>1. \E b : FirstLongest(b, i)
    BY FirstLongestExists
  <2>2. FirstLongest(CHOOSE b : FirstLongest(b, i), i)
    BY <2>1
  <2>. QED BY <2>2
<1>2. Is(g)
  <2>1. ASSUME NEW i \in I PROVE g[i] = IF i = 1 THEN 1 ELSE AfterTurn(i, g[i - 1])
    <3>. HIDE DEF g
    <3>1. CASE i = 1
      BY <1>1, <3>1 DEF FirstLongest
    <3>2. CASE i # 1
      <4>1. i \in 2..Len(clients) /\ i - 1 \in I
        BY <3>2
      <4>2. FirstLongest(AfterTurn(i, g[i - 1]), i)
        BY <1>1, <4>1, FirstLongestStep
      <4>. HIDE DEF AfterTurn
      <4>3. g[i] = AfterTurn(i, g[i - 1])
        BY <1>1, <4>2, FirstLongestIsOne
      <4>. QED BY <3>2, <4>3
    <3>. QED BY <3>1, <3>2
  <2>2. g = [i \in I |-> g[i]]
    OBVIOUS
  <2>. HIDE DEF g, AfterTurn
  <2>. QED BY <2>1, <2>2
<1>3. Is(best)
  <2>. HIDE DEF Is, g
  <2>. QED BY <1>2
<1>4. ASSUME NEW i \in I PROVE best[i] = IF i = 1 THEN 1 ELSE AfterTurn(i, best[i - 1])
  <2>. DEFINE h == [j \in I |-> IF j = 1 THEN 1 ELSE AfterTurn(j, best[j - 1])]
  <2>. HIDE DEF best, AfterTurn
  <2>1. best = h
    BY <1>3
  <2>. QED BY <2>1
<1>5. Best = best[Len(clients)]
  BY DEF Best
<1>. HIDE DEF best, Is, g
<1>. DEFINE Wrong == {i \in I : ~FirstLongest(best[i], i)}
<1>6. Wrong = {}
  <2>. SUFFICES ASSUME Wrong # {} PROVE FALSE
    OBVIOUS
  <2>1. Wrong \subseteq Nat
    OBVIOUS
  <2>2. PICK i \in Wrong : \A j \in Wrong : i <= j
    BY <2>1, LeastExists
  <2>3. CASE i = 1
    <3>1. best[1] = 1 /\ clients[1] \in Senders
      BY <1>4
    <3>2. FirstLongest(1, 1)
      BY <3>1, LengthIsBounded, ValentineAssumption DEF FirstLongest
    <3>. QED BY <2>2, <2>3, <3>1, <3>2
  <2>4. CASE i # 1
    <3>1. i \in 2..Len(clients) /\ i - 1 \in I /\ i - 1 \notin Wrong
      BY <2>2, <2>4
    <3>2. FirstLongest(best[i - 1], i - 1)
      BY <3>1
    <3>3. FirstLongest(AfterTurn(i, best[i - 1]), i)
      BY <3>1, <3>2, FirstLongestStep
    <3>. QED BY <1>4, <2>2, <2>4, <3>3
  <2>. QED BY <2>3, <2>4
<1>7. Len(clients) \in I
  OBVIOUS
<1>. QED BY <1>5, <1>6, <1>7
----------------------------------------------------------------------------
(* The inductive invariant of the proposals and their answers. *)

Told == {"AGREE", "REJECT", "SHUTDOWN"}

FanTypes ==
  /\ part \in Parts /\ proposal \in Proposals
  /\ fan \in [Senders -> {"home", "waiting", "gone"} \cup Told]
  /\ sent \in SUBSET Senders /\ clients \in Seq(Senders)
  /\ answers \in [Senders -> {None} \cup Told]
  /\ server \in {"loop", "select", "decide", "done"}

(* A datagram is on its way or received, once, and its sender is not at home. *)
OnePlaceEach ==
  /\ \A i, j \in 1..Len(clients) : clients[i] = clients[j] => i = j
  /\ \A i \in 1..Len(clients) : clients[i] \notin sent /\ fan[clients[i]] # "home"
  /\ \A f \in sent : fan[f] # "home"

(* There is room for one more where the server waits for one. *)
RoomForMore ==
  /\ Len(clients) <= Cardinality(Fans)
  /\ server = "select" => Len(clients) < Cardinality(Fans)
  /\ server = "decide" => Complete \/ shutdown_requested

(* Nobody is answered before the end, and then the first of the longest is     *)
(* agreed to.                                                                  *)
AnswersAtTheEnd ==
  /\ server # "done" => \A f \in Senders : answers[f] = None
  /\ \A f \in Senders : fan[f] = "AGREE" => answers[f] = "AGREE"
  /\ \A f \in Senders : answers[f] = "AGREE" =>
       /\ \A g \in Senders : answers[g] = "AGREE" => f = g
       /\ \E i \in 1..Len(clients) : clients[i] = f /\ IsFirstLongest(i)

FanInv == FanTypes /\ OnePlaceEach /\ RoomForMore /\ AnswersAtTheEnd

LEMMA FansAreCounted == Cardinality(Fans) \in Nat /\ Cardinality(Fans) > 0
<1>1. Cardinality(Fans) \in Nat /\ Cardinality(Fans) # 0
  BY FS_CardinalityType, FS_EmptySet, ValentineAssumption
<1>. QED BY <1>1

LEMMA NoneIsNobody == \A f \in Senders : f # None
  BY ValentineAssumption

LEMMA FanInit == Init => FanInv
<1>. SUFFICES ASSUME Init PROVE FanInv
  OBVIOUS
<1>1. clients \in Seq(Senders) /\ Len(clients) = 0
  BY DEF Init
<1>2. FanTypes
  BY <1>1 DEF Init, FanTypes, Parts
<1>3. OnePlaceEach
  BY <1>1 DEF Init, OnePlaceEach
<1>4. RoomForMore
  BY <1>1, FansAreCounted DEF Init, RoomForMore
<1>5. AnswersAtTheEnd
  BY DEF Init, AnswersAtTheEnd, None
<1>. QED BY <1>2, <1>3, <1>4, <1>5 DEF FanInv

(* What a turn of any of the loops does with the datagram it takes. *)
LEMMA TakingKeeps ==
  ASSUME FanInv, NEW f \in sent \cup {None}, TakeProposal(f),
         UNCHANGED <<caseVars, fan, answers>>,
         server # "done", server' = "loop", Len(clients) < Cardinality(Fans)
  PROVE  FanInv'
<1>. USE DEF caseVars
<1>1. FanTypes /\ OnePlaceEach /\ RoomForMore /\ AnswersAtTheEnd
  BY DEF FanInv
<1>2. /\ clients \in Seq(Senders) /\ Len(clients) \in Nat /\ sent \in SUBSET Senders
      /\ \A i \in 1..Len(clients) : clients[i] \in Senders
  BY <1>1 DEF FanTypes
<1>3. sent' = sent \ {f}
  BY DEF TakeProposal
<1>4. CASE UNCHANGED clients
  <2>1. FanTypes'
    BY <1>1, <1>3, <1>4 DEF FanTypes
  <2>2. OnePlaceEach'
    BY <1>1, <1>3, <1>4 DEF OnePlaceEach
  <2>3. RoomForMore'
    BY <1>1, <1>4 DEF RoomForMore
  <2>4. AnswersAtTheEnd'
    BY <1>1, <1>4 DEF AnswersAtTheEnd, IsFirstLongest, Length, None
  <2>. QED BY <2>1, <2>2, <2>3, <2>4 DEF FanInv
<1>5. CASE clients' = Append(clients, f) /\ f # None
  <2>1. f \in sent /\ f \in Senders
    BY <1>2, <1>5
  <2>2. /\ clients' \in Seq(Senders) /\ Len(clients') = Len(clients) + 1
        /\ \A i \in 1..Len(clients) : clients'[i] = clients[i]
        /\ clients'[Len(clients) + 1] = f
    BY <1>2, <1>5, <2>1
  <2>3. \A i \in 1..Len(clients') : i \in 1..Len(clients) \/ i = Len(clients) + 1
    BY <1>2, <2>2
  <2>4. FanTypes'
    BY <1>1, <1>3, <2>2 DEF FanTypes
  <2>5. \A i \in 1..Len(clients) : clients[i] # f
    BY <1>1, <2>1 DEF OnePlaceEach
  <2>6. OnePlaceEach'
    <3>1. ASSUME NEW i \in 1..Len(clients'), NEW j \in 1..Len(clients'), clients'[i] = clients'[j]
          PROVE  i = j
      BY <1>1, <2>2, <2>3, <2>5, <3>1 DEF OnePlaceEach
    <3>2. ASSUME NEW i \in 1..Len(clients')
          PROVE  clients'[i] \notin sent' /\ fan[clients'[i]] # "home"
      BY <1>1, <1>3, <2>1, <2>2, <2>3 DEF OnePlaceEach
    <3>3. \A g \in sent' : fan[g] # "home"
      BY <1>1, <1>3 DEF OnePlaceEach
    <3>. QED BY <3>1, <3>2, <3>3 DEF OnePlaceEach
  <2>7. RoomForMore'
    <3>1. Len(clients') <= Cardinality(Fans)
      BY <1>2, <2>2, FansAreCounted
    <3>. QED BY <3>1 DEF RoomForMore
  <2>8. AnswersAtTheEnd'
    BY <1>1 DEF AnswersAtTheEnd, None
  <2>. QED BY <2>4, <2>6, <2>7, <2>8 DEF FanInv
<1>. QED BY <1>4, <1>5 DEF TakeProposal, Counts

(* The selection agrees to the first of the longest. *)
LEMMA SelectKeeps ==
  ASSUME FanInv, Complete, server # "done", Select
  PROVE  FanInv'
<1>. USE DEF caseVars
<1>1. FanTypes /\ OnePlaceEach /\ RoomForMore /\ AnswersAtTheEnd
  BY DEF FanInv
<1>2. FirstLongest(Best, Len(clients))
  <2>1. Len(clients) > 0
    BY FansAreCounted DEF Complete
  <2>. QED BY <1>1, <2>1, BestIsFirstLongest DEF FanTypes
<1>3. Best \in 1..Len(clients) /\ clients[Best] \in Senders /\ IsFirstLongest(Best)
  BY <1>1, <1>2 DEF FanTypes, FirstLongest, IsFirstLongest
<1>4. /\ answers' = [f \in Senders |-> IF f = clients[Best] THEN "AGREE"
                                       ELSE IF f \in Received THEN "REJECT" ELSE None]
      /\ server' = "done"
      /\ UNCHANGED <<part, proposal, fan, sent, clients, shutdown_requested>>
  BY DEF Select
<1>5. FanTypes'
  <2>1. answers' \in [Senders -> {None} \cup Told]
    BY <1>4 DEF Told
  <2>. QED BY <1>1, <1>4, <2>1 DEF FanTypes
<1>6. OnePlaceEach'
  BY <1>1, <1>4 DEF OnePlaceEach
<1>7. RoomForMore'
  BY <1>1, <1>4 DEF RoomForMore
<1>8. \A f \in Senders : answers'[f] = "AGREE" => f = clients[Best]
  BY <1>4 DEF None
<1>9. \A i : IsFirstLongest(i)' <=> IsFirstLongest(i)
  BY <1>4 DEF IsFirstLongest, Length
<1>11. \A f \in Senders : fan[f] # "AGREE"
  BY <1>1 DEF AnswersAtTheEnd, None
<1>12. AnswersAtTheEnd'
  BY <1>3, <1>4, <1>8, <1>9, <1>11 DEF AnswersAtTheEnd
<1>. QED BY <1>5, <1>6, <1>7, <1>12 DEF FanInv

(* Every other step leaves the messages received as they are. *)
LEMMA FanStep == FanInv /\ [Next]_vars => FanInv'
<1>. USE DEF caseVars
<1>. SUFFICES ASSUME FanInv, [Next]_vars PROVE FanInv'
  OBVIOUS
<1>1. FanTypes /\ OnePlaceEach /\ RoomForMore /\ AnswersAtTheEnd
  BY DEF FanInv
<1>2. CASE UNCHANGED fanVars
  BY <1>1, <1>2 DEF fanVars, FanInv, FanTypes, OnePlaceEach, RoomForMore, AnswersAtTheEnd,
                   Complete, IsFirstLongest, Length
<1>3. ASSUME NEW f \in sent \cup {None}, TakeProposal(f), UNCHANGED <<caseVars, fan, answers>>,
             \/ server = "loop" /\ ~Complete
             \/ server = "select",
             server' = "loop"
      PROVE  FanInv'
  <2>1. Len(clients) < Cardinality(Fans)
    <3>1. Len(clients) \in Nat
      BY <1>1 DEF FanTypes
    <3>. QED BY <1>1, <1>3, <3>1, FansAreCounted DEF RoomForMore, Complete
  <2>. QED BY <1>3, <2>1, TakingKeeps
<1>4. ASSUME Select, Complete, server # "done" PROVE FanInv'
  BY <1>4, SelectKeeps
<1>5. ASSUME NEW f \in Senders, Propose(f) \/ Register(f) PROVE FanInv'
  <2>1. /\ fan[f] = "home" /\ sent' = sent \cup {f}
        /\ \E to \in {"waiting", "gone"} : fan' = [fan EXCEPT ![f] = to]
        /\ UNCHANGED <<part, proposal, clients, answers, server, shutdown_requested>>
    BY <1>5 DEF Propose, Register
  <2>2. FanTypes'
    BY <1>1, <2>1 DEF FanTypes
  <2>3. OnePlaceEach'
    BY <1>1, <2>1 DEF OnePlaceEach, FanTypes
  <2>4. RoomForMore'
    BY <1>1, <2>1 DEF RoomForMore, Complete
  <2>5. AnswersAtTheEnd'
    BY <1>1, <2>1 DEF AnswersAtTheEnd, FanTypes, IsFirstLongest, Length
  <2>. QED BY <2>2, <2>3, <2>4, <2>5 DEF FanInv
<1>6. ASSUME NEW f \in Fans, ReceiveAnswer(f) PROVE FanInv'
  <2>1. /\ f \in Senders /\ answers[f] # None
        /\ fan' = [fan EXCEPT ![f] = answers[f]]
        /\ UNCHANGED <<part, proposal, sent, clients, answers, server, shutdown_requested>>
    BY <1>6 DEF ReceiveAnswer, Senders
  <2>2. answers[f] \in Told /\ answers[f] # "home"
    BY <1>1, <2>1 DEF FanTypes, Told
  <2>3. FanTypes'
    BY <1>1, <2>1, <2>2 DEF FanTypes
  <2>4. OnePlaceEach'
    BY <1>1, <2>1, <2>2 DEF OnePlaceEach, FanTypes
  <2>5. RoomForMore'
    BY <1>1, <2>1 DEF RoomForMore, Complete
  <2>6. AnswersAtTheEnd'
    BY <1>1, <2>1 DEF AnswersAtTheEnd, FanTypes, IsFirstLongest, Length
  <2>. QED BY <2>3, <2>4, <2>5, <2>6 DEF FanInv
<1>7. ASSUME handle_sigint \/ TestLoop PROVE FanInv'
  <2>1. UNCHANGED <<part, proposal, fan, sent, clients, answers>>
    BY <1>7 DEF handle_sigint, TestLoop
  <2>2. FanTypes'
    BY <1>1, <1>7, <2>1 DEF FanTypes, handle_sigint, TestLoop
  <2>3. OnePlaceEach'
    BY <1>1, <2>1 DEF OnePlaceEach
  <2>4. RoomForMore'
    <3>1. Len(clients) \in Nat
      BY <1>1 DEF FanTypes
    <3>. QED BY <1>1, <1>7, <2>1, <3>1, FansAreCounted
           DEF RoomForMore, Complete, handle_sigint, TestLoop
  <2>5. AnswersAtTheEnd'
    BY <1>1, <1>7, <2>1 DEF AnswersAtTheEnd, IsFirstLongest, Length, handle_sigint, TestLoop
  <2>. QED BY <2>2, <2>3, <2>4, <2>5 DEF FanInv
<1>8. ASSUME notify_shutdown, server = "decide" PROVE FanInv'
  <2>1. /\ answers' = [f \in Senders |-> IF f \in Received THEN "SHUTDOWN" ELSE None]
        /\ server' = "done"
        /\ UNCHANGED <<part, proposal, fan, sent, clients, shutdown_requested>>
    BY <1>8 DEF notify_shutdown
  <2>2. FanTypes'
    BY <1>1, <2>1 DEF FanTypes, Told
  <2>3. OnePlaceEach'
    BY <1>1, <2>1 DEF OnePlaceEach
  <2>4. RoomForMore'
    BY <1>1, <2>1 DEF RoomForMore
  <2>5. AnswersAtTheEnd'
    BY <1>1, <1>8, <2>1 DEF AnswersAtTheEnd, None
  <2>. QED BY <2>2, <2>3, <2>4, <2>5 DEF FanInv
<1>9. CASE Server
  <2>1. ASSUME Answer PROVE FanInv'
    BY <1>4, <2>1 DEF Answer
  <2>2. ASSUME NEW f \in sent, Receive(f) PROVE FanInv'
    BY <1>3, <2>2 DEF Receive
  <2>3. ASSUME NEW f \in sent \cup {None}, NEW l, NEW time, Turn(l, f, time) PROVE FanInv'
    BY <1>3, <2>3 DEF Turn
  <2>4. ASSUME NEW f \in sent \cup {None}, SelectTurn(f) PROVE FanInv'
    BY <1>3, <2>4 DEF SelectTurn
  <2>5. ASSUME Decide PROVE FanInv'
    BY <1>1, <1>4, <1>8, <2>5 DEF Decide, RoomForMore
  <2>. QED BY <1>7, <1>9, <2>1, <2>2, <2>3, <2>4, <2>5
         DEF Server, Server45, Server67, Server8, Server9, Server10
<1>10. ASSUME NEW l \in Loggers, Pong(l) \/ Stop(l) PROVE UNCHANGED fanVars
  BY <1>10 DEF Pong, Stop
<1>11. CASE UNCHANGED vars
  BY <1>2, <1>11 DEF vars
<1>12. Fans \subseteq Senders /\ Registrars \subseteq Senders
  BY DEF Senders
<1>. QED BY <1>2, <1>5, <1>6, <1>7, <1>9, <1>10, <1>11, <1>12 DEF Next, Finished

(* README.md:54 of "idz os 4": for every number of fans and every length of    *)
(* their messages one fan at most is told AGREE, the first of the longest.     *)
THEOREM LongestCorrect == Spec => []LongestIsChosen
<1>1. FanInv => LongestIsChosen
  <2>. SUFFICES ASSUME FanInv, NEW f \in Fans, fan[f] = "AGREE"
                PROVE  /\ \A g \in Fans : fan[g] = "AGREE" => f = g
                       /\ \E i \in 1..Len(clients) : clients[i] = f /\ IsFirstLongest(i)
    BY DEF LongestIsChosen
  <2>1. AnswersAtTheEnd /\ Fans \subseteq Senders
    BY DEF FanInv, Senders
  <2>. QED BY <2>1 DEF AnswersAtTheEnd
<1>. QED BY <1>1, FanInit, FanStep, PTL DEF Spec
----------------------------------------------------------------------------
(* The inductive invariant of the heartbeats. *)

H == HEARTBEAT_INTERVAL

WatchTypes ==
  /\ active \in SUBSET Loggers /\ pings \in SUBSET Loggers /\ pongs \in SUBSET Loggers
  /\ now \in Nat /\ H <= now /\ now <= MAX_TIME
  /\ last_check \in Nat /\ last_check <= now
  /\ last_active \in [Loggers -> Nat] /\ \A l \in Loggers : last_active[l] <= now
  /\ silent_since \in [Loggers -> Nat \cup {Running}]
  /\ \A l \in Loggers : silent_since[l] <= now

(* The first check comes with the first turn, and no check is late. *)
CheckedInTime ==
  /\ last_check = 0 => /\ now = H /\ pings = {} /\ pongs = {}
                       /\ active = Loggers /\ \A l \in Loggers : last_active[l] = H
  /\ last_check > 0 => now < last_check + H

(* What a logger was asked at a check it has answered two seconds later, so    *)
(* that the next check finds it fresh.                                         *)
Answering(l) ==
  /\ l \in active
  /\ last_check > 0 => last_check <= last_active[l] + H
  /\ l \in pings \cup pongs => now <= last_check + 1
  /\ last_check > 0 /\ l \notin pings \cup pongs => last_check <= last_active[l]

(* The last PONG of a logger is read a second after its end at the latest, and *)
(* the checks leave it no more than two intervals.                             *)
Fading(l) ==
  /\ l \in pongs => \/ now <= silent_since[l]
                    \/ now = silent_since[l] + 1 /\ last_check = silent_since[l]
  /\ last_active[l] <= silent_since[l] + 1
  /\ last_check > 0 /\ l \in active => last_check < last_active[l] + 2 * H

WatchInv ==
  /\ WatchTypes /\ CheckedInTime
  /\ \A l \in Loggers : IF silent_since[l] = Running THEN Answering(l) ELSE Fading(l)

LEMMA WatchInit == Init => WatchInv
<1>. SUFFICES ASSUME Init PROVE WatchInv
  OBVIOUS
<1>1. /\ active = Loggers /\ now = H /\ last_check = 0 /\ pings = {} /\ pongs = {}
      /\ last_active = [l \in Loggers |-> H]
      /\ silent_since = [l \in Loggers |-> Running]
  BY DEF Init, H
<1>2. H \in Nat /\ H >= 2 /\ H <= MAX_TIME /\ Running = -1
  BY ValentineAssumption DEF H, Running
<1>3. WatchTypes
  BY <1>1, <1>2 DEF WatchTypes
<1>4. CheckedInTime
  BY <1>1, <1>2 DEF CheckedInTime
<1>5. \A l \in Loggers : silent_since[l] = Running /\ Answering(l)
  BY <1>1 DEF Answering
<1>. QED BY <1>3, <1>4, <1>5 DEF WatchInv

(* A turn, as the heartbeats see it. *)
LEMMA TurnKeepsWatch ==
  ASSUME WatchInv, NEW k \in pongs \cup {None}, NEW f, NEW time \in {now, now + 1},
         Turn(k, f, time)
  PROVE  WatchInv'
<1>1. H \in Nat /\ H >= 2 /\ Running = -1 /\ LOGGER_TIMEOUT = 2 * H /\ MAX_TIME \in Nat
  BY ValentineAssumption DEF H, Running, LOGGER_TIMEOUT
<1>2. WatchTypes /\ CheckedInTime
  BY DEF WatchInv
<1>3. /\ now \in Nat /\ H <= now /\ last_check \in Nat /\ last_check <= now /\ time \in Nat
      /\ \A l \in Loggers : last_active[l] \in Nat /\ last_active[l] <= now
  BY <1>2 DEF WatchTypes
<1>4. /\ time = now + 1 => SecondMayPass
      /\ now' = time /\ pongs' = pongs \ {k} /\ silent_since' = silent_since
      /\ last_active' = IF k = None THEN last_active ELSE [last_active EXCEPT ![k] = time]
      /\ check_heartbeats(time)
  BY DEF Turn, TakePong
<1>5. k # None => k \in pongs /\ k \in Loggers
  BY <1>2 DEF WatchTypes
<1>6. \A l \in Loggers : last_active'[l] = IF l = k THEN time ELSE last_active[l]
  <2>1. None \notin Loggers
    BY ValentineAssumption
  <2>. QED BY <1>2, <1>4, <1>5, <2>1 DEF WatchTypes
<1>. DEFINE due == time - last_check >= H
<1>7. due => /\ active' = active \ {l \in active : time - last_active[l] >= 2 * H}
             /\ pings' = pings \cup active' /\ last_check' = time
  BY <1>1, <1>4 DEF check_heartbeats, H
<1>8. ~due => UNCHANGED <<active, pings, last_check>>
  BY <1>4 DEF check_heartbeats, H
<1>9. time = now + 1 => /\ now < MAX_TIME
                        /\ \/ now = last_check
                           \/ pongs = {} /\ \A l \in pings : silent_since[l] # Running
  BY <1>4 DEF SecondMayPass
<1>10. WatchTypes'
  <2>1. now' \in Nat /\ H <= now' /\ now' <= MAX_TIME
    BY <1>1, <1>2, <1>3, <1>4, <1>9 DEF WatchTypes
  <2>2. last_check' \in Nat /\ last_check' <= now'
    BY <1>3, <1>4, <1>7, <1>8
  <2>3. active' \in SUBSET Loggers /\ pings' \in SUBSET Loggers /\ pongs' \in SUBSET Loggers
    BY <1>2, <1>4, <1>7, <1>8 DEF WatchTypes
  <2>4. last_active' \in [Loggers -> Nat]
    BY <1>2, <1>3, <1>4 DEF WatchTypes
  <2>5. \A l \in Loggers : last_active'[l] <= now'
    BY <1>3, <1>4, <1>6
  <2>6. silent_since' \in [Loggers -> Nat \cup {Running}]
    BY <1>2, <1>4 DEF WatchTypes
  <2>7. \A l \in Loggers : silent_since'[l] <= now'
    <3>. TAKE l \in Loggers
    <3>1. silent_since[l] \in Nat \cup {-1} /\ silent_since[l] <= now
      BY <1>1, <1>2 DEF WatchTypes
    <3>. QED BY <1>3, <1>4, <3>1
  <2>. QED BY <2>1, <2>2, <2>3, <2>4, <2>5, <2>6, <2>7 DEF WatchTypes, H
<1>11. CheckedInTime'
  <2>1. CASE due
    BY <1>1, <1>3, <1>4, <1>7, <2>1 DEF CheckedInTime, H
  <2>2. CASE ~due
    <3>1. last_check > 0
      <4>1. SUFFICES ASSUME last_check = 0 PROVE FALSE
        BY <1>3
      <4>. QED BY <1>1, <1>3, <2>2, <4>1
    <3>2. time < last_check + H
      BY ONLY <1>1, <1>3, <2>2
    <3>. QED BY <1>1, <1>3, <1>4, <1>8, <2>2, <3>1, <3>2 DEF CheckedInTime, H
  <2>. QED BY <2>1, <2>2
<1>12. ASSUME NEW l \in Loggers, silent_since[l] = Running PROVE Answering(l)'
  <2>1. Answering(l)
    BY <1>12 DEF WatchInv
  <2>2. last_active[l] \in Nat /\ last_active[l] <= now /\ last_active'[l] >= last_active[l]
    BY <1>3, <1>6
  <2>3. CASE due
    <3>1. time - last_active[l] < 2 * H /\ time <= last_active[l] + H
      <4>1. CASE last_check = 0
        BY <1>1, <1>2, <1>3, <4>1 DEF CheckedInTime
      <4>2. CASE last_check > 0
        <5>1. now < last_check + H
          BY <1>2, <4>2 DEF CheckedInTime
        <5>2. time = now + 1 /\ now # last_check /\ time = last_check + H
          BY ONLY <1>1, <1>3, <2>3, <5>1
        <5>3. l \notin pings \cup pongs
          BY <1>9, <1>12, <5>2
        <5>4. last_check <= last_active[l]
          BY <2>1, <4>2, <5>3 DEF Answering
        <5>. QED BY ONLY <1>1, <1>3, <2>2, <5>2, <5>4
      <4>. QED BY <1>3, <4>1, <4>2
    <3>2. l \in active' /\ l \in pings'
      BY <1>1, <1>3, <1>7, <2>1, <2>2, <2>3, <3>1 DEF Answering
    <3>3. last_check' = time /\ time <= last_active'[l] + H
      BY <1>1, <1>3, <1>6, <1>7, <2>2, <2>3, <3>1
    <3>. QED BY <1>3, <1>4, <3>2, <3>3 DEF Answering, H
  <2>4. CASE ~due
    <3>1. last_check > 0 => /\ last_check <= last_active[l] + H
                            /\ last_check <= last_active'[l] + H
      BY <1>1, <1>3, <1>6, <2>1, <2>2 DEF Answering
    <3>2. l \in pings' \cup pongs' => now' <= last_check + 1
      <4>. HAVE l \in pings' \cup pongs'
      <4>1. l \in pings \cup pongs
        BY <1>4, <1>8, <2>4
      <4>2. now <= last_check + 1
        BY <2>1, <4>1 DEF Answering
      <4>3. time = now + 1 => now = last_check
        BY <1>9, <1>12, <4>1
      <4>. QED BY <1>3, <1>4, <4>2, <4>3
    <3>3. last_check > 0 /\ l \notin pings' \cup pongs' => last_check <= last_active'[l]
      <4>. HAVE last_check > 0 /\ l \notin pings' \cup pongs'
      <4>1. CASE l = k
        BY <1>3, <1>6, <4>1
      <4>2. CASE l # k
        BY <1>4, <1>6, <1>8, <2>1, <2>4, <4>2 DEF Answering
      <4>. QED BY <4>1, <4>2
    <3>. QED BY <1>8, <2>1, <2>4, <3>1, <3>2, <3>3 DEF Answering, H
  <2>. QED BY <2>3, <2>4
<1>13. ASSUME NEW l \in Loggers, silent_since[l] # Running PROVE Fading(l)'
  <2>. DEFINE s == silent_since[l]
  <2>1. Fading(l) /\ s \in Nat /\ s <= now
    BY <1>2, <1>13 DEF WatchInv, WatchTypes
  <2>2. last_active[l] \in Nat
    BY <1>3
  <2>3. l \in pongs => last_check > 0
    BY <1>2, <1>3 DEF CheckedInTime
  <2>4. l \in pongs => \/ time <= s
                       \/ time = s + 1 /\ last_check = s /\ ~due
    <3>. HAVE l \in pongs
    <3>1. now <= s \/ (now = s + 1 /\ last_check = s)
      BY <2>1 DEF Fading
    <3>2. now < last_check + H
      BY <1>2, <2>3 DEF CheckedInTime
    <3>3. time = now + 1 => now = last_check
      BY <1>9
    <3>. HIDE DEF s
    <3>. QED BY ONLY <1>1, <1>3, <2>1, <3>1, <3>2, <3>3
  <2>5. l \in pongs' => \/ now' <= s
                        \/ now' = s + 1 /\ last_check' = s
    BY <1>4, <1>8, <2>4
  <2>6. last_active'[l] <= s + 1
    <3>1. CASE l = k
      <4>1. l \in pongs
        BY <1>5, <3>1, ValentineAssumption
      <4>. QED BY <1>3, <1>6, <2>1, <2>4, <3>1, <4>1
    <3>2. CASE l # k
      BY <1>6, <2>1, <3>2 DEF Fading
    <3>. QED BY <3>1, <3>2
  <2>7. last_check' > 0 /\ l \in active' => last_check' < last_active'[l] + 2 * H
    <3>. HAVE last_check' > 0 /\ l \in active'
    <3>1. last_active'[l] \in Nat /\ last_active[l] <= last_active'[l]
      BY <1>3, <1>6
    <3>2. CASE due
      <4>1. ~ (time - last_active[l] >= 2 * H) /\ last_check' = time
        BY <1>7, <3>2
      <4>. QED BY ONLY <1>1, <1>3, <2>2, <3>1, <4>1
    <3>3. CASE ~due
      <4>1. last_check < last_active[l] + 2 * H /\ last_check' = last_check
        BY <1>8, <2>1, <3>3 DEF Fading
      <4>. QED BY ONLY <1>1, <1>3, <2>2, <3>1, <4>1
    <3>. QED BY <3>2, <3>3
  <2>. QED BY <1>4, <2>5, <2>6, <2>7 DEF Fading, H
<1>. QED BY <1>4, <1>10, <1>11, <1>12, <1>13 DEF WatchInv

(* Only turns, PONGs and the end of a logger change what is watched. *)
LEMMA WatchStep == WatchInv /\ [Next]_vars => WatchInv'
<1>. SUFFICES ASSUME WatchInv, [Next]_vars PROVE WatchInv'
  OBVIOUS
<1>1. WatchTypes /\ CheckedInTime /\ Running = -1
  BY DEF WatchInv, Running
<1>2. CASE UNCHANGED logVars
  BY <1>1, <1>2 DEF logVars, WatchInv, WatchTypes, CheckedInTime, Answering, Fading
<1>3. ASSUME NEW l \in Loggers, Pong(l) PROVE WatchInv'
  <2>1. /\ l \in pings /\ silent_since[l] = Running
        /\ pings' = pings \ {l} /\ pongs' = pongs \cup {l}
        /\ UNCHANGED <<active, last_active, last_check, now, silent_since>>
    BY <1>3 DEF Pong
  <2>2. WatchTypes'
    BY <1>1, <2>1 DEF WatchTypes
  <2>3. CheckedInTime'
    BY <1>1, <2>1 DEF CheckedInTime
  <2>4. ASSUME NEW m \in Loggers, silent_since[m] = Running PROVE Answering(m)'
    BY <2>1, <2>4 DEF WatchInv, Answering
  <2>5. ASSUME NEW m \in Loggers, silent_since[m] # Running PROVE Fading(m)'
    BY <2>1, <2>5 DEF WatchInv, Fading
  <2>. QED BY <2>1, <2>2, <2>3, <2>4, <2>5 DEF WatchInv
<1>4. ASSUME NEW l \in Loggers, Stop(l) PROVE WatchInv'
  <2>1. /\ silent_since[l] = Running
        /\ silent_since' = [silent_since EXCEPT ![l] = now]
        /\ UNCHANGED <<active, last_active, last_check, now, pings, pongs>>
    BY <1>4 DEF Stop
  <2>2. silent_since'[l] = now /\ \A m \in Loggers : m # l => silent_since'[m] = silent_since[m]
    BY <1>1, <2>1 DEF WatchTypes
  <2>3. WatchTypes'
    <3>1. silent_since' \in [Loggers -> Nat \cup {Running}]
      BY <1>1, <2>1 DEF WatchTypes
    <3>2. \A m \in Loggers : silent_since'[m] <= now
      BY <1>1, <2>2 DEF WatchTypes
    <3>. QED BY <1>1, <2>1, <3>1, <3>2 DEF WatchTypes
  <2>4. CheckedInTime'
    BY <1>1, <2>1 DEF CheckedInTime
  <2>5. Fading(l)'
    <3>1. Answering(l)
      BY <2>1 DEF WatchInv
    <3>2. last_active[l] \in Nat /\ last_active[l] <= now /\ last_check \in Nat /\ now \in Nat
      BY <1>1 DEF WatchTypes
    <3>3. H \in Nat /\ H >= 2
      BY ValentineAssumption DEF H
    <3>4. last_check > 0 => last_check < last_active[l] + 2 * H
      BY <3>1, <3>2, <3>3 DEF Answering
    <3>. QED BY <2>1, <2>2, <3>2, <3>4 DEF Fading, H
  <2>6. ASSUME NEW m \in Loggers, m # l
        PROVE  IF silent_since'[m] = Running THEN Answering(m)' ELSE Fading(m)'
    BY <2>1, <2>2, <2>6 DEF WatchInv, Answering, Fading
  <2>7. silent_since'[l] # Running
    BY <1>1, <2>2 DEF WatchTypes
  <2>. QED BY <2>3, <2>4, <2>5, <2>6, <2>7 DEF WatchInv, Running
<1>5. CASE Server
  <2>1. ASSUME NEW l \in pongs \cup {None}, NEW f, NEW time \in {now, now + 1}, Turn(l, f, time)
        PROVE  WatchInv'
    BY <2>1, TurnKeepsWatch
  <2>2. ASSUME Answer PROVE UNCHANGED logVars
    BY <2>2 DEF Answer, Select
  <2>3. ASSUME NEW f, Receive(f) \/ SelectTurn(f) PROVE UNCHANGED logVars
    BY <2>3 DEF Receive, SelectTurn
  <2>4. ASSUME TestLoop \/ Decide PROVE UNCHANGED logVars
    BY <2>4 DEF TestLoop, Decide, Select, notify_shutdown
  <2>. QED BY <1>2, <1>5, <2>1, <2>2, <2>3, <2>4
         DEF Server, Server45, Server67, Server8, Server9, Server10
<1>6. ASSUME NEW f, Propose(f) \/ ReceiveAnswer(f) \/ Register(f) PROVE UNCHANGED logVars
  BY <1>6 DEF Propose, ReceiveAnswer, Register
<1>7. ASSUME handle_sigint \/ Finished \/ UNCHANGED vars PROVE UNCHANGED logVars
  BY <1>7 DEF handle_sigint, Finished, vars
<1>. QED BY <1>2, <1>3, <1>4, <1>5, <1>6, <1>7 DEF Next

(* server.c, check_heartbeats: for every interval of two seconds or more and   *)
(* any number of loggers, one that answers stays and one that has stopped goes *)
(* within three intervals.                                                     *)
THEOREM WatchCorrect == Spec => []LoggersAreWatched
<1>1. WatchInv => LoggersAreWatched
  <2>. SUFFICES ASSUME WatchInv, NEW l \in Loggers
                PROVE  /\ silent_since[l] = Running => l \in active
                       /\ silent_since[l] # Running
                            /\ now >= silent_since[l] + 3 * HEARTBEAT_INTERVAL => l \notin active
    BY DEF LoggersAreWatched
  <2>1. silent_since[l] = Running => l \in active
    BY DEF WatchInv, Answering
  <2>2. ASSUME silent_since[l] # Running, l \in active, now >= silent_since[l] + 3 * H
        PROVE  FALSE
    <3>1. Fading(l) /\ CheckedInTime /\ silent_since[l] \in Nat
      BY <2>2 DEF WatchInv, WatchTypes
    <3>2. now \in Nat /\ last_check \in Nat /\ last_active[l] \in Nat /\ H \in Nat /\ H >= 2
      BY ValentineAssumption DEF WatchInv, WatchTypes, H
    <3>3. last_check > 0
      <4>1. last_check = 0 => now = H
        BY <3>1 DEF CheckedInTime
      <4>. QED BY <2>2, <3>1, <3>2, <4>1
    <3>4. now < last_check + H
      BY <3>1, <3>3 DEF CheckedInTime
    <3>5. last_check < last_active[l] + 2 * H /\ last_active[l] <= silent_since[l] + 1
      BY <2>2, <3>1, <3>3 DEF Fading
    <3>. QED BY ONLY <2>2, <3>1, <3>2, <3>4, <3>5
  <2>. QED BY <2>1, <2>2 DEF H
<1>. QED BY <1>1, WatchInit, WatchStep, PTL DEF Spec

(* Part of TypeOK: the messages received are counted once each. *)
LEMMA ReceivedIsCounted == FanInv => Cardinality(Received) = Len(clients)
<1>. SUFFICES ASSUME FanInv PROVE Cardinality(Received) = Len(clients)
  OBVIOUS
<1>1. clients \in Seq(Senders) /\ Len(clients) \in Nat
  BY DEF FanInv, FanTypes
<1>2. \A i, j \in 1..Len(clients) : clients[i] = clients[j] => i = j
  BY DEF FanInv, OnePlaceEach
<1>. DEFINE b == [i \in 1..Len(clients) |-> clients[i]]
<1>3. b \in Bijection(1..Len(clients), Received)
  BY <1>2 DEF Bijection, Injection, Surjection, IsInjective, Received
<1>4. ExistsBijection(1..Len(clients), Received)
  BY <1>3 DEF ExistsBijection
<1>. QED BY <1>1, <1>4, FS_CountingElements

(* The types: every datagram is stored once, no more than num_clients are, and *)
(* the clock is ahead of all times noted.                                      *)
THEOREM ValentineTypeCorrect == Spec => []TypeOK
<1>1. FanInv /\ WatchInv => TypeOK
  <2>. SUFFICES ASSUME FanInv, WatchInv PROVE TypeOK
    OBVIOUS
  <2>1. /\ proposal \in Proposals
        /\ fan \in [Senders -> {"home", "waiting", "gone", "AGREE", "REJECT", "SHUTDOWN"}]
        /\ sent \subseteq Senders
    BY DEF FanInv, FanTypes, Told
  <2>2. Len(clients) <= Cardinality(Fans) /\ Cardinality(Received) = Len(clients)
    BY ReceivedIsCounted DEF FanInv, RoomForMore
  <2>3. active \subseteq Loggers /\ now \in 0..MAX_TIME /\ last_check \in 0..now
    BY ValentineAssumption DEF WatchInv, WatchTypes
  <2>4. \A l \in Loggers : last_active[l] \in 0..now
    BY DEF WatchInv, WatchTypes
  <2>. QED BY <2>1, <2>2, <2>3, <2>4 DEF TypeOK
<1>. QED BY <1>1, FanInit, FanStep, WatchInit, WatchStep, PTL DEF Spec
=============================================================================
