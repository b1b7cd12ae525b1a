----------------------------- MODULE PipelineProofs -----------------------------
(***************************************************************************)
(* The number pipelines ("idz os 1"), proved of the seven parts, every     *)
(* text and every size of the buffers.                                     *)
(*                                                                         *)
(* First, no process is killed by SIGPIPE before it is done, and a program *)
(* that returns well has stored something and leaves nothing behind.  Each *)
(* part has an invariant of its own: how far its processes may be ahead of *)
(* each other, and which ends they hold there.                             *)
(*                                                                         *)
(* Then, the scan finds the numbers of a text, and what is stored is the   *)
(* answer.  What a recursive function computes is proved with numbers: the *)
(* numbers up to which it is right are a set that has 0 in it and with     *)
(* each number the next.  What the processes hold and what the channels    *)
(* hold makes up the text, and after the count the answer.                 *)
(***************************************************************************)
EXTENDS Pipeline, SequenceTheorems, FiniteSetTheorems, WellFoundedInduction, TLAPS

Holds(p, c, m) == <<p, c, m>> \in ends
Waits(p, c, m) == <<p, c, m>> \in opening
FifoEnds(reader) == {<<1, 1, "w">>, <<2, 1, "r">>, <<2, 2, "w">>, <<reader, 2, "r">>}

Types ==
  /\ part \in Parts /\ text \in Texts \cup {NoFile}
  /\ pc \in [Procs -> Nat]
  /\ ended \in [Procs -> {"no", "ok", "failed", "killed"}]
  /\ buf = [p \in Procs |-> buf[p]]
  /\ bytes = [c \in Chans |-> bytes[c]]

(* Without a file the first process does not come past its reading call.       *)
ReadsFirst ==
  text = NoFile => /\ pc[1] <= 4
                   /\ part >= 8 => pc[1] <= 3
                   /\ ended[1] \in {"no", "failed"}

(* Until a process has put its data in, nobody has taken any out.              *)
Inv4 ==
  /\ pc[1] \in 1..8 /\ pc[2] \in 0..9 /\ pc[3] \in 0..5
  /\ ended[1] \in {"no", "ok"} /\ ended[2] \in {"no", "ok"} /\ ended[3] \in {"no", "ok"}
  /\ ended[1] = "ok" => pc[1] = 8
  /\ ended[2] = "ok" => pc[2] = 9
  /\ ended[3] = "ok" => pc[3] = 5
  /\ pc[1] <= 3 <=> pc[2] = 0
  /\ pc[2] <= 1 <=> pc[3] = 0
  /\ pc[1] \in 2..7 => Holds(1, 1, "w")
  /\ pc[1] \in 2..5 => Holds(1, 1, "r")
  /\ pc[1] = 3 => Holds(1, 2, "r") /\ Holds(1, 2, "w")
  /\ pc[2] \in 1..4 => Holds(2, 1, "r")
  /\ pc[2] \in 1..8 => Holds(2, 2, "w")
  /\ pc[2] = 1 => Holds(2, 2, "r")
  /\ pc[3] \in 1..3 => Holds(3, 2, "r")
  /\ pc[1] <= 6 => bytes[1] = <<>> /\ pc[2] <= 3
  /\ pc[2] <= 7 => bytes[2] = <<>> /\ pc[3] <= 2

Inv5 ==
  /\ pc[1] \in 1..11 /\ pc[2] \in 0..10 /\ pc[3] \in 0..5
  /\ ended[1] \in {"no", "ok", "failed"} /\ ended[2] \in {"no", "ok"} /\ ended[3] \in {"no", "ok"}
  /\ ended[1] = "failed" => pc[1] <= 2
  /\ ended[1] = "ok" => pc[1] = 11
  /\ ended[2] = "ok" => pc[2] = 10
  /\ ended[3] = "ok" => pc[3] = 5
  /\ pc[1] <= 3 <=> pc[2] = 0
  /\ pc[2] <= 1 <=> pc[3] = 0
  /\ ends \subseteq FifoEnds(3)
  /\ Holds(1, 1, "w") <=> pc[1] \in 6..7
  /\ Holds(2, 1, "r") <=> pc[2] \in 3..4
  /\ Holds(2, 2, "w") <=> pc[2] \in 7..8
  /\ Holds(3, 2, "r") <=> pc[3] \in 2..3
  /\ pc[1] = 6 /\ pc[2] <= 2 => Waits(1, 1, "w")
  /\ pc[2] = 3 /\ pc[1] <= 5 => Waits(2, 1, "r")
  /\ pc[2] = 7 /\ pc[3] <= 1 => Waits(2, 2, "w")
  /\ pc[3] = 2 /\ pc[2] <= 6 => Waits(3, 2, "r")
  /\ pc[1] <= 6 => bytes[1] = <<>> /\ pc[2] <= 3
  /\ pc[2] <= 7 => bytes[2] = <<>> /\ pc[3] <= 2
  /\ names \subseteq Chans
  /\ pc[1] \in 2..9 => 1 \in names
  /\ pc[1] \in 3..10 => 2 \in names
  /\ pc[1] >= 10 => 1 \notin names
  /\ pc[1] >= 11 => 2 \notin names
  /\ pc[1] >= 9 => ended[2] # "no"
  /\ pc[2] >= 10 => ended[3] # "no"
  /\ pc[3] >= 5 => output # {}

Inv6 ==
  /\ pc[1] \in 1..13 /\ pc[2] \in 0..8 /\ pc[3] = 0
  /\ ended[1] \in {"no", "ok"} /\ ended[2] \in {"no", "ok"}
  /\ ended[1] = "ok" => pc[1] = 13
  /\ ended[2] = "ok" => pc[2] = 8
  /\ names = {}
  /\ pc[1] <= 3 <=> pc[2] = 0
  /\ pc[1] \in 2..7 => Holds(1, 1, "w")
  /\ pc[1] \in 2..5 => Holds(1, 1, "r")
  /\ pc[1] \in 3..11 => Holds(1, 2, "r")
  /\ pc[2] \in 1..3 => Holds(2, 1, "r")
  /\ pc[1] <= 6 => bytes[1] = <<>> /\ pc[2] <= 2
  /\ pc[1] >= 9 => ended[2] # "no"
  /\ pc[1] >= 13 => output # {}

Inv7 ==
  /\ pc[1] \in 1..14 /\ pc[2] \in 0..8 /\ pc[3] = 0
  /\ ended[1] \in {"no", "ok", "failed"} /\ ended[2] \in {"no", "ok"}
  /\ ended[1] = "failed" => pc[1] <= 2
  /\ ended[1] = "ok" => pc[1] = 14
  /\ ended[2] = "ok" => pc[2] = 8
  /\ pc[1] <= 3 <=> pc[2] = 0
  /\ ends \subseteq FifoEnds(1)
  /\ Holds(1, 1, "w") <=> pc[1] \in 6..7
  /\ Holds(2, 1, "r") <=> pc[2] \in 2..3
  /\ Holds(1, 2, "r") <=> pc[1] \in 9..10
  /\ Holds(2, 2, "w") <=> pc[2] \in 6..7
  /\ pc[1] = 6 /\ pc[2] <= 1 => Waits(1, 1, "w")
  /\ pc[2] = 2 /\ pc[1] <= 5 => Waits(2, 1, "r")
  /\ pc[2] = 6 /\ pc[1] <= 8 => Waits(2, 2, "w")
  /\ pc[1] = 9 /\ pc[2] <= 5 => Waits(1, 2, "r")
  /\ pc[1] <= 6 => bytes[1] = <<>> /\ pc[2] <= 2
  /\ pc[2] <= 6 => bytes[2] = <<>> /\ pc[1] <= 9
  /\ names \subseteq Chans
  /\ pc[1] \in 2..12 => 1 \in names
  /\ pc[1] \in 3..13 => 2 \in names
  /\ pc[1] >= 13 => 1 \notin names
  /\ pc[1] >= 14 => 2 \notin names
  /\ pc[1] >= 12 => output # {}

Inv8 ==
  /\ pc[1] \in 1..13 /\ pc[2] \in 1..8 /\ pc[3] = 0
  /\ ended[1] \in {"no", "ok", "failed"} /\ ended[2] \in {"no", "ok", "failed"}
  /\ ended[1] = "failed" => pc[1] <= 2
  /\ ended[1] = "ok" => pc[1] = 13
  /\ ended[2] = "failed" => pc[2] = 1
  /\ ended[2] = "ok" => pc[2] = 8
  /\ ends \subseteq FifoEnds(1)
  /\ Holds(1, 1, "w") <=> pc[1] \in 5..6
  /\ Holds(2, 1, "r") <=> pc[2] \in 2..3
  /\ Holds(1, 2, "r") <=> pc[1] \in 8..9
  /\ Holds(2, 2, "w") <=> pc[2] \in 6..7
  /\ pc[1] = 5 /\ pc[2] <= 1 => Waits(1, 1, "w")
  /\ pc[2] = 2 /\ pc[1] <= 4 => Waits(2, 1, "r")
  /\ pc[2] = 6 /\ pc[1] <= 7 => Waits(2, 2, "w")
  /\ pc[1] = 8 /\ pc[2] <= 5 => Waits(1, 2, "r")
  /\ pc[1] <= 5 => bytes[1] = <<>> /\ pc[2] <= 2
  /\ pc[2] <= 6 => bytes[2] = <<>> /\ pc[1] <= 8
  /\ names \subseteq Chans
  /\ pc[1] \in 2..11 => 1 \in names
  /\ pc[1] \in 3..12 => 2 \in names
  /\ pc[1] >= 12 => 1 \notin names
  /\ pc[1] >= 13 => 2 \notin names
  /\ pc[1] >= 11 => output # {}

Multiples == {CHUNK * n : n \in Nat}
Feeding == pc[1] <= 5 /\ (pc[1] = 5 => buf[1] # <<>>)

Order9 ==
  /\ pc[1] \in 1..13 /\ pc[2] \in 1..8 /\ pc[3] = 0
  /\ ended[1] \in {"no", "ok", "failed"}
  /\ ended[1] = "failed" => pc[1] <= 2
  /\ ended[1] = "ok" => pc[1] = 13
  /\ ends \subseteq FifoEnds(1)
  /\ Holds(1, 1, "w") <=> pc[1] \in 5..6
  /\ ended[2] = "no" => (Holds(2, 1, "r") <=> pc[2] \in 2..3)
  /\ pc[2] <= 1 => ~Holds(2, 1, "r")
  /\ pc[1] = 5 /\ pc[2] <= 1 => Waits(1, 1, "w")
  /\ pc[2] = 2 /\ pc[1] <= 4 => Waits(2, 1, "r")
  /\ names \subseteq Chans
  /\ pc[1] \in 2..11 => 1 \in names
  /\ pc[1] \in 3..12 => 2 \in names
  /\ pc[1] >= 12 => 1 \notin names
  /\ pc[1] >= 13 => 2 \notin names
  /\ pc[1] >= 9 => output # {}

Chunks9 ==
  /\ pc[1] <= 4 => bytes[1] = <<>>
  /\ Feeding => pc[2] <= 2 /\ (pc[2] = 2 => ended[2] = "no")
  /\ Feeding => Len(bytes[1]) \in Multiples
  /\ pc[1] \in 4..5 => buf[1] \in Seq(Cells)
  /\ bytes[1] \in Seq(Cells)
  /\ pc[2] <= 2 => buf[2] \in Seq(Cells)

Inv9 == Order9 /\ Chunks9

Inv10 ==
  /\ pc[1] \in 1..9 /\ pc[2] \in 1..5 /\ pc[3] = 0
  /\ ended[1] \in {"no", "ok"}
  /\ ended[2] \in {"no", "failed"}
  /\ ended[2] = "failed" => pc[2] = 5
  /\ ended[1] = "ok" => pc[1] = 9
  /\ pc[2] <= 4 => bytes[2] = <<>>
  /\ pc[1] >= 7 => pc[2] >= 5
  /\ pc[1] >= 6 => output # {}
  /\ names \subseteq Chans
  /\ pc[1] >= 8 => 1 \notin names
  /\ pc[1] >= 9 => 2 \notin names

Inv ==
  /\ Types
  /\ ReadsFirst
  /\ text # NoFile =>
       /\ part = 4 => Inv4
       /\ part = 5 => Inv5
       /\ part = 6 => Inv6
       /\ part = 7 => Inv7
       /\ part = 8 => Inv8
       /\ part = 9 => Inv9
       /\ part = 10 => Inv10

(* A process that has not ended and waits in no open.                            *)
Ready(p) == ended[p] = "no" /\ ~\E e \in opening : e[1] = p

(* An action is one of the calls of the programs.                               *)
LEMMA ActionsAreCalls ==
  ASSUME NEW p \in Procs
  PROVE  /\ Pipe(p) => Calls(p, "pipe")
         /\ Mkfifo(p) => Calls(p, "mkfifo")
         /\ Fork(p) => Calls(p, "fork")
         /\ Wait(p) => Calls(p, "wait")
         /\ Open(p) => Calls(p, "open")
         /\ Close(p) => Calls(p, "close")
         /\ Unlink(p) => Calls(p, "unlink")
         /\ Put(p) => Calls(p, "put")
         /\ Get(p) => Calls(p, "get")
         /\ Count(p) => Calls(p, "count")
         /\ Store(p) => Calls(p, "store")
         /\ Creat(p) => Calls(p, "creat")
         /\ Feed(p) => Calls(p, "feed")
         /\ Gather(p) => Calls(p, "gather")
         /\ AnswerOfLength(p) => Calls(p, "answer")
         /\ Drain(p) => Calls(p, "drain")
         /\ Msgget(p) => Calls(p, "msgget")
         /\ Send(p) => Calls(p, "send")
         /\ Collect(p) => Calls(p, "collect")
         /\ Reply(p) => Calls(p, "reply")
         /\ Receive(p) => Calls(p, "receive")
         /\ Rmid(p) => Calls(p, "rmid")
         /\ Read(p) => Calls(p, "load") \/ Calls(p, "source")
<1>1. Pipe(p) => Calls(p, "pipe")
  BY DEF Pipe
<1>2. Mkfifo(p) => Calls(p, "mkfifo")
  BY DEF Mkfifo
<1>3. Fork(p) => Calls(p, "fork")
  BY DEF Fork
<1>4. Wait(p) => Calls(p, "wait")
  BY DEF Wait
<1>5. Open(p) => Calls(p, "open")
  BY DEF Open
<1>6. Close(p) => Calls(p, "close")
  BY DEF Close
<1>7. Unlink(p) => Calls(p, "unlink")
  BY DEF Unlink
<1>8. Put(p) => Calls(p, "put")
  BY DEF Put
<1>9. Get(p) => Calls(p, "get")
  BY DEF Get
<1>10. Count(p) => Calls(p, "count")
  BY DEF Count
<1>11. Store(p) => Calls(p, "store")
  BY DEF Store
<1>12. Creat(p) => Calls(p, "creat")
  BY DEF Creat
<1>13. Feed(p) => Calls(p, "feed")
  BY DEF Feed
<1>14. Gather(p) => Calls(p, "gather")
  BY DEF Gather
<1>15. AnswerOfLength(p) => Calls(p, "answer")
  BY DEF AnswerOfLength
<1>16. Drain(p) => Calls(p, "drain")
  BY DEF Drain
<1>17. Msgget(p) => Calls(p, "msgget")
  BY DEF Msgget
<1>18. Send(p) => Calls(p, "send")
  BY DEF Send
<1>19. Collect(p) => Calls(p, "collect")
  BY DEF Collect
<1>20. Reply(p) => Calls(p, "reply")
  BY DEF Reply
<1>21. Receive(p) => Calls(p, "receive")
  BY DEF Receive
<1>22. Rmid(p) => Calls(p, "rmid")
  BY DEF Rmid
<1>23. Read(p) => Calls(p, "load") \/ Calls(p, "source")
  BY DEF Read
<1>. QED
  BY <1>1, <1>2, <1>3, <1>4, <1>5, <1>6, <1>7, <1>8, <1>9, <1>10, <1>11, <1>12, <1>13,
     <1>14, <1>15, <1>16, <1>17, <1>18, <1>19, <1>20, <1>21, <1>22, <1>23

(* A step that is no return makes the call its program has at pc.               *)
LEMMA OneCall ==
  ASSUME NEW p \in Procs, Step(p), ~Exit(p)
  PROVE  /\ Ready(p) /\ pc[p] \in DOMAIN Programs[part][p]
         /\ \A call : Calls(p, call) => call = Programs[part][p][pc[p]][1]
<1>1. ASSUME NEW call, Calls(p, call)
      PROVE  /\ Ready(p) /\ pc[p] \in DOMAIN Programs[part][p]
             /\ call = Programs[part][p][pc[p]][1]
  BY <1>1 DEF Calls, Ready
<1>2. \E call : Calls(p, call)
  BY ActionsAreCalls DEF Step
<1>. QED
  BY <1>1, <1>2

(* What is written in the longest programs, one call at a time.                 *)
LEMMA Reader5Is ==
  /\ Len(Reader5) = 10 /\ DOMAIN Reader5 = 1..10
  /\ Reader5[1] = <<"mkfifo", 1>> /\ Reader5[2] = <<"mkfifo", 2>>
  /\ Reader5[3] = <<"fork", 2>> /\ Reader5[4] = <<"load">>
  /\ Reader5[5] = <<"open", 1, "w">> /\ Reader5[6] = <<"put", 1>>
  /\ Reader5[7] = <<"close", 1, "w">> /\ Reader5[8] = <<"wait", 2>>
  /\ Reader5[9] = <<"unlink", 1>> /\ Reader5[10] = <<"unlink", 2>>
BY DEF Reader5, Cleanup5

LEMMA Reader7Is ==
  /\ Len(Reader7) = 13 /\ DOMAIN Reader7 = 1..13
  /\ Reader7[1] = <<"mkfifo", 1>> /\ Reader7[2] = <<"mkfifo", 2>>
  /\ Reader7[3] = <<"fork", 2>> /\ Reader7[4] = <<"load">>
  /\ Reader7[5] = <<"open", 1, "w">> /\ Reader7[6] = <<"put", 1>>
  /\ Reader7[7] = <<"close", 1, "w">> /\ Reader7[8] = <<"open", 2, "r">>
  /\ Reader7[9] = <<"get", 2>> /\ Reader7[10] = <<"close", 2, "r">>
  /\ Reader7[11] = <<"store">> /\ Reader7[12] = <<"unlink", 1>>
  /\ Reader7[13] = <<"unlink", 2>>
BY DEF Reader7, Cleanup7

(* Part 4, the process that reads the file: its calls one after the other.      *)
LEMMA Reader4Steps ==
  ASSUME part = 4, pc \in [Procs -> Nat], Step(1)
  PROVE  \/ pc[1] = 8 /\ Exit(1)
         \/ /\ Ready(1)
            /\ \/ pc[1] = 1 /\ Chan(1) = 1 /\ Pipe(1)
               \/ pc[1] = 2 /\ Chan(1) = 2 /\ Pipe(1)
               \/ pc[1] = 3 /\ Chan(1) = 2 /\ Fork(1)
               \/ pc[1] = 4 /\ Read(1)
               \/ pc[1] = 5 /\ Chan(1) = 1 /\ Mode(1) = "r" /\ Close(1)
               \/ pc[1] = 6 /\ Chan(1) = 1 /\ Put(1)
               \/ pc[1] = 7 /\ Chan(1) = 1 /\ Mode(1) = "w" /\ Close(1)
<1>1. Programs[part][1] = Reader4
  BY DEF Programs, Parts
<1>2. Len(Reader4) = 7 /\ DOMAIN Reader4 = 1..7
  BY DEF Reader4
<1>3. CASE Exit(1)
  <2>1. pc[1] = Len(Reader4) + 1
    BY <1>1, <1>3 DEF Exit
  <2>. QED
    BY <1>2, <1>3, <2>1
<1>4. CASE ~Exit(1)
  <2>1. /\ Ready(1) /\ pc[1] \in 1..7
        /\ \A call : Calls(1, call) => call = Reader4[pc[1]][1]
    BY <1>1, <1>2, <1>4, OneCall DEF Procs
  <2>. QED
    BY <1>1, <1>4, <2>1, ActionsAreCalls DEF Step, Chan, Mode, Procs, Reader4
<1>. QED
  BY <1>3, <1>4

(* Part 4, the process that counts: its calls one after the other.              *)
LEMMA Counter4Steps ==
  ASSUME part = 4, pc \in [Procs -> Nat], Step(2)
  PROVE  \/ pc[2] = 9 /\ Exit(2)
         \/ /\ Ready(2)
            /\ \/ pc[2] = 1 /\ Chan(2) = 3 /\ Fork(2)
               \/ pc[2] = 2 /\ Chan(2) = 1 /\ Mode(2) = "w" /\ Close(2)
               \/ pc[2] = 3 /\ Chan(2) = 1 /\ Get(2)
               \/ pc[2] = 4 /\ Chan(2) = 1 /\ Mode(2) = "r" /\ Close(2)
               \/ pc[2] = 5 /\ Count(2)
               \/ pc[2] = 6 /\ Chan(2) = 2 /\ Mode(2) = "r" /\ Close(2)
               \/ pc[2] = 7 /\ Chan(2) = 2 /\ Put(2)
               \/ pc[2] = 8 /\ Chan(2) = 2 /\ Mode(2) = "w" /\ Close(2)
<1>1. Programs[part][2] = Counter4
  BY DEF Programs, Parts
<1>2. Len(Counter4) = 8 /\ DOMAIN Counter4 = 1..8
  BY DEF Counter4
<1>3. CASE Exit(2)
  <2>1. pc[2] = Len(Counter4) + 1
    BY <1>1, <1>3 DEF Exit
  <2>. QED
    BY <1>2, <1>3, <2>1
<1>4. CASE ~Exit(2)
  <2>1. /\ Ready(2) /\ pc[2] \in 1..8
        /\ \A call : Calls(2, call) => call = Counter4[pc[2]][1]
    BY <1>1, <1>2, <1>4, OneCall DEF Procs
  <2>. QED
    BY <1>1, <1>4, <2>1, ActionsAreCalls DEF Step, Chan, Mode, Procs, Counter4
<1>. QED
  BY <1>3, <1>4

(* Part 4, the process that stores: its calls one after the other.              *)
LEMMA Writer4Steps ==
  ASSUME part = 4, pc \in [Procs -> Nat], Step(3)
  PROVE  \/ pc[3] = 5 /\ Exit(3)
         \/ /\ Ready(3)
            /\ \/ pc[3] = 1 /\ Chan(3) = 2 /\ Mode(3) = "w" /\ Close(3)
               \/ pc[3] = 2 /\ Chan(3) = 2 /\ Get(3)
               \/ pc[3] = 3 /\ Chan(3) = 2 /\ Mode(3) = "r" /\ Close(3)
               \/ pc[3] = 4 /\ Store(3)
<1>1. Programs[part][3] = Writer4
  BY DEF Programs, Parts
<1>2. Len(Writer4) = 4 /\ DOMAIN Writer4 = 1..4
  BY DEF Writer4
<1>3. CASE Exit(3)
  <2>1. pc[3] = Len(Writer4) + 1
    BY <1>1, <1>3 DEF Exit
  <2>. QED
    BY <1>2, <1>3, <2>1
<1>4. CASE ~Exit(3)
  <2>1. /\ Ready(3) /\ pc[3] \in 1..4
        /\ \A call : Calls(3, call) => call = Writer4[pc[3]][1]
    BY <1>1, <1>2, <1>4, OneCall DEF Procs
  <2>. QED
    BY <1>1, <1>4, <2>1, ActionsAreCalls DEF Step, Chan, Mode, Procs, Writer4
<1>. QED
  BY <1>3, <1>4

(* Part 5, the process that reads the file: its calls one after the other.      *)
LEMMA Reader5Steps ==
  ASSUME part = 5, pc \in [Procs -> Nat], Step(1)
  PROVE  \/ pc[1] = 11 /\ Exit(1)
         \/ /\ Ready(1)
            /\ \/ pc[1] = 1 /\ Chan(1) = 1 /\ Mkfifo(1)
               \/ pc[1] = 2 /\ Chan(1) = 2 /\ Mkfifo(1)
               \/ pc[1] = 3 /\ Chan(1) = 2 /\ Fork(1)
               \/ pc[1] = 4 /\ Read(1)
               \/ pc[1] = 5 /\ Chan(1) = 1 /\ Mode(1) = "w" /\ Open(1)
               \/ pc[1] = 6 /\ Chan(1) = 1 /\ Put(1)
               \/ pc[1] = 7 /\ Chan(1) = 1 /\ Mode(1) = "w" /\ Close(1)
               \/ pc[1] = 8 /\ Chan(1) = 2 /\ Wait(1)
               \/ pc[1] = 9 /\ Chan(1) = 1 /\ Unlink(1)
               \/ pc[1] = 10 /\ Chan(1) = 2 /\ Unlink(1)
<1>1. Programs[part][1] = Reader5
  BY DEF Programs, Parts
<1>2. Len(Reader5) = 10 /\ DOMAIN Reader5 = 1..10
  BY Reader5Is
<1>3. CASE Exit(1)
  <2>1. pc[1] = Len(Reader5) + 1
    BY <1>1, <1>3 DEF Exit
  <2>. QED
    BY <1>2, <1>3, <2>1
<1>4. CASE ~Exit(1)
  <2>1. /\ Ready(1) /\ pc[1] \in 1..10
        /\ \A call : Calls(1, call) => call = Reader5[pc[1]][1]
    BY <1>1, <1>2, <1>4, OneCall DEF Procs
  <2>. QED
    BY <1>1, <1>4, <2>1, Reader5Is, ActionsAreCalls DEF Step, Chan, Mode, Procs
<1>. QED
  BY <1>3, <1>4

(* Part 5, the process that counts: its calls one after the other.              *)
LEMMA Counter5Steps ==
  ASSUME part = 5, pc \in [Procs -> Nat], Step(2)
  PROVE  \/ pc[2] = 10 /\ Exit(2)
         \/ /\ Ready(2)
            /\ \/ pc[2] = 1 /\ Chan(2) = 3 /\ Fork(2)
               \/ pc[2] = 2 /\ Chan(2) = 1 /\ Mode(2) = "r" /\ Open(2)
               \/ pc[2] = 3 /\ Chan(2) = 1 /\ Get(2)
               \/ pc[2] = 4 /\ Chan(2) = 1 /\ Mode(2) = "r" /\ Close(2)
               \/ pc[2] = 5 /\ Count(2)
               \/ pc[2] = 6 /\ Chan(2) = 2 /\ Mode(2) = "w" /\ Open(2)
               \/ pc[2] = 7 /\ Chan(2) = 2 /\ Put(2)
               \/ pc[2] = 8 /\ Chan(2) = 2 /\ Mode(2) = "w" /\ Close(2)
               \/ pc[2] = 9 /\ Chan(2) = 3 /\ Wait(2)
<1>1. Programs[part][2] = Counter5
  BY DEF Programs, Parts
<1>2. Len(Counter5) = 9 /\ DOMAIN Counter5 = 1..9
  BY DEF Counter5
<1>3. CASE Exit(2)
  <2>1. pc[2] = Len(Counter5) + 1
    BY <1>1, <1>3 DEF Exit
  <2>. QED
    BY <1>2, <1>3, <2>1
<1>4. CASE ~Exit(2)
  <2>1. /\ Ready(2) /\ pc[2] \in 1..9
        /\ \A call : Calls(2, call) => call = Counter5[pc[2]][1]
    BY <1>1, <1>2, <1>4, OneCall DEF Procs
  <2>. QED
    BY <1>1, <1>4, <2>1, ActionsAreCalls DEF Step, Chan, Mode, Procs, Counter5
<1>. QED
  BY <1>3, <1>4

(* Part 5, the process that stores: its calls one after the other.              *)
LEMMA Writer5Steps ==
  ASSUME part = 5, pc \in [Procs -> Nat], Step(3)
  PROVE  \/ pc[3] = 5 /\ Exit(3)
         \/ /\ Ready(3)
            /\ \/ pc[3] = 1 /\ Chan(3) = 2 /\ Mode(3) = "r" /\ Open(3)
               \/ pc[3] = 2 /\ Chan(3) = 2 /\ Get(3)
               \/ pc[3] = 3 /\ Chan(3) = 2 /\ Mode(3) = "r" /\ Close(3)
               \/ pc[3] = 4 /\ Store(3)
<1>1. Programs[part][3] = Writer5
  BY DEF Programs, Parts
<1>2. Len(Writer5) = 4 /\ DOMAIN Writer5 = 1..4
  BY DEF Writer5
<1>3. CASE Exit(3)
  <2>1. pc[3] = Len(Writer5) + 1
    BY <1>1, <1>3 DEF Exit
  <2>. QED
    BY <1>2, <1>3, <2>1
<1>4. CASE ~Exit(3)
  <2>1. /\ Ready(3) /\ pc[3] \in 1..4
        /\ \A call : Calls(3, call) => call = Writer5[pc[3]][1]
    BY <1>1, <1>2, <1>4, OneCall DEF Procs
  <2>. QED
    BY <1>1, <1>4, <2>1, ActionsAreCalls DEF Step, Chan, Mode, Procs, Writer5
<1>. QED
  BY <1>3, <1>4

(* Part 6, the process that reads the file: its calls one after the other.      *)
LEMMA Reader6Steps ==
  ASSUME part = 6, pc \in [Procs -> Nat], Step(1)
  PROVE  \/ pc[1] = 13 /\ Exit(1)
         \/ /\ Ready(1)
            /\ \/ pc[1] = 1 /\ Chan(1) = 1 /\ Pipe(1)
               \/ pc[1] = 2 /\ Chan(1) = 2 /\ Pipe(1)
               \/ pc[1] = 3 /\ Chan(1) = 2 /\ Fork(1)
               \/ pc[1] = 4 /\ Read(1)
               \/ pc[1] = 5 /\ Chan(1) = 1 /\ Mode(1) = "r" /\ Close(1)
               \/ pc[1] = 6 /\ Chan(1) = 1 /\ Put(1)
               \/ pc[1] = 7 /\ Chan(1) = 1 /\ Mode(1) = "w" /\ Close(1)
               \/ pc[1] = 8 /\ Chan(1) = 2 /\ Wait(1)
               \/ pc[1] = 9 /\ Chan(1) = 2 /\ Mode(1) = "w" /\ Close(1)
               \/ pc[1] = 10 /\ Chan(1) = 2 /\ Get(1)
               \/ pc[1] = 11 /\ Chan(1) = 2 /\ Mode(1) = "r" /\ Close(1)
               \/ pc[1] = 12 /\ Store(1)
<1>1. Programs[part][1] = Reader6
  BY DEF Programs, Parts
<1>2. Len(Reader6) = 12 /\ DOMAIN Reader6 = 1..12
  BY DEF Reader6
<1>3. CASE Exit(1)
  <2>1. pc[1] = Len(Reader6) + 1
    BY <1>1, <1>3 DEF Exit
  <2>. QED
    BY <1>2, <1>3, <2>1
<1>4. CASE ~Exit(1)
  <2>1. /\ Ready(1) /\ pc[1] \in 1..12
        /\ \A call : Calls(1, call) => call = Reader6[pc[1]][1]
    BY <1>1, <1>2, <1>4, OneCall DEF Procs
  <2>. QED
    BY <1>1, <1>4, <2>1, ActionsAreCalls DEF Step, Chan, Mode, Procs, Reader6
<1>. QED
  BY <1>3, <1>4

(* Part 6, the process that counts: its calls one after the other.              *)
LEMMA Counter6Steps ==
  ASSUME part = 6, pc \in [Procs -> Nat], Step(2)
  PROVE  \/ pc[2] = 8 /\ Exit(2)
         \/ /\ Ready(2)
            /\ \/ pc[2] = 1 /\ Chan(2) = 1 /\ Mode(2) = "w" /\ Close(2)
               \/ pc[2] = 2 /\ Chan(2) = 1 /\ Get(2)
               \/ pc[2] = 3 /\ Chan(2) = 1 /\ Mode(2) = "r" /\ Close(2)
               \/ pc[2] = 4 /\ Count(2)
               \/ pc[2] = 5 /\ Chan(2) = 2 /\ Mode(2) = "r" /\ Close(2)
               \/ pc[2] = 6 /\ Chan(2) = 2 /\ Put(2)
               \/ pc[2] = 7 /\ Chan(2) = 2 /\ Mode(2) = "w" /\ Close(2)
<1>1. Programs[part][2] = Counter6
  BY DEF Programs, Parts
<1>2. Len(Counter6) = 7 /\ DOMAIN Counter6 = 1..7
  BY DEF Counter6
<1>3. CASE Exit(2)
  <2>1. pc[2] = Len(Counter6) + 1
    BY <1>1, <1>3 DEF Exit
  <2>. QED
    BY <1>2, <1>3, <2>1
<1>4. CASE ~Exit(2)
  <2>1. /\ Ready(2) /\ pc[2] \in 1..7
        /\ \A call : Calls(2, call) => call = Counter6[pc[2]][1]
    BY <1>1, <1>2, <1>4, OneCall DEF Procs
  <2>. QED
    BY <1>1, <1>4, <2>1, ActionsAreCalls DEF Step, Chan, Mode, Procs, Counter6
<1>. QED
  BY <1>3, <1>4

(* Part 7, the process that reads the file: its calls one after the other.      *)
LEMMA Reader7Steps ==
  ASSUME part = 7, pc \in [Procs -> Nat], Step(1)
  PROVE  \/ pc[1] = 14 /\ Exit(1)
         \/ /\ Ready(1)
            /\ \/ pc[1] = 1 /\ Chan(1) = 1 /\ Mkfifo(1)
               \/ pc[1] = 2 /\ Chan(1) = 2 /\ Mkfifo(1)
               \/ pc[1] = 3 /\ Chan(1) = 2 /\ Fork(1)
               \/ pc[1] = 4 /\ Read(1)
               \/ pc[1] = 5 /\ Chan(1) = 1 /\ Mode(1) = "w" /\ Open(1)
               \/ pc[1] = 6 /\ Chan(1) = 1 /\ Put(1)
               \/ pc[1] = 7 /\ Chan(1) = 1 /\ Mode(1) = "w" /\ Close(1)
               \/ pc[1] = 8 /\ Chan(1) = 2 /\ Mode(1) = "r" /\ Open(1)
               \/ pc[1] = 9 /\ Chan(1) = 2 /\ Get(1)
               \/ pc[1] = 10 /\ Chan(1) = 2 /\ Mode(1) = "r" /\ Close(1)
               \/ pc[1] = 11 /\ Store(1)
               \/ pc[1] = 12 /\ Chan(1) = 1 /\ Unlink(1)
               \/ pc[1] = 13 /\ Chan(1) = 2 /\ Unlink(1)
<1>1. Programs[part][1] = Reader7
  BY DEF Programs, Parts
<1>2. Len(Reader7) = 13 /\ DOMAIN Reader7 = 1..13
  BY Reader7Is
<1>3. CASE Exit(1)
  <2>1. pc[1] = Len(Reader7) + 1
    BY <1>1, <1>3 DEF Exit
  <2>. QED
    BY <1>2, <1>3, <2>1
<1>4. CASE ~Exit(1)
  <2>1. /\ Ready(1) /\ pc[1] \in 1..13
        /\ \A call : Calls(1, call) => call = Reader7[pc[1]][1]
    BY <1>1, <1>2, <1>4, OneCall DEF Procs
  <2>. QED
    BY <1>1, <1>4, <2>1, Reader7Is, ActionsAreCalls DEF Step, Chan, Mode, Procs
<1>. QED
  BY <1>3, <1>4

(* Part 7, the process that counts: its calls one after the other.              *)
LEMMA Counter7Steps ==
  ASSUME part = 7, pc \in [Procs -> Nat], Step(2)
  PROVE  \/ pc[2] = 8 /\ Exit(2)
         \/ /\ Ready(2)
            /\ \/ pc[2] = 1 /\ Chan(2) = 1 /\ Mode(2) = "r" /\ Open(2)
               \/ pc[2] = 2 /\ Chan(2) = 1 /\ Get(2)
               \/ pc[2] = 3 /\ Chan(2) = 1 /\ Mode(2) = "r" /\ Close(2)
               \/ pc[2] = 4 /\ Count(2)
               \/ pc[2] = 5 /\ Chan(2) = 2 /\ Mode(2) = "w" /\ Open(2)
               \/ pc[2] = 6 /\ Chan(2) = 2 /\ Put(2)
               \/ pc[2] = 7 /\ Chan(2) = 2 /\ Mode(2) = "w" /\ Close(2)
<1>1. Programs[part][2] = Counter7
  BY DEF Programs, Parts
<1>2. Len(Counter7) = 7 /\ DOMAIN Counter7 = 1..7
  BY DEF Counter7
<1>3. CASE Exit(2)
  <2>1. pc[2] = Len(Counter7) + 1
    BY <1>1, <1>3 DEF Exit
  <2>. QED
    BY <1>2, <1>3, <2>1
<1>4. CASE ~Exit(2)
  <2>1. /\ Ready(2) /\ pc[2] \in 1..7
        /\ \A call : Calls(2, call) => call = Counter7[pc[2]][1]
    BY <1>1, <1>2, <1>4, OneCall DEF Procs
  <2>. QED
    BY <1>1, <1>4, <2>1, ActionsAreCalls DEF Step, Chan, Mode, Procs, Counter7
<1>. QED
  BY <1>3, <1>4

(* Part 8, the process that reads the file: its calls one after the other.      *)
LEMMA Reader8Steps ==
  ASSUME part = 8, pc \in [Procs -> Nat], Step(1)
  PROVE  \/ pc[1] = 13 /\ Exit(1)
         \/ /\ Ready(1)
            /\ \/ pc[1] = 1 /\ Chan(1) = 1 /\ Mkfifo(1)
               \/ pc[1] = 2 /\ Chan(1) = 2 /\ Mkfifo(1)
               \/ pc[1] = 3 /\ Read(1)
               \/ pc[1] = 4 /\ Chan(1) = 1 /\ Mode(1) = "w" /\ Open(1)
               \/ pc[1] = 5 /\ Chan(1) = 1 /\ Put(1)
               \/ pc[1] = 6 /\ Chan(1) = 1 /\ Mode(1) = "w" /\ Close(1)
               \/ pc[1] = 7 /\ Chan(1) = 2 /\ Mode(1) = "r" /\ Open(1)
               \/ pc[1] = 8 /\ Chan(1) = 2 /\ Get(1)
               \/ pc[1] = 9 /\ Chan(1) = 2 /\ Mode(1) = "r" /\ Close(1)
               \/ pc[1] = 10 /\ Store(1)
               \/ pc[1] = 11 /\ Chan(1) = 1 /\ Unlink(1)
               \/ pc[1] = 12 /\ Chan(1) = 2 /\ Unlink(1)
<1>1. Programs[part][1] = Reader8
  BY DEF Programs, Parts
<1>2. Len(Reader8) = 12 /\ DOMAIN Reader8 = 1..12
  BY DEF Reader8
<1>3. CASE Exit(1)
  <2>1. pc[1] = Len(Reader8) + 1
    BY <1>1, <1>3 DEF Exit
  <2>. QED
    BY <1>2, <1>3, <2>1
<1>4. CASE ~Exit(1)
  <2>1. /\ Ready(1) /\ pc[1] \in 1..12
        /\ \A call : Calls(1, call) => call = Reader8[pc[1]][1]
    BY <1>1, <1>2, <1>4, OneCall DEF Procs
  <2>. QED
    BY <1>1, <1>4, <2>1, ActionsAreCalls DEF Step, Chan, Mode, Procs, Reader8
<1>. QED
  BY <1>3, <1>4

(* Part 8, the process that counts: its calls one after the other.              *)
LEMMA Counter8Steps ==
  ASSUME part = 8, pc \in [Procs -> Nat], Step(2)
  PROVE  \/ pc[2] = 8 /\ Exit(2)
         \/ /\ Ready(2)
            /\ \/ pc[2] = 1 /\ Chan(2) = 1 /\ Mode(2) = "r" /\ Open(2)
               \/ pc[2] = 2 /\ Chan(2) = 1 /\ Get(2)
               \/ pc[2] = 3 /\ Chan(2) = 1 /\ Mode(2) = "r" /\ Close(2)
               \/ pc[2] = 4 /\ Count(2)
               \/ pc[2] = 5 /\ Chan(2) = 2 /\ Mode(2) = "w" /\ Open(2)
               \/ pc[2] = 6 /\ Chan(2) = 2 /\ Put(2)
               \/ pc[2] = 7 /\ Chan(2) = 2 /\ Mode(2) = "w" /\ Close(2)
<1>1. Programs[part][2] = Counter8
  BY DEF Programs, Parts
<1>2. Len(Counter8) = 7 /\ DOMAIN Counter8 = 1..7
  BY DEF Counter8
<1>3. CASE Exit(2)
  <2>1. pc[2] = Len(Counter8) + 1
    BY <1>1, <1>3 DEF Exit
  <2>. QED
    BY <1>2, <1>3, <2>1
<1>4. CASE ~Exit(2)
  <2>1. /\ Ready(2) /\ pc[2] \in 1..7
        /\ \A call : Calls(2, call) => call = Counter8[pc[2]][1]
    BY <1>1, <1>2, <1>4, OneCall DEF Procs
  <2>. QED
    BY <1>1, <1>4, <2>1, ActionsAreCalls DEF Step, Chan, Mode, Procs, Counter8
<1>. QED
  BY <1>3, <1>4

(* Part 9, the process that reads the file: its calls one after the other.      *)
LEMMA Reader9Steps ==
  ASSUME part = 9, pc \in [Procs -> Nat], Step(1)
  PROVE  \/ pc[1] = 13 /\ Exit(1)
         \/ /\ Ready(1)
            /\ \/ pc[1] = 1 /\ Chan(1) = 1 /\ Mkfifo(1)
               \/ pc[1] = 2 /\ Chan(1) = 2 /\ Mkfifo(1)
               \/ pc[1] = 3 /\ Read(1)
               \/ pc[1] = 4 /\ Chan(1) = 1 /\ Mode(1) = "w" /\ Open(1)
               \/ pc[1] = 5 /\ Chan(1) = 1 /\ Feed(1)
               \/ pc[1] = 6 /\ Chan(1) = 1 /\ Mode(1) = "w" /\ Close(1)
               \/ pc[1] = 7 /\ Chan(1) = 2 /\ Mode(1) = "r" /\ Open(1)
               \/ pc[1] = 8 /\ Creat(1)
               \/ pc[1] = 9 /\ Chan(1) = 2 /\ Drain(1)
               \/ pc[1] = 10 /\ Chan(1) = 2 /\ Mode(1) = "r" /\ Close(1)
               \/ pc[1] = 11 /\ Chan(1) = 1 /\ Unlink(1)
               \/ pc[1] = 12 /\ Chan(1) = 2 /\ Unlink(1)
<1>1. Programs[part][1] = Reader9
  BY DEF Programs, Parts
<1>2. Len(Reader9) = 12 /\ DOMAIN Reader9 = 1..12
  BY DEF Reader9
<1>3. CASE Exit(1)
  <2>1. pc[1] = Len(Reader9) + 1
    BY <1>1, <1>3 DEF Exit
  <2>. QED
    BY <1>2, <1>3, <2>1
<1>4. CASE ~Exit(1)
  <2>1. /\ Ready(1) /\ pc[1] \in 1..12
        /\ \A call : Calls(1, call) => call = Reader9[pc[1]][1]
    BY <1>1, <1>2, <1>4, OneCall DEF Procs
  <2>. QED
    BY <1>1, <1>4, <2>1, ActionsAreCalls DEF Step, Chan, Mode, Procs, Reader9
<1>. QED
  BY <1>3, <1>4

(* Part 9, the process that counts: its calls one after the other.              *)
LEMMA Counter9Steps ==
  ASSUME part = 9, pc \in [Procs -> Nat], Step(2)
  PROVE  \/ pc[2] = 8 /\ Exit(2)
         \/ /\ Ready(2)
            /\ \/ pc[2] = 1 /\ Chan(2) = 1 /\ Mode(2) = "r" /\ Open(2)
               \/ pc[2] = 2 /\ Chan(2) = 1 /\ Gather(2)
               \/ pc[2] = 3 /\ Chan(2) = 1 /\ Mode(2) = "r" /\ Close(2)
               \/ pc[2] = 4 /\ AnswerOfLength(2)
               \/ pc[2] = 5 /\ Chan(2) = 2 /\ Mode(2) = "w" /\ Open(2)
               \/ pc[2] = 6 /\ Chan(2) = 2 /\ Feed(2)
               \/ pc[2] = 7 /\ Chan(2) = 2 /\ Mode(2) = "w" /\ Close(2)
<1>1. Programs[part][2] = Counter9
  BY DEF Programs, Parts
<1>2. Len(Counter9) = 7 /\ DOMAIN Counter9 = 1..7
  BY DEF Counter9
<1>3. CASE Exit(2)
  <2>1. pc[2] = Len(Counter9) + 1
    BY <1>1, <1>3 DEF Exit
  <2>. QED
    BY <1>2, <1>3, <2>1
<1>4. CASE ~Exit(2)
  <2>1. /\ Ready(2) /\ pc[2] \in 1..7
        /\ \A call : Calls(2, call) => call = Counter9[pc[2]][1]
    BY <1>1, <1>2, <1>4, OneCall DEF Procs
  <2>. QED
    BY <1>1, <1>4, <2>1, ActionsAreCalls DEF Step, Chan, Mode, Procs, Counter9
<1>. QED
  BY <1>3, <1>4

(* Part 10, the process that reads the file: its calls one after the other.     *)
LEMMA Reader10Steps ==
  ASSUME part = 10, pc \in [Procs -> Nat], Step(1)
  PROVE  \/ pc[1] = 9 /\ Exit(1)
         \/ /\ Ready(1)
            /\ \/ pc[1] = 1 /\ Chan(1) = 1 /\ Msgget(1)
               \/ pc[1] = 2 /\ Chan(1) = 2 /\ Msgget(1)
               \/ pc[1] = 3 /\ Read(1)
               \/ pc[1] = 4 /\ Chan(1) = 1 /\ Send(1)
               \/ pc[1] = 5 /\ Creat(1)
               \/ pc[1] = 6 /\ Chan(1) = 2 /\ Receive(1)
               \/ pc[1] = 7 /\ Chan(1) = 1 /\ Rmid(1)
               \/ pc[1] = 8 /\ Chan(1) = 2 /\ Rmid(1)
<1>1. Programs[part][1] = Reader10
  BY DEF Programs, Parts
<1>2. Len(Reader10) = 8 /\ DOMAIN Reader10 = 1..8
  BY DEF Reader10
<1>3. CASE Exit(1)
  <2>1. pc[1] = Len(Reader10) + 1
    BY <1>1, <1>3 DEF Exit
  <2>. QED
    BY <1>2, <1>3, <2>1
<1>4. CASE ~Exit(1)
  <2>1. /\ Ready(1) /\ pc[1] \in 1..8
        /\ \A call : Calls(1, call) => call = Reader10[pc[1]][1]
    BY <1>1, <1>2, <1>4, OneCall DEF Procs
  <2>. QED
    BY <1>1, <1>4, <2>1, ActionsAreCalls DEF Step, Chan, Mode, Procs, Reader10
<1>. QED
  BY <1>3, <1>4

(* Part 10, the process that counts: its calls one after the other.             *)
LEMMA Counter10Steps ==
  ASSUME part = 10, pc \in [Procs -> Nat], Step(2)
  PROVE  \/ pc[2] = 6 /\ Exit(2)
         \/ /\ Ready(2)
            /\ \/ pc[2] = 1 /\ Chan(2) = 1 /\ Msgget(2)
               \/ pc[2] = 2 /\ Chan(2) = 2 /\ Msgget(2)
               \/ pc[2] = 3 /\ Chan(2) = 1 /\ Collect(2)
               \/ pc[2] = 4 /\ Count(2)
               \/ pc[2] = 5 /\ Chan(2) = 2 /\ Reply(2)
<1>1. Programs[part][2] = Counter10
  BY DEF Programs, Parts
<1>2. Len(Counter10) = 5 /\ DOMAIN Counter10 = 1..5
  BY DEF Counter10
<1>3. CASE Exit(2)
  <2>1. pc[2] = Len(Counter10) + 1
    BY <1>1, <1>3 DEF Exit
  <2>. QED
    BY <1>2, <1>3, <2>1
<1>4. CASE ~Exit(2)
  <2>1. /\ Ready(2) /\ pc[2] \in 1..5
        /\ \A call : Calls(2, call) => call = Counter10[pc[2]][1]
    BY <1>1, <1>2, <1>4, OneCall DEF Procs
  <2>. QED
    BY <1>1, <1>4, <2>1, ActionsAreCalls DEF Step, Chan, Mode, Procs, Counter10
<1>. QED
  BY <1>3, <1>4

(* An opener that finds nobody at the other end waits there; the others' waits on *)
(* the other fifo stay.                                                           *)
LEMMA OpenWaits ==
  ASSUME NEW p \in Procs, NEW r, Open(p), Chan(p) \in names, ends \subseteq FifoEnds(r)
  PROVE  /\ ends' = ends \cup {<<p, Chan(p), Mode(p)>>}
         /\ <<p, Chan(p), Mode(p)>> \in FifoEnds(r) => ends' \subseteq FifoEnds(r)
         /\ pc' = [pc EXCEPT ![p] = @ + 1]
         /\ UNCHANGED <<inputs, ended, buf, message, bytes, names, output>>
         /\ \A q, c, m : c # Chan(p) /\ Waits(q, c, m) => Waits(q, c, m)'
         /\ Chan(p) = 1 /\ Mode(p) = "w" /\ ~Holds(2, 1, "r") => Waits(p, 1, "w")'
         /\ Chan(p) = 1 /\ Mode(p) = "r" /\ ~Holds(1, 1, "w") => Waits(p, 1, "r")'
         /\ Chan(p) = 2 /\ Mode(p) = "w" /\ ~Holds(r, 2, "r") => Waits(p, 2, "w")'
         /\ Chan(p) = 2 /\ Mode(p) = "r" /\ ~Holds(2, 2, "w") => Waits(p, 2, "r")'
<1>. DEFINE Meets(e) == e[2] = Chan(p) /\ e[3] # Mode(p)
<1>1. /\ ends' = ends \cup {<<p, Chan(p), Mode(p)>>}
      /\ opening' = {e \in opening : ~Meets(e)} \cup
                      IF \E e \in ends : Meets(e) THEN {} ELSE {<<p, Chan(p), Mode(p)>>}
      /\ pc' = [pc EXCEPT ![p] = @ + 1]
      /\ UNCHANGED <<inputs, ended, buf, message, bytes, names, output>>
  BY DEF Open, Advance
<1>2. ASSUME NEW q, NEW c, NEW m, c # Chan(p), Waits(q, c, m) PROVE Waits(q, c, m)'
  BY <1>1, <1>2 DEF Waits
<1>3. ASSUME NEW c, NEW m, Chan(p) = c, Mode(p) = m, \A e \in ends : e[2] # c \/ e[3] = m
      PROVE  Waits(p, c, m)'
  <2>1. ~\E e \in ends : Meets(e)
    BY <1>3
  <2>2. <<p, c, m>> \in opening'
    BY <1>1, <1>3, <2>1
  <2>. QED
    BY <2>2 DEF Waits
<1>4. ~Holds(2, 1, "r") => \A e \in ends : e[2] # 1 \/ e[3] = "w"
  BY DEF Holds, FifoEnds
<1>5. ~Holds(1, 1, "w") => \A e \in ends : e[2] # 1 \/ e[3] = "r"
  BY DEF Holds, FifoEnds
<1>6. ~Holds(r, 2, "r") => \A e \in ends : e[2] # 2 \/ e[3] = "w"
  BY DEF Holds, FifoEnds
<1>7. ~Holds(2, 2, "w") => \A e \in ends : e[2] # 2 \/ e[3] = "r"
  BY DEF Holds, FifoEnds
<1>. QED
  BY <1>1, <1>2, <1>3, <1>4, <1>5, <1>6, <1>7

(* The first n cells of a sequence, or all of them.                             *)
LEMMA FirstIs ==
  ASSUME NEW cells \in Seq(Cells), NEW n \in Nat \ {0}
  PROVE  /\ First(n, cells) \in Seq(Cells)
         /\ First(n, cells) = <<>> <=> cells = <<>>
         /\ n <= Len(cells) => Len(First(n, cells)) = n
         /\ n > Len(cells) => First(n, cells) = cells
<1>. DEFINE k == Min({n, Len(cells)})
<1>1. k = IF n <= Len(cells) THEN n ELSE Len(cells)
  <2>1. Len(cells) \in Nat
    OBVIOUS
  <2>2. \E x \in {n, Len(cells)} : \A y \in {n, Len(cells)} : x <= y
    BY <2>1
  <2>. QED
    BY <2>1, <2>2 DEF Min
<1>. HIDE DEF k
<1>2. First(n, cells) = SubSeq(cells, 1, k)
  BY DEF First, k
<1>3. CASE n <= Len(cells)
  <2>1. First(n, cells) \in Seq(Cells) /\ Len(First(n, cells)) = n
    BY <1>1, <1>2, <1>3
  <2>2. First(n, cells) # <<>> /\ cells # <<>>
    BY <1>3, <2>1
  <2>. QED
    BY <1>3, <2>1, <2>2
<1>4. CASE n > Len(cells)
  <2>1. First(n, cells) = cells
    BY <1>1, <1>2, <1>4
  <2>. QED
    BY <1>4, <2>1
<1>. QED
  BY <1>3, <1>4

(* What is left of a sequence without its first n cells.                        *)
LEMMA RestIs ==
  ASSUME NEW cells \in Seq(Cells), NEW n \in Nat \ {0}
  PROVE  /\ Rest(n, cells) \in Seq(Cells)
         /\ n <= Len(cells) => Len(Rest(n, cells)) = Len(cells) - n
         /\ n >= Len(cells) => Rest(n, cells) = <<>>
BY DEF Rest

(* The numbers of cells that whole chunks have.                                 *)
LEMMA MultiplesAre ==
  /\ 0 \in Multiples
  /\ \A m \in Nat : m \in Multiples => m + CHUNK \in Multiples
  /\ \A m \in Nat : m \in Multiples /\ m # 0 => m >= CHUNK /\ m - CHUNK \in Multiples
<1>1. CHUNK \in Nat /\ CHUNK > 0
  BY PipelineAssumption
<1>2. 0 \in Multiples
  BY <1>1 DEF Multiples
<1>3. ASSUME NEW n \in Nat PROVE CHUNK * n + CHUNK \in Multiples
  <2>1. CHUNK * n + CHUNK = CHUNK * (n + 1)
    BY <1>1
  <2>. QED
    BY <2>1 DEF Multiples
<1>4. ASSUME NEW n \in Nat, CHUNK * n # 0
      PROVE  CHUNK * n >= CHUNK /\ CHUNK * n - CHUNK \in Multiples
  <2>1. n >= 1
    BY <1>1, <1>4
  <2>2. CHUNK * n - CHUNK = CHUNK * (n - 1) /\ n - 1 \in Nat
    BY <1>1, <2>1
  <2>3. CHUNK * (n - 1) >= 0
    BY <1>1, <2>1
  <2>. QED
    BY <1>1, <2>1, <2>2, <2>3 DEF Multiples
<1>. QED
  BY <1>2, <1>3, <1>4 DEF Multiples

(* The cells malloc's memory is filled with.                                    *)
LEMMA ZerosAre ==
  ASSUME NEW n \in Nat
  PROVE  Zeros(n) \in Seq({NUL}) /\ Len(Zeros(n)) = n /\ \A i \in 1..n : Zeros(n)[i] = NUL
BY DEF Zeros

(* A whole chunk is appended as it is and no NUL is found behind it; behind a chunk *)
(* that is not whole, its zeros are found, and the second program stops reading.    *)
LEMMA GrownIs ==
  ASSUME NEW data \in Seq(Cells), NEW chunk \in Seq(Cells), Len(chunk) \in 1..CHUNK
  PROVE  /\ Len(chunk) < CHUNK => Nuls(Grown(data, chunk), Len(chunk)) # {}
         /\ Len(chunk) = CHUNK => /\ Nuls(Grown(data, chunk), Len(chunk)) = {}
                                  /\ Cut(Grown(data, chunk), Len(chunk)) = data \o chunk
<1>. DEFINE zeros == Zeros(CHUNK - Len(chunk))
            grown == Grown(data, chunk)
<1>1. CHUNK \in Nat /\ CHUNK - Len(chunk) \in Nat
  BY PipelineAssumption
<1>2. /\ zeros \in Seq({NUL}) /\ Len(zeros) = CHUNK - Len(chunk)
      /\ \A i \in 1..Len(zeros) : zeros[i] = NUL
  BY <1>1, ZerosAre
<1>3. grown = data \o chunk \o zeros
  BY DEF Grown
<1>4. data \in Seq(Cells \cup {NUL}) /\ chunk \in Seq(Cells \cup {NUL}) /\ zeros \in Seq(Cells \cup {NUL})
  BY <1>2, SeqMonotonic, Cells \subseteq Cells \cup {NUL}, {NUL} \subseteq Cells \cup {NUL}
<1>. HIDE DEF zeros, grown
<1>5. ASSUME Len(chunk) < CHUNK PROVE Len(grown) \in Nuls(grown, Len(chunk))
  BY <1>1, <1>2, <1>3, <1>4, <1>5 DEF Nuls
<1>6. ASSUME Len(chunk) = CHUNK PROVE grown = data \o chunk /\ Nuls(grown, Len(chunk)) = {}
  <2>1. zeros = <<>>
    BY <1>1, <1>2, <1>6
  <2>2. grown = data \o chunk
    BY <1>3, <1>4, <2>1
  <2>3. ASSUME NEW i \in Nuls(grown, Len(chunk)) PROVE FALSE
    <3>1. grown[i] = NUL /\ i \in Len(grown) - Len(chunk) + 1 .. Len(grown)
      BY <2>3 DEF Nuls
    <3>2. Len(grown) = Len(data) + Len(chunk) /\ Len(data) \in Nat /\ Len(chunk) \in Nat
      BY <1>4, <2>2
    <3>3. i \in Int /\ i - Len(data) \in 1..Len(chunk)
      BY <3>1, <3>2
    <3>4. grown[i] = chunk[i - Len(data)]
      <4>1. i \in 1..Len(data) + Len(chunk) /\ i > Len(data)
        BY <3>2, <3>3
      <4>. QED
        BY <2>2, <3>2, <4>1, ConcatProperties
    <3>5. chunk[i - Len(data)] \in Cells
      BY <3>3
    <3>6. NUL \notin Cells
      BY DEF Cells, Digits, SEP, NUL
    <3>. QED
      BY <3>1, <3>4, <3>5, <3>6
  <2>. QED
    BY <2>2, <2>3
<1>. QED
  BY <1>5, <1>6 DEF Cut, grown

(* What a step may do to pc, ended, buf and bytes.                               *)
Moves(p) ==
  \/ pc' = pc
  \/ pc' = [pc EXCEPT ![p] = @ + 1]
  \/ \E child : pc' = [pc EXCEPT ![p] = @ + 1, ![child] = 1]
Ends(p) ==
  \/ ended' = ended
  \/ \E how \in {"ok", "failed", "killed"} : ended' = [ended EXCEPT ![p] = how]
Buffers(p) == buf' = buf \/ \E cells : buf' = [buf EXCEPT ![p] = cells]
Transfers == bytes' = bytes \/ \E c, cells : bytes' = [bytes EXCEPT ![c] = cells]

(* A step moves its process, ends it or starts a child, and fills its own buffer or *)
(* one channel.                                                                     *)
LEMMA StepEffects ==
  ASSUME NEW p \in Procs, Step(p)
  PROVE  UNCHANGED inputs /\ Moves(p) /\ Ends(p) /\ Buffers(p) /\ Transfers
<1>1. CASE Pipe(p)
  BY <1>1 DEF Moves, Ends, Buffers, Transfers, Pipe, Advance, chans
<1>2. CASE Mkfifo(p)
  BY <1>2 DEF Moves, Ends, Buffers, Transfers, Mkfifo, Advance, Quit, chans
<1>3. CASE Fork(p)
  BY <1>3 DEF Moves, Ends, Buffers, Transfers, Fork, chans
<1>4. CASE Wait(p)
  BY <1>4 DEF Moves, Ends, Buffers, Transfers, Wait, Advance, chans
<1>5. CASE Open(p)
  BY <1>5 DEF Moves, Ends, Buffers, Transfers, Open, Advance, Quit, chans
<1>6. CASE Close(p)
  BY <1>6 DEF Moves, Ends, Buffers, Transfers, Close, Advance, chans
<1>7. CASE Unlink(p)
  BY <1>7 DEF Moves, Ends, Buffers, Transfers, Unlink, Advance, chans
<1>8. CASE Exit(p)
  BY <1>8 DEF Moves, Ends, Buffers, Transfers, Exit, Quit, chans
<1>9. CASE Read(p)
  BY <1>9 DEF Moves, Ends, Buffers, Transfers, Read, Advance, Quit, chans
<1>10. CASE Put(p)
  BY <1>10 DEF Moves, Ends, Buffers, Transfers, Put, Advance, Quit, chans
<1>11. CASE Get(p)
  BY <1>11 DEF Moves, Ends, Buffers, Transfers, Get, Advance, chans
<1>12. CASE Count(p)
  BY <1>12 DEF Moves, Ends, Buffers, Transfers, Count, Advance, chans
<1>13. CASE Store(p)
  BY <1>13 DEF Moves, Ends, Buffers, Transfers, Store, Advance, chans
<1>14. CASE Creat(p)
  BY <1>14 DEF Moves, Ends, Buffers, Transfers, Creat, Advance, chans
<1>15. CASE Feed(p)
  BY <1>15 DEF Moves, Ends, Buffers, Transfers, Feed, Advance, Quit, chans
<1>16. CASE Gather(p)
  BY <1>16 DEF Moves, Ends, Buffers, Transfers, Gather, Advance, Quit, chans
<1>17. CASE AnswerOfLength(p)
  BY <1>17 DEF Moves, Ends, Buffers, Transfers, AnswerOfLength, Advance, chans
<1>18. CASE Drain(p)
  BY <1>18 DEF Moves, Ends, Buffers, Transfers, Drain, Advance, chans
<1>19. CASE Msgget(p)
  BY <1>19 DEF Moves, Ends, Buffers, Transfers, Msgget, Advance, chans
<1>20. CASE Send(p)
  BY <1>20 DEF Moves, Ends, Buffers, Transfers, Send, Advance, chans
<1>21. CASE Collect(p)
  BY <1>21 DEF Moves, Ends, Buffers, Transfers, Collect, Advance, chans
<1>22. CASE Reply(p)
  BY <1>22 DEF Moves, Ends, Buffers, Transfers, Reply, Quit, chans
<1>23. CASE Receive(p)
  BY <1>23 DEF Moves, Ends, Buffers, Transfers, Receive, Advance, chans
<1>24. CASE Rmid(p)
  BY <1>24 DEF Moves, Ends, Buffers, Transfers, Rmid, Advance, chans
<1>. QED
  BY <1>1, <1>2, <1>3, <1>4, <1>5, <1>6, <1>7, <1>8, <1>9, <1>10, <1>11, <1>12, <1>13,
     <1>14, <1>15, <1>16, <1>17, <1>18, <1>19, <1>20, <1>21, <1>22, <1>23, <1>24 DEF Step

(* A step leaves the other processes alone, but may start one.                  *)
LEMMA StepFrame ==
  ASSUME Types, NEW p \in Procs, Step(p)
  PROVE  /\ Types' /\ UNCHANGED inputs
         /\ \A q \in Procs : q # p => ended[q]' = ended[q] /\ pc[q]' \in {pc[q], 1}
         /\ \A q \in Procs : q # p => buf[q]' = buf[q]
<1>1. UNCHANGED <<part, text>>
  BY StepEffects DEF inputs
<1>2. /\ pc' \in [Procs -> Nat]
      /\ \A q \in Procs : q # p => pc[q]' \in {pc[q], 1}
  BY StepEffects DEF Moves, Types
<1>3. /\ ended' \in [Procs -> {"no", "ok", "failed", "killed"}]
      /\ \A q \in Procs : q # p => ended[q]' = ended[q]
  BY StepEffects DEF Ends, Types
<1>4. /\ buf' = [q \in Procs |-> buf'[q]]
      /\ \A q \in Procs : q # p => buf[q]' = buf[q]
  BY StepEffects DEF Buffers, Types
<1>5. bytes' = [c \in Chans |-> bytes'[c]]
  BY StepEffects DEF Transfers, Types
<1>. QED
  BY <1>1, <1>2, <1>3, <1>4, <1>5, StepEffects DEF Types

(* A process without a file fails at its reading call and comes no further.     *)
LEMMA ReadsFirstKept ==
  ASSUME Types, ReadsFirst, NEW p \in Procs, Step(p)
  PROVE  ReadsFirst'
<1>1. UNCHANGED <<part, text>>
  BY StepFrame DEF inputs
<1>2. CASE text # NoFile
  BY <1>1, <1>2 DEF ReadsFirst
<1>3. CASE text = NoFile /\ p # 1
  <2>1. 1 \in Procs /\ ended[1]' = ended[1] /\ pc[1]' \in {pc[1], 1}
    BY <1>3, StepFrame DEF Procs
  <2>. QED
    BY <1>1, <1>3, <2>1 DEF ReadsFirst
<1>4. CASE text = NoFile /\ p = 1 /\ part = 4
  BY <1>1, <1>4, Reader4Steps DEF ReadsFirst, Types, TwoPrograms, Procs, Pipe, Mkfifo,
     Msgget, Fork, Read, Advance, Quit
<1>5. CASE text = NoFile /\ p = 1 /\ part = 5
  BY <1>1, <1>5, Reader5Steps DEF ReadsFirst, Types, TwoPrograms, Procs, Pipe, Mkfifo,
     Msgget, Fork, Read, Advance, Quit
<1>6. CASE text = NoFile /\ p = 1 /\ part = 6
  BY <1>1, <1>6, Reader6Steps DEF ReadsFirst, Types, TwoPrograms, Procs, Pipe, Mkfifo,
     Msgget, Fork, Read, Advance, Quit
<1>7. CASE text = NoFile /\ p = 1 /\ part = 7
  BY <1>1, <1>7, Reader7Steps DEF ReadsFirst, Types, TwoPrograms, Procs, Pipe, Mkfifo,
     Msgget, Fork, Read, Advance, Quit
<1>8. CASE text = NoFile /\ p = 1 /\ part = 8
  BY <1>1, <1>8, Reader8Steps DEF ReadsFirst, Types, TwoPrograms, Procs, Pipe, Mkfifo,
     Msgget, Fork, Read, Advance, Quit
<1>9. CASE text = NoFile /\ p = 1 /\ part = 9
  BY <1>1, <1>9, Reader9Steps DEF ReadsFirst, Types, TwoPrograms, Procs, Pipe, Mkfifo,
     Msgget, Fork, Read, Advance, Quit
<1>10. CASE text = NoFile /\ p = 1 /\ part = 10
  BY <1>1, <1>10, Reader10Steps DEF ReadsFirst, Types, TwoPrograms, Procs, Pipe, Mkfifo,
     Msgget, Fork, Read, Advance, Quit
<1>. QED
  BY <1>2, <1>3, <1>4, <1>5, <1>6, <1>7, <1>8, <1>9, <1>10 DEF Types, Parts

(* Part 4, the process that reads the file, keeps the part's invariant.         *)
LEMMA Reader4Keeps ==
  ASSUME Types, Inv4, part = 4, text # NoFile, Step(1)
  PROVE  Inv4'
<1>1. CASE Ready(1) /\ pc[1] = 1 /\ Chan(1) = 1 /\ Pipe(1)
  BY <1>1 DEF Types, Inv4, Holds, Ready, Procs, Chans, chans, Pipe, Advance
<1>2. CASE Ready(1) /\ pc[1] = 2 /\ Chan(1) = 2 /\ Pipe(1)
  BY <1>2 DEF Types, Inv4, Holds, Ready, Procs, Chans, chans, Pipe, Advance
<1>3. CASE Ready(1) /\ pc[1] = 3 /\ Chan(1) = 2 /\ Fork(1)
  BY <1>3 DEF Types, Inv4, Holds, Ready, Procs, Chans, chans, Fork
<1>4. CASE Ready(1) /\ pc[1] = 4 /\ Read(1)
  BY <1>4 DEF Types, Inv4, Holds, Ready, Procs, Chans, chans, Read, Advance
<1>5. CASE Ready(1) /\ pc[1] = 5 /\ Chan(1) = 1 /\ Mode(1) = "r" /\ Close(1)
  BY <1>5 DEF Types, Inv4, Holds, Ready, Procs, Chans, chans, Close, Advance
<1>6. CASE Ready(1) /\ pc[1] = 6 /\ Chan(1) = 1 /\ Put(1)
  <2>1. HasReader(1)
    BY <1>6 DEF Inv4, HasReader, Holds, Ready, Types, Procs
  <2>2. /\ pc' = [pc EXCEPT ![1] = @ + 1]
        /\ bytes' = [bytes EXCEPT ![1] = @ \o buf[1]]
        /\ UNCHANGED <<ended, ends, opening, names, output>>
    BY <1>6, <2>1 DEF Put, Advance
  <2>. QED
    BY <1>6, <2>1, <2>2 DEF Types, Inv4, Holds, Ready, Procs, Chans
<1>7. CASE Ready(1) /\ pc[1] = 7 /\ Chan(1) = 1 /\ Mode(1) = "w" /\ Close(1)
  BY <1>7 DEF Types, Inv4, Holds, Ready, Procs, Chans, chans, Close, Advance
<1>8. CASE pc[1] = 8 /\ Exit(1)
  BY <1>8 DEF Types, Inv4, Holds, Procs, Exit, Quit
<1>. QED
  BY Reader4Steps, <1>1, <1>2, <1>3, <1>4, <1>5, <1>6, <1>7, <1>8 DEF Types

(* Part 4, the process that counts, keeps the part's invariant.                 *)
LEMMA Counter4Keeps ==
  ASSUME Types, Inv4, part = 4, text # NoFile, Step(2)
  PROVE  Inv4'
<1>1. CASE Ready(2) /\ pc[2] = 1 /\ Chan(2) = 3 /\ Fork(2)
  BY <1>1 DEF Types, Inv4, Holds, Ready, Procs, Chans, chans, Fork
<1>2. CASE Ready(2) /\ pc[2] = 2 /\ Chan(2) = 1 /\ Mode(2) = "w" /\ Close(2)
  BY <1>2 DEF Types, Inv4, Holds, Ready, Procs, Chans, chans, Close, Advance
<1>3. CASE Ready(2) /\ pc[2] = 3 /\ Chan(2) = 1 /\ Get(2)
  BY <1>3 DEF Types, Inv4, Holds, Ready, Procs, Chans, chans, Get, Advance, HasWriter
<1>4. CASE Ready(2) /\ pc[2] = 4 /\ Chan(2) = 1 /\ Mode(2) = "r" /\ Close(2)
  BY <1>4 DEF Types, Inv4, Holds, Ready, Procs, Chans, chans, Close, Advance
<1>5. CASE Ready(2) /\ pc[2] = 5 /\ Count(2)
  BY <1>5 DEF Types, Inv4, Holds, Ready, Procs, Chans, chans, Count, Advance
<1>6. CASE Ready(2) /\ pc[2] = 6 /\ Chan(2) = 2 /\ Mode(2) = "r" /\ Close(2)
  BY <1>6 DEF Types, Inv4, Holds, Ready, Procs, Chans, chans, Close, Advance
<1>7. CASE Ready(2) /\ pc[2] = 7 /\ Chan(2) = 2 /\ Put(2)
  <2>1. HasReader(2)
    BY <1>7 DEF Inv4, HasReader, Holds, Ready, Types, Procs
  <2>2. /\ pc' = [pc EXCEPT ![2] = @ + 1]
        /\ bytes' = [bytes EXCEPT ![2] = @ \o buf[2]]
        /\ UNCHANGED <<ended, ends, opening, names, output>>
    BY <1>7, <2>1 DEF Put, Advance
  <2>. QED
    BY <1>7, <2>1, <2>2 DEF Types, Inv4, Holds, Ready, Procs, Chans
<1>8. CASE Ready(2) /\ pc[2] = 8 /\ Chan(2) = 2 /\ Mode(2) = "w" /\ Close(2)
  BY <1>8 DEF Types, Inv4, Holds, Ready, Procs, Chans, chans, Close, Advance
<1>9. CASE pc[2] = 9 /\ Exit(2)
  BY <1>9 DEF Types, Inv4, Holds, Procs, Exit, Quit
<1>. QED
  BY Counter4Steps, <1>1, <1>2, <1>3, <1>4, <1>5, <1>6, <1>7, <1>8, <1>9 DEF Types

(* Part 4, the process that stores, keeps the part's invariant.                 *)
LEMMA Writer4Keeps ==
  ASSUME Types, Inv4, part = 4, text # NoFile, Step(3)
  PROVE  Inv4'
<1>1. CASE Ready(3) /\ pc[3] = 1 /\ Chan(3) = 2 /\ Mode(3) = "w" /\ Close(3)
  BY <1>1 DEF Types, Inv4, Holds, Ready, Procs, Chans, chans, Close, Advance
<1>2. CASE Ready(3) /\ pc[3] = 2 /\ Chan(3) = 2 /\ Get(3)
  BY <1>2 DEF Types, Inv4, Holds, Ready, Procs, Chans, chans, Get, Advance, HasWriter
<1>3. CASE Ready(3) /\ pc[3] = 3 /\ Chan(3) = 2 /\ Mode(3) = "r" /\ Close(3)
  BY <1>3 DEF Types, Inv4, Holds, Ready, Procs, Chans, chans, Close, Advance
<1>4. CASE Ready(3) /\ pc[3] = 4 /\ Store(3)
  BY <1>4 DEF Types, Inv4, Holds, Ready, Procs, Chans, chans, Store, Advance
<1>5. CASE pc[3] = 5 /\ Exit(3)
  BY <1>5 DEF Types, Inv4, Holds, Procs, Exit, Quit
<1>. QED
  BY Writer4Steps, <1>1, <1>2, <1>3, <1>4, <1>5 DEF Types

(* Part 5, the process that reads the file, keeps the part's invariant.         *)
LEMMA Reader5Keeps ==
  ASSUME Types, Inv5, part = 5, text # NoFile, Step(1)
  PROVE  Inv5'
<1>1. CASE Ready(1) /\ pc[1] = 1 /\ Chan(1) = 1 /\ Mkfifo(1)
  BY <1>1 DEF Types, Inv5, Holds, Waits, Ready, Procs, Chans, chans, Mkfifo, Advance, Quit
<1>2. CASE Ready(1) /\ pc[1] = 2 /\ Chan(1) = 2 /\ Mkfifo(1)
  BY <1>2 DEF Types, Inv5, Holds, Waits, Ready, Procs, Chans, chans, Mkfifo, Advance, Quit
<1>3. CASE Ready(1) /\ pc[1] = 3 /\ Chan(1) = 2 /\ Fork(1)
  <2>1. ends' = ends
    <3>1. ASSUME NEW e \in ends PROVE e[1] # 1
      BY <1>3 DEF Inv5, FifoEnds, Holds
    <3>. QED
      BY <1>3, <3>1 DEF Fork
  <2>2. pc' = [pc EXCEPT ![1] = @ + 1, ![2] = 1] /\ UNCHANGED <<ended, bytes, opening, names, output>>
    BY <1>3 DEF Fork
  <2>3. pc[1]' = 4 /\ pc[2]' = 1 /\ pc[3]' = 0
    <3>1. pc[2] = 0 /\ pc[3] = 0
      BY <1>3 DEF Inv5
    <3>. QED
      BY <1>3, <2>2, <3>1 DEF Types, Procs
  <2>. QED
    BY <1>3, <2>1, <2>2, <2>3 DEF Types, Inv5, Holds, Waits, Procs
<1>4. CASE Ready(1) /\ pc[1] = 4 /\ Read(1)
  BY <1>4 DEF Types, Inv5, Holds, Waits, Ready, Procs, Chans, chans, Read, Advance
<1>5. CASE Ready(1) /\ pc[1] = 5 /\ Chan(1) = 1 /\ Mode(1) = "w" /\ Open(1)
  <2>1. 1 \in Procs /\ Chan(1) \in names /\ ended[1] = "no" /\ ends \subseteq FifoEnds(3)
    BY <1>5 DEF Inv5, Procs, Ready
  <2>2. ends' \subseteq FifoEnds(3)
    BY <1>5, <2>1, OpenWaits DEF FifoEnds
  <2>. QED
    BY <1>5, <2>1, <2>2, OpenWaits DEF Types, Inv5, Holds, Procs
<1>6. CASE Ready(1) /\ pc[1] = 6 /\ Chan(1) = 1 /\ Put(1)
  <2>1. HasReader(1)
    BY <1>6 DEF Inv5, HasReader, Holds, Waits, Ready, Types, Procs
  <2>2. /\ pc' = [pc EXCEPT ![1] = @ + 1]
        /\ bytes' = [bytes EXCEPT ![1] = @ \o buf[1]]
        /\ UNCHANGED <<ended, ends, opening, names, output>>
    BY <1>6, <2>1 DEF Put, Advance
  <2>. QED
    BY <1>6, <2>1, <2>2 DEF Types, Inv5, Holds, Waits, Ready, Procs, Chans
<1>7. CASE Ready(1) /\ pc[1] = 7 /\ Chan(1) = 1 /\ Mode(1) = "w" /\ Close(1)
  BY <1>7 DEF Types, Inv5, Holds, Waits, Ready, Procs, Chans, chans, Close, Advance
<1>8. CASE Ready(1) /\ pc[1] = 8 /\ Chan(1) = 2 /\ Wait(1)
  BY <1>8 DEF Types, Inv5, Holds, Waits, Ready, Procs, Chans, chans, Wait, Advance
<1>9. CASE Ready(1) /\ pc[1] = 9 /\ Chan(1) = 1 /\ Unlink(1)
  BY <1>9 DEF Types, Inv5, Holds, Waits, Ready, Procs, Chans, chans, Unlink, Advance
<1>10. CASE Ready(1) /\ pc[1] = 10 /\ Chan(1) = 2 /\ Unlink(1)
  BY <1>10 DEF Types, Inv5, Holds, Waits, Ready, Procs, Chans, chans, Unlink, Advance
<1>11. CASE pc[1] = 11 /\ Exit(1)
  BY <1>11 DEF Types, Inv5, Holds, Waits, Procs, Exit, Quit
<1>. QED
  BY Reader5Steps, <1>1, <1>2, <1>3, <1>4, <1>5, <1>6, <1>7, <1>8, <1>9, <1>10, <1>11
     DEF Types

(* Part 5, the process that counts, keeps the part's invariant.                 *)
LEMMA Counter5Keeps ==
  ASSUME Types, Inv5, part = 5, text # NoFile, Step(2)
  PROVE  Inv5'
<1>1. CASE Ready(2) /\ pc[2] = 1 /\ Chan(2) = 3 /\ Fork(2)
  <2>1. ends' = ends
    <3>1. ASSUME NEW e \in ends PROVE e[1] # 2
      BY <1>1 DEF Inv5, FifoEnds, Holds
    <3>. QED
      BY <1>1, <3>1 DEF Fork
  <2>2. pc' = [pc EXCEPT ![2] = @ + 1, ![3] = 1] /\ UNCHANGED <<ended, bytes, opening, names, output>>
    BY <1>1 DEF Fork
  <2>3. pc[1]' = pc[1] /\ pc[2]' = 2 /\ pc[3]' = 1
    <3>1. pc[3] = 0
      BY <1>1 DEF Inv5
    <3>. QED
      BY <1>1, <2>2, <3>1 DEF Types, Procs
  <2>. QED
    BY <1>1, <2>1, <2>2, <2>3 DEF Types, Inv5, Holds, Waits, Procs
<1>2. CASE Ready(2) /\ pc[2] = 2 /\ Chan(2) = 1 /\ Mode(2) = "r" /\ Open(2)
  <2>1. 2 \in Procs /\ Chan(2) \in names /\ ended[2] = "no" /\ ends \subseteq FifoEnds(3)
    BY <1>2 DEF Inv5, Procs, Ready
  <2>2. ends' \subseteq FifoEnds(3)
    BY <1>2, <2>1, OpenWaits DEF FifoEnds
  <2>. QED
    BY <1>2, <2>1, <2>2, OpenWaits DEF Types, Inv5, Holds, Procs
<1>3. CASE Ready(2) /\ pc[2] = 3 /\ Chan(2) = 1 /\ Get(2)
  BY <1>3 DEF Types, Inv5, Holds, Waits, Ready, Procs, Chans, chans, Get, Advance, HasWriter
<1>4. CASE Ready(2) /\ pc[2] = 4 /\ Chan(2) = 1 /\ Mode(2) = "r" /\ Close(2)
  BY <1>4 DEF Types, Inv5, Holds, Waits, Ready, Procs, Chans, chans, Close, Advance
<1>5. CASE Ready(2) /\ pc[2] = 5 /\ Count(2)
  BY <1>5 DEF Types, Inv5, Holds, Waits, Ready, Procs, Chans, chans, Count, Advance
<1>6. CASE Ready(2) /\ pc[2] = 6 /\ Chan(2) = 2 /\ Mode(2) = "w" /\ Open(2)
  <2>1. 2 \in Procs /\ Chan(2) \in names /\ ended[2] = "no" /\ ends \subseteq FifoEnds(3)
    BY <1>6 DEF Inv5, Procs, Ready
  <2>2. ends' \subseteq FifoEnds(3)
    BY <1>6, <2>1, OpenWaits DEF FifoEnds
  <2>. QED
    BY <1>6, <2>1, <2>2, OpenWaits DEF Types, Inv5, Holds, Procs
<1>7. CASE Ready(2) /\ pc[2] = 7 /\ Chan(2) = 2 /\ Put(2)
  <2>1. HasReader(2)
    BY <1>7 DEF Inv5, HasReader, Holds, Waits, Ready, Types, Procs
  <2>2. /\ pc' = [pc EXCEPT ![2] = @ + 1]
        /\ bytes' = [bytes EXCEPT ![2] = @ \o buf[2]]
        /\ UNCHANGED <<ended, ends, opening, names, output>>
    BY <1>7, <2>1 DEF Put, Advance
  <2>. QED
    BY <1>7, <2>1, <2>2 DEF Types, Inv5, Holds, Waits, Ready, Procs, Chans
<1>8. CASE Ready(2) /\ pc[2] = 8 /\ Chan(2) = 2 /\ Mode(2) = "w" /\ Close(2)
  BY <1>8 DEF Types, Inv5, Holds, Waits, Ready, Procs, Chans, chans, Close, Advance
<1>9. CASE Ready(2) /\ pc[2] = 9 /\ Chan(2) = 3 /\ Wait(2)
  BY <1>9 DEF Types, Inv5, Holds, Waits, Ready, Procs, Chans, chans, Wait, Advance
<1>10. CASE pc[2] = 10 /\ Exit(2)
  BY <1>10 DEF Types, Inv5, Holds, Waits, Procs, Exit, Quit
<1>. QED
  BY Counter5Steps, <1>1, <1>2, <1>3, <1>4, <1>5, <1>6, <1>7, <1>8, <1>9, <1>10 DEF Types

(* Part 5, the process that stores, keeps the part's invariant.                 *)
LEMMA Writer5Keeps ==
  ASSUME Types, Inv5, part = 5, text # NoFile, Step(3)
  PROVE  Inv5'
<1>1. CASE Ready(3) /\ pc[3] = 1 /\ Chan(3) = 2 /\ Mode(3) = "r" /\ Open(3)
  <2>1. 3 \in Procs /\ Chan(3) \in names /\ ended[3] = "no" /\ ends \subseteq FifoEnds(3)
    BY <1>1 DEF Inv5, Procs, Ready
  <2>2. ends' \subseteq FifoEnds(3)
    BY <1>1, <2>1, OpenWaits DEF FifoEnds
  <2>3. ends' = ends \cup {<<3, 2, "r">>}
    BY <1>1, <2>1, OpenWaits
  <2>4. /\ (Holds(1, 1, "w")' <=> Holds(1, 1, "w")) /\ (Holds(2, 1, "r")' <=> Holds(2, 1, "r"))
        /\ (Holds(2, 2, "w")' <=> Holds(2, 2, "w")) /\ Holds(3, 2, "r")'
    BY <2>3 DEF Holds
  <2>5. /\ pc[1]' = pc[1] /\ pc[2]' = pc[2] /\ pc[3]' = 2
        /\ UNCHANGED <<ended, bytes, names, output>>
    BY <1>1, <2>1, OpenWaits DEF Types, Procs
  <2>6. pc[2] <= 6 => Waits(3, 2, "r")'
    <3>1. pc[2] <= 6 => ~Holds(2, 2, "w")
      BY DEF Inv5
    <3>. QED
      BY <1>1, <2>1, <3>1, OpenWaits
  <2>7. /\ Waits(1, 1, "w") => Waits(1, 1, "w")'
        /\ Waits(2, 1, "r") => Waits(2, 1, "r")'
    <3>1. \A q, c, m : c # 2 /\ Waits(q, c, m) => Waits(q, c, m)'
      BY <1>1, <2>1, OpenWaits
    <3>. QED
      BY <3>1
  <2>. QED
    BY <1>1, <2>1, <2>2, <2>4, <2>5, <2>6, <2>7 DEF Inv5
<1>2. CASE Ready(3) /\ pc[3] = 2 /\ Chan(3) = 2 /\ Get(3)
  BY <1>2 DEF Types, Inv5, Holds, Waits, Ready, Procs, Chans, chans, Get, Advance, HasWriter
<1>3. CASE Ready(3) /\ pc[3] = 3 /\ Chan(3) = 2 /\ Mode(3) = "r" /\ Close(3)
  BY <1>3 DEF Types, Inv5, Holds, Waits, Ready, Procs, Chans, chans, Close, Advance
<1>4. CASE Ready(3) /\ pc[3] = 4 /\ Store(3)
  BY <1>4 DEF Types, Inv5, Holds, Waits, Ready, Procs, Chans, chans, Store, Advance
<1>5. CASE pc[3] = 5 /\ Exit(3)
  BY <1>5 DEF Types, Inv5, Holds, Waits, Procs, Exit, Quit
<1>. QED
  BY Writer5Steps, <1>1, <1>2, <1>3, <1>4, <1>5 DEF Types

(* Part 6, the process that reads the file, keeps the part's invariant.         *)
LEMMA Reader6Keeps ==
  ASSUME Types, Inv6, part = 6, text # NoFile, Step(1)
  PROVE  Inv6'
<1>1. CASE Ready(1) /\ pc[1] = 1 /\ Chan(1) = 1 /\ Pipe(1)
  BY <1>1 DEF Types, Inv6, Holds, Ready, Procs, Chans, chans, Pipe, Advance
<1>2. CASE Ready(1) /\ pc[1] = 2 /\ Chan(1) = 2 /\ Pipe(1)
  BY <1>2 DEF Types, Inv6, Holds, Ready, Procs, Chans, chans, Pipe, Advance
<1>3. CASE Ready(1) /\ pc[1] = 3 /\ Chan(1) = 2 /\ Fork(1)
  BY <1>3 DEF Types, Inv6, Holds, Ready, Procs, Chans, chans, Fork
<1>4. CASE Ready(1) /\ pc[1] = 4 /\ Read(1)
  BY <1>4 DEF Types, Inv6, Holds, Ready, Procs, Chans, chans, Read, Advance
<1>5. CASE Ready(1) /\ pc[1] = 5 /\ Chan(1) = 1 /\ Mode(1) = "r" /\ Close(1)
  BY <1>5 DEF Types, Inv6, Holds, Ready, Procs, Chans, chans, Close, Advance
<1>6. CASE Ready(1) /\ pc[1] = 6 /\ Chan(1) = 1 /\ Put(1)
  <2>1. HasReader(1)
    BY <1>6 DEF Inv6, HasReader, Holds, Ready, Types, Procs
  <2>2. /\ pc' = [pc EXCEPT ![1] = @ + 1]
        /\ bytes' = [bytes EXCEPT ![1] = @ \o buf[1]]
        /\ UNCHANGED <<ended, ends, opening, names, output>>
    BY <1>6, <2>1 DEF Put, Advance
  <2>. QED
    BY <1>6, <2>1, <2>2 DEF Types, Inv6, Holds, Ready, Procs, Chans
<1>7. CASE Ready(1) /\ pc[1] = 7 /\ Chan(1) = 1 /\ Mode(1) = "w" /\ Close(1)
  BY <1>7 DEF Types, Inv6, Holds, Ready, Procs, Chans, chans, Close, Advance
<1>8. CASE Ready(1) /\ pc[1] = 8 /\ Chan(1) = 2 /\ Wait(1)
  BY <1>8 DEF Types, Inv6, Holds, Ready, Procs, Chans, chans, Wait, Advance
<1>9. CASE Ready(1) /\ pc[1] = 9 /\ Chan(1) = 2 /\ Mode(1) = "w" /\ Close(1)
  BY <1>9 DEF Types, Inv6, Holds, Ready, Procs, Chans, chans, Close, Advance
<1>10. CASE Ready(1) /\ pc[1] = 10 /\ Chan(1) = 2 /\ Get(1)
  BY <1>10 DEF Types, Inv6, Holds, Ready, Procs, Chans, chans, Get, Advance, HasWriter
<1>11. CASE Ready(1) /\ pc[1] = 11 /\ Chan(1) = 2 /\ Mode(1) = "r" /\ Close(1)
  BY <1>11 DEF Types, Inv6, Holds, Ready, Procs, Chans, chans, Close, Advance
<1>12. CASE Ready(1) /\ pc[1] = 12 /\ Store(1)
  BY <1>12 DEF Types, Inv6, Holds, Ready, Procs, Chans, chans, Store, Advance
<1>13. CASE pc[1] = 13 /\ Exit(1)
  BY <1>13 DEF Types, Inv6, Holds, Procs, Exit, Quit
<1>. QED
  BY Reader6Steps, <1>1, <1>2, <1>3, <1>4, <1>5, <1>6, <1>7, <1>8, <1>9, <1>10, <1>11,
     <1>12, <1>13 DEF Types

(* Part 6, the process that counts, keeps the part's invariant.                 *)
LEMMA Counter6Keeps ==
  ASSUME Types, Inv6, part = 6, text # NoFile, Step(2)
  PROVE  Inv6'
<1>1. CASE Ready(2) /\ pc[2] = 1 /\ Chan(2) = 1 /\ Mode(2) = "w" /\ Close(2)
  BY <1>1 DEF Types, Inv6, Holds, Ready, Procs, Chans, chans, Close, Advance
<1>2. CASE Ready(2) /\ pc[2] = 2 /\ Chan(2) = 1 /\ Get(2)
  BY <1>2 DEF Types, Inv6, Holds, Ready, Procs, Chans, chans, Get, Advance, HasWriter
<1>3. CASE Ready(2) /\ pc[2] = 3 /\ Chan(2) = 1 /\ Mode(2) = "r" /\ Close(2)
  BY <1>3 DEF Types, Inv6, Holds, Ready, Procs, Chans, chans, Close, Advance
<1>4. CASE Ready(2) /\ pc[2] = 4 /\ Count(2)
  BY <1>4 DEF Types, Inv6, Holds, Ready, Procs, Chans, chans, Count, Advance
<1>5. CASE Ready(2) /\ pc[2] = 5 /\ Chan(2) = 2 /\ Mode(2) = "r" /\ Close(2)
  BY <1>5 DEF Types, Inv6, Holds, Ready, Procs, Chans, chans, Close, Advance
<1>6. CASE Ready(2) /\ pc[2] = 6 /\ Chan(2) = 2 /\ Put(2)
  <2>1. HasReader(2)
    BY <1>6 DEF Inv6, HasReader, Holds, Ready, Types, Procs
  <2>2. /\ pc' = [pc EXCEPT ![2] = @ + 1]
        /\ bytes' = [bytes EXCEPT ![2] = @ \o buf[2]]
        /\ UNCHANGED <<ended, ends, opening, names, output>>
    BY <1>6, <2>1 DEF Put, Advance
  <2>. QED
    BY <1>6, <2>1, <2>2 DEF Types, Inv6, Holds, Ready, Procs, Chans
<1>7. CASE Ready(2) /\ pc[2] = 7 /\ Chan(2) = 2 /\ Mode(2) = "w" /\ Close(2)
  BY <1>7 DEF Types, Inv6, Holds, Ready, Procs, Chans, chans, Close, Advance
<1>8. CASE pc[2] = 8 /\ Exit(2)
  BY <1>8 DEF Types, Inv6, Holds, Procs, Exit, Quit
<1>. QED
  BY Counter6Steps, <1>1, <1>2, <1>3, <1>4, <1>5, <1>6, <1>7, <1>8 DEF Types

(* Part 7, the process that reads the file, keeps the part's invariant.         *)
LEMMA Reader7Keeps ==
  ASSUME Types, Inv7, part = 7, text # NoFile, Step(1)
  PROVE  Inv7'
<1>1. CASE Ready(1) /\ pc[1] = 1 /\ Chan(1) = 1 /\ Mkfifo(1)
  BY <1>1 DEF Types, Inv7, Holds, Waits, Ready, Procs, Chans, chans, Mkfifo, Advance, Quit
<1>2. CASE Ready(1) /\ pc[1] = 2 /\ Chan(1) = 2 /\ Mkfifo(1)
  BY <1>2 DEF Types, Inv7, Holds, Waits, Ready, Procs, Chans, chans, Mkfifo, Advance, Quit
<1>3. CASE Ready(1) /\ pc[1] = 3 /\ Chan(1) = 2 /\ Fork(1)
  <2>1. ends' = ends
    <3>1. ASSUME NEW e \in ends PROVE e[1] # 1
      BY <1>3 DEF Inv7, FifoEnds, Holds
    <3>. QED
      BY <1>3, <3>1 DEF Fork
  <2>2. pc' = [pc EXCEPT ![1] = @ + 1, ![2] = 1] /\ UNCHANGED <<ended, bytes, opening, names, output>>
    BY <1>3 DEF Fork
  <2>3. pc[1]' = 4 /\ pc[2]' = 1 /\ pc[3]' = 0
    <3>1. pc[2] = 0 /\ pc[3] = 0
      BY <1>3 DEF Inv7
    <3>. QED
      BY <1>3, <2>2, <3>1 DEF Types, Procs
  <2>. QED
    BY <1>3, <2>1, <2>2, <2>3 DEF Types, Inv7, Holds, Waits, Procs
<1>4. CASE Ready(1) /\ pc[1] = 4 /\ Read(1)
  BY <1>4 DEF Types, Inv7, Holds, Waits, Ready, Procs, Chans, chans, Read, Advance
<1>5. CASE Ready(1) /\ pc[1] = 5 /\ Chan(1) = 1 /\ Mode(1) = "w" /\ Open(1)
  <2>1. 1 \in Procs /\ Chan(1) \in names /\ ended[1] = "no" /\ ends \subseteq FifoEnds(1)
    BY <1>5 DEF Inv7, Procs, Ready
  <2>2. ends' \subseteq FifoEnds(1)
    BY <1>5, <2>1, OpenWaits DEF FifoEnds
  <2>. QED
    BY <1>5, <2>1, <2>2, OpenWaits DEF Types, Inv7, Holds, Procs
<1>6. CASE Ready(1) /\ pc[1] = 6 /\ Chan(1) = 1 /\ Put(1)
  <2>1. HasReader(1)
    BY <1>6 DEF Inv7, HasReader, Holds, Waits, Ready, Types, Procs
  <2>2. /\ pc' = [pc EXCEPT ![1] = @ + 1]
        /\ bytes' = [bytes EXCEPT ![1] = @ \o buf[1]]
        /\ UNCHANGED <<ended, ends, opening, names, output>>
    BY <1>6, <2>1 DEF Put, Advance
  <2>. QED
    BY <1>6, <2>1, <2>2 DEF Types, Inv7, Holds, Waits, Ready, Procs, Chans
<1>7. CASE Ready(1) /\ pc[1] = 7 /\ Chan(1) = 1 /\ Mode(1) = "w" /\ Close(1)
  BY <1>7 DEF Types, Inv7, Holds, Waits, Ready, Procs, Chans, chans, Close, Advance
<1>8. CASE Ready(1) /\ pc[1] = 8 /\ Chan(1) = 2 /\ Mode(1) = "r" /\ Open(1)
  <2>1. 1 \in Procs /\ Chan(1) \in names /\ ended[1] = "no" /\ ends \subseteq FifoEnds(1)
    BY <1>8 DEF Inv7, Procs, Ready
  <2>2. ends' \subseteq FifoEnds(1)
    BY <1>8, <2>1, OpenWaits DEF FifoEnds
  <2>. QED
    BY <1>8, <2>1, <2>2, OpenWaits DEF Types, Inv7, Holds, Procs
<1>9. CASE Ready(1) /\ pc[1] = 9 /\ Chan(1) = 2 /\ Get(1)
  BY <1>9 DEF Types, Inv7, Holds, Waits, Ready, Procs, Chans, chans, Get, Advance, HasWriter
<1>10. CASE Ready(1) /\ pc[1] = 10 /\ Chan(1) = 2 /\ Mode(1) = "r" /\ Close(1)
  BY <1>10 DEF Types, Inv7, Holds, Waits, Ready, Procs, Chans, chans, Close, Advance
<1>11. CASE Ready(1) /\ pc[1] = 11 /\ Store(1)
  BY <1>11 DEF Types, Inv7, Holds, Waits, Ready, Procs, Chans, chans, Store, Advance
<1>12. CASE Ready(1) /\ pc[1] = 12 /\ Chan(1) = 1 /\ Unlink(1)
  BY <1>12 DEF Types, Inv7, Holds, Waits, Ready, Procs, Chans, chans, Unlink, Advance
<1>13. CASE Ready(1) /\ pc[1] = 13 /\ Chan(1) = 2 /\ Unlink(1)
  BY <1>13 DEF Types, Inv7, Holds, Waits, Ready, Procs, Chans, chans, Unlink, Advance
<1>14. CASE pc[1] = 14 /\ Exit(1)
  BY <1>14 DEF Types, Inv7, Holds, Waits, Procs, Exit, Quit
<1>. QED
  BY Reader7Steps, <1>1, <1>2, <1>3, <1>4, <1>5, <1>6, <1>7, <1>8, <1>9, <1>10, <1>11,
     <1>12, <1>13, <1>14 DEF Types

(* Part 7, the process that counts, keeps the part's invariant.                 *)
LEMMA Counter7Keeps ==
  ASSUME Types, Inv7, part = 7, text # NoFile, Step(2)
  PROVE  Inv7'
<1>1. CASE Ready(2) /\ pc[2] = 1 /\ Chan(2) = 1 /\ Mode(2) = "r" /\ Open(2)
  <2>1. 2 \in Procs /\ Chan(2) \in names /\ ended[2] = "no" /\ ends \subseteq FifoEnds(1)
    BY <1>1 DEF Inv7, Procs, Ready
  <2>2. ends' \subseteq FifoEnds(1)
    BY <1>1, <2>1, OpenWaits DEF FifoEnds
  <2>. QED
    BY <1>1, <2>1, <2>2, OpenWaits DEF Types, Inv7, Holds, Procs
<1>2. CASE Ready(2) /\ pc[2] = 2 /\ Chan(2) = 1 /\ Get(2)
  BY <1>2 DEF Types, Inv7, Holds, Waits, Ready, Procs, Chans, chans, Get, Advance, HasWriter
<1>3. CASE Ready(2) /\ pc[2] = 3 /\ Chan(2) = 1 /\ Mode(2) = "r" /\ Close(2)
  BY <1>3 DEF Types, Inv7, Holds, Waits, Ready, Procs, Chans, chans, Close, Advance
<1>4. CASE Ready(2) /\ pc[2] = 4 /\ Count(2)
  BY <1>4 DEF Types, Inv7, Holds, Waits, Ready, Procs, Chans, chans, Count, Advance
<1>5. CASE Ready(2) /\ pc[2] = 5 /\ Chan(2) = 2 /\ Mode(2) = "w" /\ Open(2)
  <2>1. 2 \in Procs /\ Chan(2) \in names /\ ended[2] = "no" /\ ends \subseteq FifoEnds(1)
    BY <1>5 DEF Inv7, Procs, Ready
  <2>2. ends' \subseteq FifoEnds(1)
    BY <1>5, <2>1, OpenWaits DEF FifoEnds
  <2>. QED
    BY <1>5, <2>1, <2>2, OpenWaits DEF Types, Inv7, Holds, Procs
<1>6. CASE Ready(2) /\ pc[2] = 6 /\ Chan(2) = 2 /\ Put(2)
  <2>1. HasReader(2)
    BY <1>6 DEF Inv7, HasReader, Holds, Waits, Ready, Types, Procs
  <2>2. /\ pc' = [pc EXCEPT ![2] = @ + 1]
        /\ bytes' = [bytes EXCEPT ![2] = @ \o buf[2]]
        /\ UNCHANGED <<ended, ends, opening, names, output>>
    BY <1>6, <2>1 DEF Put, Advance
  <2>. QED
    BY <1>6, <2>1, <2>2 DEF Types, Inv7, Holds, Waits, Ready, Procs, Chans
<1>7. CASE Ready(2) /\ pc[2] = 7 /\ Chan(2) = 2 /\ Mode(2) = "w" /\ Close(2)
  BY <1>7 DEF Types, Inv7, Holds, Waits, Ready, Procs, Chans, chans, Close, Advance
<1>8. CASE pc[2] = 8 /\ Exit(2)
  BY <1>8 DEF Types, Inv7, Holds, Waits, Procs, Exit, Quit
<1>. QED
  BY Counter7Steps, <1>1, <1>2, <1>3, <1>4, <1>5, <1>6, <1>7, <1>8 DEF Types

(* Part 8, the process that reads the file, keeps the part's invariant.         *)
LEMMA Reader8Keeps ==
  ASSUME Types, Inv8, part = 8, text # NoFile, Step(1)
  PROVE  Inv8'
<1>1. CASE Ready(1) /\ pc[1] = 1 /\ Chan(1) = 1 /\ Mkfifo(1)
  BY <1>1 DEF Types, Inv8, Holds, Waits, Ready, Procs, Chans, chans, Mkfifo, Advance, Quit
<1>2. CASE Ready(1) /\ pc[1] = 2 /\ Chan(1) = 2 /\ Mkfifo(1)
  BY <1>2 DEF Types, Inv8, Holds, Waits, Ready, Procs, Chans, chans, Mkfifo, Advance, Quit
<1>3. CASE Ready(1) /\ pc[1] = 3 /\ Read(1)
  BY <1>3 DEF Types, Inv8, Holds, Waits, Ready, Procs, Chans, chans, Read, Advance
<1>4. CASE Ready(1) /\ pc[1] = 4 /\ Chan(1) = 1 /\ Mode(1) = "w" /\ Open(1)
  <2>1. 1 \in Procs /\ Chan(1) \in names /\ ended[1] = "no" /\ ends \subseteq FifoEnds(1)
    BY <1>4 DEF Inv8, Procs, Ready
  <2>2. ends' \subseteq FifoEnds(1)
    BY <1>4, <2>1, OpenWaits DEF FifoEnds
  <2>. QED
    BY <1>4, <2>1, <2>2, OpenWaits DEF Types, Inv8, Holds, Procs
<1>5. CASE Ready(1) /\ pc[1] = 5 /\ Chan(1) = 1 /\ Put(1)
  <2>1. HasReader(1)
    BY <1>5 DEF Inv8, HasReader, Holds, Waits, Ready, Types, Procs
  <2>2. /\ pc' = [pc EXCEPT ![1] = @ + 1]
        /\ bytes' = [bytes EXCEPT ![1] = @ \o buf[1]]
        /\ UNCHANGED <<ended, ends, opening, names, output>>
    BY <1>5, <2>1 DEF Put, Advance
  <2>. QED
    BY <1>5, <2>1, <2>2 DEF Types, Inv8, Holds, Waits, Ready, Procs, Chans
<1>6. CASE Ready(1) /\ pc[1] = 6 /\ Chan(1) = 1 /\ Mode(1) = "w" /\ Close(1)
  BY <1>6 DEF Types, Inv8, Holds, Waits, Ready, Procs, Chans, chans, Close, Advance
<1>7. CASE Ready(1) /\ pc[1] = 7 /\ Chan(1) = 2 /\ Mode(1) = "r" /\ Open(1)
  <2>1. 1 \in Procs /\ Chan(1) \in names /\ ended[1] = "no" /\ ends \subseteq FifoEnds(1)
    BY <1>7 DEF Inv8, Procs, Ready
  <2>2. ends' \subseteq FifoEnds(1)
    BY <1>7, <2>1, OpenWaits DEF FifoEnds
  <2>. QED
    BY <1>7, <2>1, <2>2, OpenWaits DEF Types, Inv8, Holds, Procs
<1>8. CASE Ready(1) /\ pc[1] = 8 /\ Chan(1) = 2 /\ Get(1)
  BY <1>8 DEF Types, Inv8, Holds, Waits, Ready, Procs, Chans, chans, Get, Advance, HasWriter
<1>9. CASE Ready(1) /\ pc[1] = 9 /\ Chan(1) = 2 /\ Mode(1) = "r" /\ Close(1)
  BY <1>9 DEF Types, Inv8, Holds, Waits, Ready, Procs, Chans, chans, Close, Advance
<1>10. CASE Ready(1) /\ pc[1] = 10 /\ Store(1)
  BY <1>10 DEF Types, Inv8, Holds, Waits, Ready, Procs, Chans, chans, Store, Advance
<1>11. CASE Ready(1) /\ pc[1] = 11 /\ Chan(1) = 1 /\ Unlink(1)
  BY <1>11 DEF Types, Inv8, Holds, Waits, Ready, Procs, Chans, chans, Unlink, Advance
<1>12. CASE Ready(1) /\ pc[1] = 12 /\ Chan(1) = 2 /\ Unlink(1)
  BY <1>12 DEF Types, Inv8, Holds, Waits, Ready, Procs, Chans, chans, Unlink, Advance
<1>13. CASE pc[1] = 13 /\ Exit(1)
  BY <1>13 DEF Types, Inv8, Holds, Waits, Procs, Exit, Quit
<1>. QED
  BY Reader8Steps, <1>1, <1>2, <1>3, <1>4, <1>5, <1>6, <1>7, <1>8, <1>9, <1>10, <1>11,
     <1>12, <1>13 DEF Types

(* Part 8, the process that counts, keeps the part's invariant.                 *)
LEMMA Counter8Keeps ==
  ASSUME Types, Inv8, part = 8, text # NoFile, Step(2)
  PROVE  Inv8'
<1>1. CASE Ready(2) /\ pc[2] = 1 /\ Chan(2) = 1 /\ Mode(2) = "r" /\ Open(2)
  <2>1. CASE 1 \notin names
    <3>1. Quit(2, "failed")
      BY <1>1, <2>1 DEF Open
    <3>. QED
      BY <1>1, <3>1 DEF Types, Inv8, Holds, Waits, Procs, Quit
  <2>2. CASE 1 \in names
    <3>1. 2 \in Procs /\ Chan(2) \in names /\ ended[2] = "no" /\ ends \subseteq FifoEnds(1)
      BY <1>1, <2>2 DEF Inv8, Procs, Ready
    <3>2. ends' \subseteq FifoEnds(1)
      BY <1>1, <3>1, OpenWaits DEF FifoEnds
    <3>. QED
      BY <1>1, <3>1, <3>2, OpenWaits DEF Types, Inv8, Holds, Procs
  <2>. QED
    BY <2>1, <2>2
<1>2. CASE Ready(2) /\ pc[2] = 2 /\ Chan(2) = 1 /\ Get(2)
  BY <1>2 DEF Types, Inv8, Holds, Waits, Ready, Procs, Chans, chans, Get, Advance, HasWriter
<1>3. CASE Ready(2) /\ pc[2] = 3 /\ Chan(2) = 1 /\ Mode(2) = "r" /\ Close(2)
  BY <1>3 DEF Types, Inv8, Holds, Waits, Ready, Procs, Chans, chans, Close, Advance
<1>4. CASE Ready(2) /\ pc[2] = 4 /\ Count(2)
  BY <1>4 DEF Types, Inv8, Holds, Waits, Ready, Procs, Chans, chans, Count, Advance
<1>5. CASE Ready(2) /\ pc[2] = 5 /\ Chan(2) = 2 /\ Mode(2) = "w" /\ Open(2)
  <2>1. 2 \in Procs /\ Chan(2) \in names /\ ended[2] = "no" /\ ends \subseteq FifoEnds(1)
    BY <1>5 DEF Inv8, Procs, Ready
  <2>2. ends' \subseteq FifoEnds(1)
    BY <1>5, <2>1, OpenWaits DEF FifoEnds
  <2>. QED
    BY <1>5, <2>1, <2>2, OpenWaits DEF Types, Inv8, Holds, Procs
<1>6. CASE Ready(2) /\ pc[2] = 6 /\ Chan(2) = 2 /\ Put(2)
  <2>1. HasReader(2)
    BY <1>6 DEF Inv8, HasReader, Holds, Waits, Ready, Types, Procs
  <2>2. /\ pc' = [pc EXCEPT ![2] = @ + 1]
        /\ bytes' = [bytes EXCEPT ![2] = @ \o buf[2]]
        /\ UNCHANGED <<ended, ends, opening, names, output>>
    BY <1>6, <2>1 DEF Put, Advance
  <2>. QED
    BY <1>6, <2>1, <2>2 DEF Types, Inv8, Holds, Waits, Ready, Procs, Chans
<1>7. CASE Ready(2) /\ pc[2] = 7 /\ Chan(2) = 2 /\ Mode(2) = "w" /\ Close(2)
  BY <1>7 DEF Types, Inv8, Holds, Waits, Ready, Procs, Chans, chans, Close, Advance
<1>8. CASE pc[2] = 8 /\ Exit(2)
  BY <1>8 DEF Types, Inv8, Holds, Waits, Procs, Exit, Quit
<1>. QED
  BY Counter8Steps, <1>1, <1>2, <1>3, <1>4, <1>5, <1>6, <1>7, <1>8 DEF Types

(* Part 9: the second program reads on as long as whole chunks come, so the first one *)
(* never writes to a fifo that nobody reads.                                          *)
LEMMA ReaderIsThere ==
  ASSUME Types, Inv9, part = 9, pc[1] = 5, buf[1] # <<>>, Ready(1)
  PROVE  HasReader(1)
<1>1. pc[2] = 2 /\ ended[2] = "no"
  BY DEF Inv9, Order9, Chunks9, Feeding, Waits, Ready
<1>2. Holds(2, 1, "r")
  BY <1>1 DEF Inv9, Order9
<1>. QED
  BY <1>2 DEF HasReader, Holds

(* Part 9, the process that reads the file: who is how far, and with which ends. *)
LEMMA Reader9Order ==
  ASSUME Types, Inv9, part = 9, text # NoFile, Step(1)
  PROVE  Order9'
<1>1. CASE Ready(1) /\ pc[1] = 1 /\ Chan(1) = 1 /\ Mkfifo(1)
  BY <1>1 DEF Types, Inv9, Order9, Holds, Waits, Ready, Procs, Chans, chans, Mkfifo,
     Advance, Quit
<1>2. CASE Ready(1) /\ pc[1] = 2 /\ Chan(1) = 2 /\ Mkfifo(1)
  BY <1>2 DEF Types, Inv9, Order9, Holds, Waits, Ready, Procs, Chans, chans, Mkfifo,
     Advance, Quit
<1>3. CASE Ready(1) /\ pc[1] = 3 /\ Read(1)
  BY <1>3 DEF Types, Inv9, Order9, Holds, Waits, Ready, Procs, Chans, chans, Read, Advance
<1>4. CASE Ready(1) /\ pc[1] = 4 /\ Chan(1) = 1 /\ Mode(1) = "w" /\ Open(1)
  <2>1. 1 \in Procs /\ Chan(1) \in names /\ ended[1] = "no" /\ ends \subseteq FifoEnds(1)
    BY <1>4 DEF Inv9, Order9, Procs, Ready
  <2>2. ends' \subseteq FifoEnds(1)
    BY <1>4, <2>1, OpenWaits DEF FifoEnds
  <2>3. ends' = ends \cup {<<1, 1, "w">>}
    BY <1>4, <2>1, OpenWaits
  <2>4. Holds(1, 1, "w")' /\ (Holds(2, 1, "r")' <=> Holds(2, 1, "r"))
    BY <2>3 DEF Holds
  <2>5. pc[1]' = 5 /\ pc[2]' = pc[2] /\ pc[3]' = pc[3] /\ UNCHANGED <<ended, names, output>>
    BY <1>4, <2>1, OpenWaits DEF Types, Procs
  <2>6. pc[2] <= 1 => Waits(1, 1, "w")'
    <3>1. pc[2] <= 1 => ~Holds(2, 1, "r")
      BY DEF Inv9, Order9
    <3>. QED
      BY <1>4, <2>1, <3>1, OpenWaits
  <2>. QED
    BY <1>4, <2>1, <2>2, <2>4, <2>5, <2>6 DEF Inv9, Order9
<1>5. CASE Ready(1) /\ pc[1] = 5 /\ Chan(1) = 1 /\ Feed(1)
  BY <1>5, ReaderIsThere DEF Types, Inv9, Order9, Holds, Waits, Procs, chans, Feed, Advance
<1>6. CASE Ready(1) /\ pc[1] = 6 /\ Chan(1) = 1 /\ Mode(1) = "w" /\ Close(1)
  BY <1>6 DEF Types, Inv9, Order9, Holds, Waits, Ready, Procs, Chans, chans, Close, Advance
<1>7. CASE Ready(1) /\ pc[1] = 7 /\ Chan(1) = 2 /\ Mode(1) = "r" /\ Open(1)
  <2>1. 1 \in Procs /\ Chan(1) \in names /\ ended[1] = "no" /\ ends \subseteq FifoEnds(1)
    BY <1>7 DEF Inv9, Order9, Procs, Ready
  <2>2. ends' \subseteq FifoEnds(1)
    BY <1>7, <2>1, OpenWaits DEF FifoEnds
  <2>3. ends' = ends \cup {<<1, 2, "r">>}
    BY <1>7, <2>1, OpenWaits
  <2>4. (Holds(1, 1, "w")' <=> Holds(1, 1, "w")) /\ (Holds(2, 1, "r")' <=> Holds(2, 1, "r"))
    BY <2>3 DEF Holds
  <2>5. pc[1]' = 8 /\ pc[2]' = pc[2] /\ pc[3]' = pc[3] /\ UNCHANGED <<ended, names, output>>
    BY <1>7, <2>1, OpenWaits DEF Types, Procs
  <2>. QED
    BY <1>7, <2>1, <2>2, <2>4, <2>5 DEF Inv9, Order9
<1>8. CASE Ready(1) /\ pc[1] = 8 /\ Creat(1)
  BY <1>8 DEF Types, Inv9, Order9, Holds, Waits, Ready, Procs, Chans, chans, Creat, Advance
<1>9. CASE Ready(1) /\ pc[1] = 9 /\ Chan(1) = 2 /\ Drain(1)
  <2>1. output' # {}
    <3>1. PICK cells \in output : TRUE
      BY <1>9 DEF Inv9, Order9
    <3>. QED
      BY <1>9, <3>1 DEF Drain
  <2>2. (pc' = pc \/ pc' = [pc EXCEPT ![1] = @ + 1]) /\ UNCHANGED <<ended, ends, opening, names>>
    BY <1>9 DEF Drain, Advance
  <2>. QED
    BY <1>9, <2>1, <2>2 DEF Types, Inv9, Order9, Holds, Waits, Procs
<1>10. CASE Ready(1) /\ pc[1] = 10 /\ Chan(1) = 2 /\ Mode(1) = "r" /\ Close(1)
  BY <1>10 DEF Types, Inv9, Order9, Holds, Waits, Ready, Procs, Chans, chans, Close, Advance
<1>11. CASE Ready(1) /\ pc[1] = 11 /\ Chan(1) = 1 /\ Unlink(1)
  BY <1>11 DEF Types, Inv9, Order9, Holds, Waits, Ready, Procs, Chans, chans, Unlink,
     Advance
<1>12. CASE Ready(1) /\ pc[1] = 12 /\ Chan(1) = 2 /\ Unlink(1)
  BY <1>12 DEF Types, Inv9, Order9, Holds, Waits, Ready, Procs, Chans, chans, Unlink,
     Advance
<1>13. CASE pc[1] = 13 /\ Exit(1)
  BY <1>13 DEF Types, Inv9, Order9, Holds, Waits, Procs, Exit, Quit
<1>. QED
  BY Reader9Steps, <1>1, <1>2, <1>3, <1>4, <1>5, <1>6, <1>7, <1>8, <1>9, <1>10, <1>11,
     <1>12, <1>13 DEF Types

(* Part 9, the process that reads the file: how the chunks arrive.              *)
LEMMA Reader9Chunks ==
  ASSUME Types, Inv9, part = 9, text # NoFile, Step(1)
  PROVE  Chunks9'
<1>. USE DEF Inv9
<1>1. CASE Ready(1) /\ pc[1] = 1 /\ Chan(1) = 1 /\ Mkfifo(1)
  BY <1>1 DEF Types, Order9, Chunks9, Feeding, Procs, Chans, chans, Mkfifo, Advance, Quit
<1>2. CASE Ready(1) /\ pc[1] = 2 /\ Chan(1) = 2 /\ Mkfifo(1)
  BY <1>2 DEF Types, Order9, Chunks9, Feeding, Procs, Chans, chans, Mkfifo, Advance, Quit
<1>3. CASE Ready(1) /\ pc[1] = 3 /\ Read(1)
  <2>1. text \in Seq(Cells)
    BY PipelineAssumption DEF Types
  <2>2. buf[1]' \in Seq(Cells)
    <3>1. buf[1]' \in {text, First(BUF, text)}
      BY <1>3 DEF Read, Types, Procs
    <3>2. First(BUF, text) \in Seq(Cells)
      BY <2>1, FirstIs, PipelineAssumption
    <3>. QED
      BY <2>1, <3>1, <3>2
  <2>. QED
    BY <1>3, <2>2 DEF Types, Order9, Chunks9, Feeding, Procs, chans, Read, Advance
<1>4. CASE Ready(1) /\ pc[1] = 4 /\ Chan(1) = 1 /\ Mode(1) = "w" /\ Open(1)
  BY <1>4 DEF Types, Order9, Chunks9, Feeding, Procs, Chans, chans, Open, Advance, Quit
<1>5. CASE Ready(1) /\ pc[1] = 5 /\ Chan(1) = 1 /\ Feed(1)
  <2>1. bytes[1] \in Seq(Cells) /\ buf[1] \in Seq(Cells) /\ CHUNK \in Nat \ {0}
    BY <1>5, PipelineAssumption DEF Chunks9
  <2>2. CASE buf[1] = <<>>
    <3>1. pc' = [pc EXCEPT ![1] = @ + 1] /\ UNCHANGED <<ended, buf, bytes>>
      BY <1>5, <2>2 DEF Feed, Advance, chans
    <3>2. pc[1]' = 6 /\ pc[2]' = pc[2]
      BY <1>5, <3>1 DEF Types, Procs
    <3>. QED
      BY <1>5, <3>1, <3>2 DEF Chunks9, Feeding
  <2>3. CASE buf[1] # <<>>
    <3>1. /\ bytes' = [bytes EXCEPT ![1] = @ \o First(CHUNK, buf[1])]
          /\ buf' = [buf EXCEPT ![1] = Rest(CHUNK, @)]
          /\ UNCHANGED <<pc, ended>>
      BY <1>5, <2>3, ReaderIsThere DEF Feed
    <3>2. bytes[1]' \in Seq(Cells) /\ buf[1]' \in Seq(Cells)
      BY <2>1, <3>1, FirstIs, RestIs DEF Types, Procs, Chans
    <3>3. buf[1]' # <<>> => Len(bytes[1]') = Len(bytes[1]) + CHUNK
      <4>1. buf[1]' = Rest(CHUNK, buf[1]) /\ bytes[1]' = bytes[1] \o First(CHUNK, buf[1])
        BY <3>1 DEF Types, Procs, Chans
      <4>2. CHUNK >= Len(buf[1]) => Rest(CHUNK, buf[1]) = <<>>
        BY <2>1, RestIs
      <4>3. /\ First(CHUNK, buf[1]) \in Seq(Cells)
            /\ CHUNK < Len(buf[1]) => Len(First(CHUNK, buf[1])) = CHUNK
        BY <2>1, FirstIs
      <4>4. Len(bytes[1] \o First(CHUNK, buf[1])) = Len(bytes[1]) + Len(First(CHUNK, buf[1]))
        BY <2>1, <4>3
      <4>5. CHUNK < Len(buf[1]) => Len(bytes[1] \o First(CHUNK, buf[1])) = Len(bytes[1]) + CHUNK
        BY <4>3, <4>4
      <4>6. buf[1]' # <<>> => CHUNK < Len(buf[1])
        BY <2>1, <4>1, <4>2
      <4>. QED
        BY <4>1, <4>5, <4>6
    <3>4. buf[1]' # <<>> => Len(bytes[1]') \in Multiples
      BY <1>5, <2>1, <2>3, <3>3, MultiplesAre DEF Chunks9, Feeding
    <3>. QED
      BY <1>5, <2>3, <3>1, <3>2, <3>4 DEF Types, Chunks9, Feeding, Procs
  <2>. QED
    BY <2>2, <2>3
<1>6. CASE Ready(1) /\ pc[1] = 6 /\ Chan(1) = 1 /\ Mode(1) = "w" /\ Close(1)
  BY <1>6 DEF Types, Order9, Chunks9, Feeding, Procs, Chans, chans, Close, Advance
<1>7. CASE Ready(1) /\ pc[1] = 7 /\ Chan(1) = 2 /\ Mode(1) = "r" /\ Open(1)
  BY <1>7 DEF Types, Order9, Chunks9, Feeding, Procs, Chans, chans, Open, Advance, Quit
<1>8. CASE Ready(1) /\ pc[1] = 8 /\ Creat(1)
  BY <1>8 DEF Types, Order9, Chunks9, Feeding, Procs, Chans, chans, Creat, Advance
<1>9. CASE Ready(1) /\ pc[1] = 9 /\ Chan(1) = 2 /\ Drain(1)
  BY <1>9 DEF Types, Order9, Chunks9, Feeding, Procs, Chans, chans, Drain, Advance
<1>10. CASE Ready(1) /\ pc[1] = 10 /\ Chan(1) = 2 /\ Mode(1) = "r" /\ Close(1)
  BY <1>10 DEF Types, Order9, Chunks9, Feeding, Procs, Chans, chans, Close, Advance
<1>11. CASE Ready(1) /\ pc[1] = 11 /\ Chan(1) = 1 /\ Unlink(1)
  BY <1>11 DEF Types, Order9, Chunks9, Feeding, Procs, Chans, chans, Unlink, Advance
<1>12. CASE Ready(1) /\ pc[1] = 12 /\ Chan(1) = 2 /\ Unlink(1)
  BY <1>12 DEF Types, Order9, Chunks9, Feeding, Procs, Chans, chans, Unlink, Advance
<1>13. CASE pc[1] = 13 /\ Exit(1)
  BY <1>13 DEF Types, Order9, Chunks9, Feeding, Procs, Exit, Quit
<1>. QED
  BY Reader9Steps, <1>1, <1>2, <1>3, <1>4, <1>5, <1>6, <1>7, <1>8, <1>9, <1>10, <1>11,
     <1>12, <1>13 DEF Types

(* Part 9, the process that reads the file, keeps the part's invariant.         *)
LEMMA Reader9Keeps ==
  ASSUME Types, Inv9, part = 9, text # NoFile, Step(1)
  PROVE  Inv9'
BY Reader9Order, Reader9Chunks DEF Inv9

(* Part 9, the process that counts: who is how far, and with which ends.        *)
LEMMA Counter9Order ==
  ASSUME Types, Inv9, part = 9, text # NoFile, Step(2)
  PROVE  Order9'
<1>1. CASE Ready(2) /\ pc[2] = 1 /\ Chan(2) = 1 /\ Mode(2) = "r" /\ Open(2)
  <2>1. CASE 1 \notin names
    <3>1. Quit(2, "failed")
      BY <1>1, <2>1 DEF Open
    <3>. QED
      BY <1>1, <3>1 DEF Types, Inv9, Order9, Holds, Waits, Procs, Quit
  <2>2. CASE 1 \in names
    <3>1. 2 \in Procs /\ Chan(2) \in names /\ ended[2] = "no" /\ ends \subseteq FifoEnds(1)
      BY <1>1, <2>2 DEF Inv9, Order9, Procs, Ready
    <3>2. ends' \subseteq FifoEnds(1)
      BY <1>1, <3>1, OpenWaits DEF FifoEnds
    <3>3. pc[1]' = pc[1] /\ pc[2]' = 2 /\ pc[3]' = pc[3] /\ UNCHANGED <<ended, names, output>>
      BY <1>1, <3>1, OpenWaits DEF Types, Procs
    <3>4. ends' = ends \cup {<<2, 1, "r">>}
      BY <1>1, <3>1, OpenWaits
    <3>5. (Holds(1, 1, "w")' <=> Holds(1, 1, "w")) /\ Holds(2, 1, "r")'
      BY <3>4 DEF Holds
    <3>6. pc[1] <= 4 => Waits(2, 1, "r")'
      <4>1. pc[1] <= 4 => ~Holds(1, 1, "w")
        BY DEF Inv9, Order9
      <4>. QED
        BY <1>1, <3>1, <4>1, OpenWaits
    <3>. QED
      BY <1>1, <3>1, <3>2, <3>3, <3>5, <3>6 DEF Inv9, Order9
  <2>. QED
    BY <2>1, <2>2
<1>2. CASE Ready(2) /\ pc[2] = 2 /\ Chan(2) = 1 /\ Gather(2)
  <2>1. CASE Quit(2, "failed")
    BY <1>2, <2>1 DEF Types, Inv9, Order9, Holds, Waits, Procs, Quit
  <2>2. CASE ~Quit(2, "failed")
    <3>1. /\ pc' = pc \/ pc' = [pc EXCEPT ![2] = @ + 1]
          /\ UNCHANGED <<ended, ends, opening, names, output>>
      BY <1>2, <2>2 DEF Gather, Advance
    <3>2. pc[1] \in Nat /\ pc'[1] = pc[1] /\ pc'[2] \in {2, 3} /\ pc'[3] = pc[3]
      BY <1>2, <3>1 DEF Types, Procs
    <3>3. ~Waits(2, 1, "r")
      BY <1>2 DEF Ready, Waits
    <3>. QED
      BY <1>2, <3>1, <3>2, <3>3 DEF Inv9, Order9, Holds, Waits, Ready
  <2>. QED
    BY <2>1, <2>2
<1>3. CASE Ready(2) /\ pc[2] = 3 /\ Chan(2) = 1 /\ Mode(2) = "r" /\ Close(2)
  BY <1>3 DEF Types, Inv9, Order9, Holds, Waits, Ready, Procs, Chans, chans, Close, Advance
<1>4. CASE Ready(2) /\ pc[2] = 4 /\ AnswerOfLength(2)
  BY <1>4 DEF Types, Inv9, Order9, Holds, Waits, Ready, Procs, Chans, chans,
     AnswerOfLength, Advance
<1>5. CASE Ready(2) /\ pc[2] = 5 /\ Chan(2) = 2 /\ Mode(2) = "w" /\ Open(2)
  <2>1. CASE 2 \notin names
    <3>1. Quit(2, "failed")
      BY <1>5, <2>1 DEF Open
    <3>. QED
      BY <1>5, <3>1 DEF Types, Inv9, Order9, Holds, Waits, Procs, Quit
  <2>2. CASE 2 \in names
    <3>1. 2 \in Procs /\ Chan(2) \in names /\ ended[2] = "no" /\ ends \subseteq FifoEnds(1)
      BY <1>5, <2>2 DEF Inv9, Order9, Procs, Ready
    <3>2. ends' \subseteq FifoEnds(1)
      BY <1>5, <3>1, OpenWaits DEF FifoEnds
    <3>3. pc[1]' = pc[1] /\ pc[2]' = 6 /\ pc[3]' = pc[3] /\ UNCHANGED <<ended, names, output>>
      BY <1>5, <3>1, OpenWaits DEF Types, Procs
    <3>4. ends' = ends \cup {<<2, 2, "w">>}
      BY <1>5, <3>1, OpenWaits
    <3>5. (Holds(1, 1, "w")' <=> Holds(1, 1, "w")) /\ (Holds(2, 1, "r")' <=> Holds(2, 1, "r"))
      BY <3>4 DEF Holds
    <3>. QED
      BY <1>5, <3>1, <3>2, <3>3, <3>5 DEF Inv9, Order9
  <2>. QED
    BY <2>1, <2>2
<1>6. CASE Ready(2) /\ pc[2] = 6 /\ Chan(2) = 2 /\ Feed(2)
  BY <1>6 DEF Types, Inv9, Order9, Holds, Waits, Ready, Procs, Chans, chans, Feed,
     Advance, Quit
<1>7. CASE Ready(2) /\ pc[2] = 7 /\ Chan(2) = 2 /\ Mode(2) = "w" /\ Close(2)
  BY <1>7 DEF Types, Inv9, Order9, Holds, Waits, Ready, Procs, Chans, chans, Close, Advance
<1>8. CASE pc[2] = 8 /\ Exit(2)
  BY <1>8 DEF Types, Inv9, Order9, Holds, Waits, Procs, Exit, Quit
<1>. QED
  BY Counter9Steps, <1>1, <1>2, <1>3, <1>4, <1>5, <1>6, <1>7, <1>8 DEF Types

(* Part 9, the process that counts: how the chunks arrive.                      *)
LEMMA Counter9Chunks ==
  ASSUME Types, Inv9, part = 9, text # NoFile, Step(2)
  PROVE  Chunks9'
<1>. USE DEF Inv9
<1>0. ASSUME pc[2] >= 3, pc[2]' >= 3, bytes[1]' = bytes[1], pc[1]' = pc[1]
      PROVE  Chunks9'
  <2>1. ~Feeding /\ buf[1]' = buf[1] /\ pc[1] \in Nat /\ pc[2]' \in Nat
    BY <1>0, StepFrame DEF Types, Order9, Chunks9, Procs
  <2>2. ~Feeding'
    BY <1>0, <2>1 DEF Feeding
  <2>. QED
    BY <1>0, <2>1, <2>2 DEF Order9, Chunks9
<1>1. CASE Ready(2) /\ pc[2] = 1 /\ Chan(2) = 1 /\ Mode(2) = "r" /\ Open(2)
  <2>1. <<>> \in Seq(Cells) /\ bytes[1]' = bytes[1] /\ (buf[2]' = buf[2] \/ buf[2]' = <<>>)
    BY <1>1 DEF Open, Quit, Types, Procs
  <2>2. pc[1]' = pc[1] /\ pc[2]' \in {1, 2} /\ (pc[2]' = 2 => ended' = ended) /\ buf[1]' = buf[1]
    BY <1>1 DEF Open, Advance, Quit, Types, Procs
  <2>3. Feeding' <=> Feeding
    BY <2>2 DEF Feeding
  <2>4. pc[2]' = 2 => ended[2]' = "no"
    BY <1>1, <2>2 DEF Ready
  <2>5. buf[2]' \in Seq(Cells) /\ bytes[1]' \in Seq(Cells)
    <3>1. buf[2] \in Seq(Cells) /\ bytes[1] \in Seq(Cells)
      BY <1>1 DEF Chunks9
    <3>2. CASE buf[2]' = buf[2]
      BY <2>1, <3>1, <3>2, Zenon
    <3>3. CASE buf[2]' = <<>>
      BY <2>1, <3>1, <3>3, Zenon
    <3>. QED
      BY <2>1, <3>2, <3>3
  <2>6. Feeding' => pc[2]' <= 2 /\ (pc[2]' = 2 => ended[2]' = "no")
    BY <2>2, <2>4
  <2>. QED
    BY <1>1, <2>1, <2>2, <2>3, <2>5, <2>6 DEF Chunks9
<1>2. CASE Ready(2) /\ pc[2] = 2 /\ Chan(2) = 1 /\ Gather(2)
  <2>. DEFINE chunk == First(CHUNK, bytes[1])
              grown == Grown(buf[2], chunk)
  <2>1. bytes[1] \in Seq(Cells) /\ buf[2] \in Seq(Cells) /\ CHUNK \in Nat \ {0}
    BY <1>2, PipelineAssumption DEF Chunks9
  <2>2. CASE bytes[1] = <<>>
    <3>1. ~HasWriter(1) /\ ~Waits(2, 1, "r")
      BY <1>2, <2>2 DEF Gather, Ready, Waits
    <3>2. ~Feeding /\ pc[1] >= 6
      <4>1. ~Holds(1, 1, "w")
        BY <3>1 DEF HasWriter, Holds
      <4>. QED
        BY <1>2, <3>1, <4>1 DEF Order9, Feeding, Types, Procs
    <3>3. chunk = <<>> /\ Rest(CHUNK, bytes[1]) = <<>>
      <4>1. Len(bytes[1]) = 0 /\ CHUNK >= Len(bytes[1])
        BY <2>1, <2>2
      <4>2. chunk = <<>>
        BY <2>1, <2>2, FirstIs
      <4>3. Rest(CHUNK, bytes[1]) = <<>>
        BY <2>1, <4>1, RestIs
      <4>. QED
        BY <4>2, <4>3
    <3>4. \/ Quit(2, "failed")
          \/ /\ pc' = [pc EXCEPT ![2] = @ + 1] /\ buf' = buf
             /\ bytes' = [bytes EXCEPT ![1] = <<>>]
             /\ UNCHANGED ended
      BY <1>2, <3>3 DEF Gather, Advance
    <3>5. /\ pc[1]' = pc[1] /\ buf[1]' = buf[1] /\ bytes[1]' = <<>>
          /\ pc[2]' = 2 => buf[2]' = buf[2] \/ buf[2]' = <<>>
          /\ pc[2]' \in {2, 3}
      BY <1>2, <2>2, <3>4 DEF Types, Procs, Chans, Quit
    <3>6. ~Feeding' /\ <<>> \in Seq(Cells)
      BY <3>2, <3>5 DEF Feeding
    <3>7. pc[2]' <= 2 => buf[2]' \in Seq(Cells)
      <4>1. CASE buf[2]' = buf[2]
        BY <2>1, <4>1, Zenon
      <4>2. CASE buf[2]' = <<>>
        BY <3>6, <4>2, Zenon
      <4>. QED
        BY <3>5, <4>1, <4>2
    <3>. QED
      BY <1>2, <2>2, <3>2, <3>5, <3>6, <3>7 DEF Order9, Chunks9
  <2>3. CASE bytes[1] # <<>>
    <3>1. chunk \in Seq(Cells) /\ chunk # <<>>
      BY <2>1, <2>3, FirstIs
    <3>2. /\ bytes' = [bytes EXCEPT ![1] = Rest(CHUNK, @)]
          /\ buf' = [buf EXCEPT ![2] = Cut(grown, Len(chunk))]
          /\ Nuls(grown, Len(chunk)) # {} => pc' = [pc EXCEPT ![2] = @ + 1]
          /\ Nuls(grown, Len(chunk)) = {} => pc' = pc
          /\ UNCHANGED ended
      BY <1>2, <3>1 DEF Gather, Advance
    <3>. HIDE DEF grown
    <3>3. bytes[1]' = Rest(CHUNK, bytes[1]) /\ bytes[1]' \in Seq(Cells)
      BY <2>1, <3>2, RestIs DEF Types, Chans
    <3>4. CASE Len(bytes[1]) < CHUNK
      <4>1. chunk = bytes[1]
        BY <2>1, <3>4, FirstIs
      <4>2. Len(chunk) \in 1..CHUNK
        BY <2>1, <3>1, <3>4, <4>1
      <4>6. Nuls(grown, Len(chunk)) # {}
        <5>. HIDE DEF chunk
        <5>. QED
          BY <2>1, <3>1, <3>4, <4>1, <4>2, GrownIs DEF grown
      <4>3. Len(bytes[1]) \notin Multiples
        BY <2>1, <2>3, <3>4, MultiplesAre
      <4>4. ~Feeding
        BY <4>3 DEF Chunks9
      <4>5. ~Feeding' /\ pc[2]' = 3 /\ pc[3]' = pc[3] /\ pc[1]' = pc[1] /\ buf[1]' = buf[1]
        <5>. HIDE DEF chunk
        <5>. QED
          BY <1>2, <3>2, <4>6, <4>4 DEF Feeding, Types, Procs
      <4>. QED
        BY <1>2, <2>3, <3>2, <3>3, <4>5 DEF Types, Order9, Chunks9, Procs
    <3>5. CASE Len(bytes[1]) >= CHUNK
      <4>1. Len(chunk) = CHUNK
        BY <2>1, <3>5, FirstIs
      <4>2. Len(chunk) \in 1..CHUNK
        BY <2>1, <4>1
      <4>. HIDE DEF chunk
      <4>3. Nuls(grown, Len(chunk)) = {} /\ Cut(grown, Len(chunk)) = buf[2] \o chunk
        BY <2>1, <3>1, <4>1, <4>2, GrownIs DEF grown
      <4>4. /\ pc' = pc /\ buf[2]' \in Seq(Cells)
            /\ buf[1]' = buf[1] /\ Feeding' = Feeding
        BY <2>1, <3>1, <3>2, <4>3 DEF Feeding, Types, Procs
      <4>5. Len(bytes[1]) \in Multiples => Len(bytes[1]') \in Multiples
        <5>1. Len(Rest(CHUNK, bytes[1])) = Len(bytes[1]) - CHUNK
          BY <2>1, <3>5, RestIs
        <5>. QED
          BY <2>1, <2>3, <3>3, <5>1, MultiplesAre
      <4>. QED
        BY <1>2, <2>3, <3>2, <3>3, <4>4, <4>5 DEF Types, Order9, Chunks9, Procs
    <3>. QED
      BY <2>1, <3>4, <3>5
  <2>. QED
    BY <2>2, <2>3
<1>3. CASE Ready(2) /\ pc[2] = 3 /\ Chan(2) = 1 /\ Mode(2) = "r" /\ Close(2)
  <2>1. bytes[1]' = bytes[1] /\ pc[1]' = pc[1] /\ pc[2]' >= 3
    BY <1>3 DEF Close, Advance, chans, Types, Procs, Chans
  <2>. QED
    BY <1>3, <2>1, <1>0
<1>4. CASE Ready(2) /\ pc[2] = 4 /\ AnswerOfLength(2)
  <2>1. bytes[1]' = bytes[1] /\ pc[1]' = pc[1] /\ pc[2]' >= 3
    BY <1>4 DEF AnswerOfLength, Advance, chans, Types, Procs, Chans
  <2>. QED
    BY <1>4, <2>1, <1>0
<1>5. CASE Ready(2) /\ pc[2] = 5 /\ Chan(2) = 2 /\ Mode(2) = "w" /\ Open(2)
  <2>1. bytes[1]' = bytes[1] /\ pc[1]' = pc[1] /\ pc[2]' >= 3
    BY <1>5 DEF Open, Advance, Quit, chans, Types, Procs, Chans
  <2>. QED
    BY <1>5, <2>1, <1>0
<1>6. CASE Ready(2) /\ pc[2] = 6 /\ Chan(2) = 2 /\ Feed(2)
  <2>1. bytes[1]' = bytes[1] /\ pc[1]' = pc[1] /\ pc[2]' >= 3
    BY <1>6 DEF Feed, Advance, Quit, chans, Types, Procs, Chans
  <2>. QED
    BY <1>6, <2>1, <1>0
<1>7. CASE Ready(2) /\ pc[2] = 7 /\ Chan(2) = 2 /\ Mode(2) = "w" /\ Close(2)
  <2>1. bytes[1]' = bytes[1] /\ pc[1]' = pc[1] /\ pc[2]' >= 3
    BY <1>7 DEF Close, Advance, chans, Types, Procs, Chans
  <2>. QED
    BY <1>7, <2>1, <1>0
<1>8. CASE pc[2] = 8 /\ Exit(2)
  BY <1>8 DEF Types, Order9, Chunks9, Feeding, Procs, Exit, Quit
<1>. QED
  BY Counter9Steps, <1>1, <1>2, <1>3, <1>4, <1>5, <1>6, <1>7, <1>8 DEF Types

(* Part 9, the process that counts, keeps the part's invariant.                 *)
LEMMA Counter9Keeps ==
  ASSUME Types, Inv9, part = 9, text # NoFile, Step(2)
  PROVE  Inv9'
BY Counter9Order, Counter9Chunks DEF Inv9

(* Part 10, the process that reads the file, keeps the part's invariant.        *)
LEMMA Reader10Keeps ==
  ASSUME Types, Inv10, part = 10, text # NoFile, Step(1)
  PROVE  Inv10'
<1>1. CASE Ready(1) /\ pc[1] = 1 /\ Chan(1) = 1 /\ Msgget(1)
  BY <1>1 DEF Types, Inv10, Ready, Procs, Chans, chans, Msgget, Advance
<1>2. CASE Ready(1) /\ pc[1] = 2 /\ Chan(1) = 2 /\ Msgget(1)
  BY <1>2 DEF Types, Inv10, Ready, Procs, Chans, chans, Msgget, Advance
<1>3. CASE Ready(1) /\ pc[1] = 3 /\ Read(1)
  BY <1>3 DEF Types, Inv10, Ready, Procs, Chans, chans, Read, Advance
<1>4. CASE Ready(1) /\ pc[1] = 4 /\ Chan(1) = 1 /\ Send(1)
  BY <1>4 DEF Types, Inv10, Ready, Procs, Chans, chans, Send, Advance
<1>5. CASE Ready(1) /\ pc[1] = 5 /\ Creat(1)
  BY <1>5 DEF Types, Inv10, Ready, Procs, Chans, chans, Creat, Advance
<1>6. CASE Ready(1) /\ pc[1] = 6 /\ Chan(1) = 2 /\ Receive(1)
  <2>1. pc[2] = 5
    BY <1>6 DEF Receive, Inv10
  <2>2. output' # {}
    <3>1. PICK cells \in output : TRUE
      BY <1>6 DEF Inv10
    <3>. QED
      BY <1>6, <3>1 DEF Receive
  <2>3. /\ pc' = pc \/ pc' = [pc EXCEPT ![1] = @ + 1]
        /\ bytes' = [bytes EXCEPT ![2] = Tail(@)]
        /\ UNCHANGED <<ended, names>>
    BY <1>6 DEF Receive, Advance
  <2>. QED
    BY <1>6, <2>1, <2>2, <2>3 DEF Types, Inv10, Procs, Chans
<1>7. CASE Ready(1) /\ pc[1] = 7 /\ Chan(1) = 1 /\ Rmid(1)
  BY <1>7 DEF Types, Inv10, Ready, Procs, Chans, chans, Rmid, Advance
<1>8. CASE Ready(1) /\ pc[1] = 8 /\ Chan(1) = 2 /\ Rmid(1)
  BY <1>8 DEF Types, Inv10, Ready, Procs, Chans, chans, Rmid, Advance
<1>9. CASE pc[1] = 9 /\ Exit(1)
  BY <1>9 DEF Types, Inv10, Procs, Exit, Quit
<1>. QED
  BY Reader10Steps, <1>1, <1>2, <1>3, <1>4, <1>5, <1>6, <1>7, <1>8, <1>9 DEF Types

(* Part 10, the process that counts, keeps the part's invariant.                *)
LEMMA Counter10Keeps ==
  ASSUME Types, Inv10, part = 10, text # NoFile, Step(2)
  PROVE  Inv10'
<1>1. CASE Ready(2) /\ pc[2] = 1 /\ Chan(2) = 1 /\ Msgget(2)
  BY <1>1 DEF Types, Inv10, Ready, Procs, Chans, chans, Msgget, Advance
<1>2. CASE Ready(2) /\ pc[2] = 2 /\ Chan(2) = 2 /\ Msgget(2)
  BY <1>2 DEF Types, Inv10, Ready, Procs, Chans, chans, Msgget, Advance
<1>3. CASE Ready(2) /\ pc[2] = 3 /\ Chan(2) = 1 /\ Collect(2)
  <2>1. /\ pc' = pc \/ pc' = [pc EXCEPT ![2] = @ + 1]
        /\ \E queue : bytes' = [bytes EXCEPT ![1] = queue]
        /\ UNCHANGED <<ended, names, output>>
    BY <1>3 DEF Collect, Advance
  <2>. QED
    BY <1>3, <2>1 DEF Types, Inv10, Procs, Chans
<1>4. CASE Ready(2) /\ pc[2] = 4 /\ Count(2)
  BY <1>4 DEF Types, Inv10, Ready, Procs, Chans, chans, Count, Advance
<1>5. CASE Ready(2) /\ pc[2] = 5 /\ Chan(2) = 2 /\ Reply(2)
  BY <1>5 DEF Types, Inv10, Ready, Procs, Chans, chans, Reply, Quit
<1>6. CASE pc[2] = 6 /\ Exit(2)
  BY <1>6 DEF Types, Inv10, Procs, Exit, Quit
<1>. QED
  BY Counter10Steps, <1>1, <1>2, <1>3, <1>4, <1>5, <1>6 DEF Types

(* From part 6 on there is no third process.                                    *)
LEMMA NoThirdProcess ==
  ASSUME part \in 6..10, pc[3] = 0, Step(3)
  PROVE  FALSE
<1>1. Programs[part][3] = <<>>
  BY DEF Programs, Parts
<1>2. ASSUME NEW call, Calls(3, call) PROVE FALSE
  BY <1>1, <1>2 DEF Calls
<1>3. ~Exit(3)
  BY DEF Exit
<1>. QED
  BY <1>2, <1>3, ActionsAreCalls DEF Step, Procs

(* The invariant holds at the start.                                            *)
LEMMA InvInit ==
  ASSUME Init
  PROVE  Inv
<1>1. Types /\ ReadsFirst
  BY DEF Init, Types, ReadsFirst, Procs, Chans, TwoPrograms
<1>. SUFFICES ASSUME text # NoFile
              PROVE  /\ part = 4 => Inv4
                     /\ part = 5 => Inv5
                     /\ part = 6 => Inv6
                     /\ part = 7 => Inv7
                     /\ part = 8 => Inv8
                     /\ part = 9 => Inv9
                     /\ part = 10 => Inv10
  BY <1>1 DEF Inv
<1>4. part = 4 => Inv4
  BY DEF Init, Inv4, Holds, Waits, Procs, Chans, TwoPrograms, Fifos
<1>5. part = 5 => Inv5
  BY DEF Init, Inv5, Holds, Waits, Procs, Chans, TwoPrograms, Fifos
<1>6. part = 6 => Inv6
  BY DEF Init, Inv6, Holds, Waits, Procs, Chans, TwoPrograms, Fifos
<1>7. part = 7 => Inv7
  BY DEF Init, Inv7, Holds, Waits, Procs, Chans, TwoPrograms, Fifos
<1>8. part = 8 => Inv8
  BY DEF Init, Inv8, Holds, Waits, Procs, Chans, TwoPrograms, Fifos
<1>9. part = 9 => Inv9
  <2>1. <<>> \in Seq(Cells) /\ Len(<<>>) \in Multiples
    BY MultiplesAre
  <2>. QED
    BY <2>1 DEF Init, Inv9, Order9, Chunks9, Feeding, Holds, Waits, Procs, Chans,
       TwoPrograms, Fifos
<1>10. part = 10 => Inv10
  BY DEF Init, Inv10, Procs, Chans, TwoPrograms, Fifos
<1>. QED
  BY <1>4, <1>5, <1>6, <1>7, <1>8, <1>9, <1>10

(* Every step keeps the invariant of its part.                                  *)
LEMMA InvNext ==
  ASSUME Inv, [Next]_vars
  PROVE  Inv'
<1>1. CASE UNCHANGED vars
  <2>0. Types /\ ReadsFirst
    BY DEF Inv
  <2>1. /\ Types' /\ ReadsFirst'
        /\ UNCHANGED <<part, text>>
    BY <1>1, <2>0 DEF Types, ReadsFirst, vars, inputs, chans
  <2>2. Inv4 => Inv4'
    BY <1>1 DEF Inv4, Holds, Waits, vars, chans
  <2>3. Inv5 => Inv5'
    BY <1>1 DEF Inv5, Holds, Waits, vars, chans
  <2>4. Inv6 => Inv6'
    BY <1>1 DEF Inv6, Holds, Waits, vars, chans
  <2>5. Inv7 => Inv7'
    BY <1>1 DEF Inv7, Holds, Waits, vars, chans
  <2>6. Inv8 => Inv8'
    BY <1>1 DEF Inv8, Holds, Waits, vars, chans
  <2>7. Order9 => Order9'
    BY <1>1 DEF Order9, Holds, Waits, vars, chans
  <2>8. Chunks9 => Chunks9'
    BY <1>1 DEF Chunks9, Feeding, vars, chans
  <2>9. Inv10 => Inv10'
    BY <1>1 DEF Inv10, vars, chans
  <2>. QED
    BY <2>1, <2>2, <2>3, <2>4, <2>5, <2>6, <2>7, <2>8, <2>9 DEF Inv, Inv9
<1>2. ASSUME NEW p \in Procs, Step(p) PROVE Inv'
  <2>1. Types' /\ ReadsFirst' /\ UNCHANGED <<part, text>>
    BY <1>2, StepFrame, ReadsFirstKept DEF Inv, inputs
  <2>. SUFFICES ASSUME text # NoFile
                PROVE  /\ part = 4 => Inv4'
                       /\ part = 5 => Inv5'
                       /\ part = 6 => Inv6'
                       /\ part = 7 => Inv7'
                       /\ part = 8 => Inv8'
                       /\ part = 9 => Inv9'
                       /\ part = 10 => Inv10'
    BY <2>1 DEF Inv
  <2>2. p = 1 \/ p = 2 \/ p = 3
    BY DEF Procs
  <2>4. ASSUME part = 4 PROVE Inv4'
    BY <1>2, <2>2, <2>4, Reader4Keeps, Counter4Keeps, Writer4Keeps DEF Inv
  <2>5. ASSUME part = 5 PROVE Inv5'
    BY <1>2, <2>2, <2>5, Reader5Keeps, Counter5Keeps, Writer5Keeps DEF Inv
  <2>6. ASSUME part = 6 PROVE Inv6'
    <3>1. Types /\ Inv6 /\ pc[3] = 0
      BY <2>6 DEF Inv, Inv6
    <3>. QED
      BY <1>2, <2>2, <2>6, <3>1, Reader6Keeps, Counter6Keeps, NoThirdProcess
  <2>7. ASSUME part = 7 PROVE Inv7'
    <3>1. Types /\ Inv7 /\ pc[3] = 0
      BY <2>7 DEF Inv, Inv7
    <3>. QED
      BY <1>2, <2>2, <2>7, <3>1, Reader7Keeps, Counter7Keeps, NoThirdProcess
  <2>8. ASSUME part = 8 PROVE Inv8'
    <3>1. Types /\ Inv8 /\ pc[3] = 0
      BY <2>8 DEF Inv, Inv8
    <3>. QED
      BY <1>2, <2>2, <2>8, <3>1, Reader8Keeps, Counter8Keeps, NoThirdProcess
  <2>9. ASSUME part = 9 PROVE Inv9'
    <3>1. Types /\ Inv9 /\ pc[3] = 0
      BY <2>9 DEF Inv, Inv9, Order9
    <3>. QED
      BY <1>2, <2>2, <2>9, <3>1, Reader9Keeps, Counter9Keeps, NoThirdProcess
  <2>10. ASSUME part = 10 PROVE Inv10'
    <3>1. Types /\ Inv10 /\ pc[3] = 0
      BY <2>10 DEF Inv, Inv10
    <3>. QED
      BY <1>2, <2>2, <2>10, <3>1, Reader10Keeps, Counter10Keeps, NoThirdProcess
  <2>. QED
    BY <2>4, <2>5, <2>6, <2>7, <2>8, <2>9, <2>10
<1>. QED
  BY <1>1, <1>2 DEF Next

(* In every part, for every text and every size of the buffers, the processes are *)
(* never further ahead of each other than the part's invariant allows.            *)
THEOREM PipelineInvariant == Spec => []Inv
<1>1. Init => Inv
  BY InvInit
<1>2. Inv /\ [Next]_vars => Inv'
  BY InvNext
<1>. QED
  BY <1>1, <1>2, PTL DEF Spec

(* No process that has a file to read is killed by SIGPIPE: whoever puts data into a   *)
(* pipe or fifo finds its reader there (task.c of parts 4 to 8: write_file in main,    *)
(* the child's write).  In part 9 only the first program is sure of that, whose reader *)
(* stops at the chunk that is not whole.                                               *)
THEOREM PipelineNoBrokenPipe == Spec => []NoBrokenPipe
<1>1. Inv => NoBrokenPipe
  <2>. SUFFICES ASSUME Inv, text # NoFile
                PROVE  ended[1] # "killed" /\ (part # 9 => ended[2] # "killed")
    BY DEF NoBrokenPipe
  <2>1. CASE part \in {4, 5, 6}
    BY <2>1 DEF Inv, Inv4, Inv5, Inv6
  <2>2. CASE part \in {7, 8, 9, 10}
    BY <2>2 DEF Inv, Inv7, Inv8, Inv9, Order9, Inv10
  <2>. QED
    BY <2>1, <2>2 DEF Inv, Types, Parts
<1>. QED
  BY <1>1, PipelineInvariant, PTL

(* A main program that returns well has its answer stored and has left no fifo and no *)
(* queue behind, except in part 4, which waits for nobody.                            *)
THEOREM PipelineDone == Spec => []DoneWhenItReturns
<1>1. Inv => DoneWhenItReturns
  <2>. SUFFICES ASSUME Inv, part # 4, ended[1] = "ok"
                PROVE  Stored /\ output # {} /\ names = {}
    BY DEF DoneWhenItReturns
  <2>1. text # NoFile
    BY DEF Inv, ReadsFirst
  <2>2. CASE part = 5
    <3>1. pc[1] = 11 /\ ended[2] = "ok" /\ pc[2] = 10
      BY <2>1, <2>2 DEF Inv, Inv5
    <3>2. ended[3] = "ok" /\ output # {}
      BY <2>1, <2>2, <3>1 DEF Inv, Inv5
    <3>3. names = {}
      BY <2>1, <2>2, <3>1 DEF Inv, Inv5, Chans
    <3>. QED
      BY <2>2, <3>2, <3>3 DEF Stored
  <2>3. CASE part \in {6, 7, 8}
    <3>1. output # {} /\ names = {}
      BY <2>1, <2>3 DEF Inv, Inv6, Inv7, Inv8, Chans
    <3>. QED
      BY <2>3, <3>1 DEF Stored
  <2>4. CASE part \in {9, 10}
    <3>1. output # {} /\ names = {}
      BY <2>1, <2>4 DEF Inv, Inv9, Order9, Inv10, Chans
    <3>. QED
      BY <2>4, <3>1 DEF Stored
  <2>. QED
    BY <2>2, <2>3, <2>4 DEF Inv, Types, Parts
<1>. QED
  BY <1>1, PipelineInvariant, PTL
--------------------------------------------------------------------------------
(* Induction on numbers, with a set for the predicate.                           *)
LEMMA LeastExists ==
  ASSUME NEW T, T \subseteq Nat, T # {}
  PROVE  \E x \in T : \A y \in T : x <= y
<1>. DEFINE R == {ss \in Nat \X Nat : ss[1] < ss[2]}
<1>1. IsWellFoundedOn(R, Nat)
  BY NatLessThanWellFounded DEF OpToRel
<1>2. PICK x \in T : \A y \in T : ~ (<<y, x>> \in R)
  <2>. HIDE DEF R
  <2>. QED
    BY <1>1, WFMin
<1>3. ASSUME NEW y \in T PROVE x <= y
  <2>1. x \in Nat /\ y \in Nat
    OBVIOUS
  <2>2. y < x => <<y, x>> \in R
    BY <2>1
  <2>. QED
    BY <1>2, <2>1, <2>2
<1>. QED
  BY <1>3

(* What every number hands on to the next ones, all numbers have.                *)
LEMMA StrongInduction ==
  ASSUME NEW N \in Nat, NEW T,
         \A n \in 0..N : (\A m \in 0..n - 1 : m \in T) => n \in T
  PROVE  \A n \in 0..N : n \in T
<1>. DEFINE U == {n \in 0..N : n \notin T}
<1>. SUFFICES ASSUME U # {} PROVE FALSE
  OBVIOUS
<1>1. U \subseteq Nat
  OBVIOUS
<1>2. PICK x \in U : \A y \in U : x <= y
  <2>. HIDE DEF U
  <2>. QED
    BY <1>1, LeastExists
<1>3. ASSUME NEW m \in 0..x - 1 PROVE m \in T
  <2>1. m \notin U
    BY <1>1, <1>2
  <2>2. m \in 0..N
    OBVIOUS
  <2>. QED
    BY <2>1, <2>2
<1>. QED
  BY <1>2, <1>3

(* The same from one number to the next.                                         *)
LEMMA Induction ==
  ASSUME NEW N \in Nat, NEW T, 0 \in T, \A n \in 1..N : n - 1 \in T => n \in T
  PROVE  \A n \in 0..N : n \in T
<1>1. ASSUME NEW n \in 0..N, \A m \in 0..n - 1 : m \in T PROVE n \in T
  <2>1. CASE n = 0
    BY <2>1
  <2>2. CASE n # 0
    BY <1>1, <2>2
  <2>. QED
    BY <2>1, <2>2
<1>. QED
  BY <1>1, StrongInduction

(* A function that is computed from its value for the number before exists.      *)
IsScan(f, N, S, base, step) ==
  f \in [0..N -> S] /\ f[0] = base /\ \A n \in 1..N : f[n] = step[n][f[n - 1]]

(* There is such a function, so that the recursive definition of it is one.      *)
LEMMA ScanExists ==
  ASSUME NEW N \in Nat, NEW S, NEW base \in S, NEW step \in [1..N -> [S -> S]]
  PROVE  \E f : IsScan(f, N, S, base, step)
<1>. DEFINE Good(f, m) == f[0] = base /\ \A n \in 1..m : f[n] = step[n][f[n - 1]]
            T == {m \in 0..N : \E f \in [0..m -> S] : Good(f, m)}
<1>1. 0 \in T
  <2>. DEFINE f == [n \in 0..0 |-> base]
  <2>1. f \in [0..0 -> S] /\ Good(f, 0)
    OBVIOUS
  <2>. HIDE DEF f, Good
  <2>. QED
    BY <2>1
<1>2. ASSUME NEW n \in 1..N, n - 1 \in T PROVE n \in T
  <2>1. PICK f \in [0..n - 1 -> S] : Good(f, n - 1)
    BY <1>2
  <2>. DEFINE g == [i \in 0..n |-> IF i = n THEN step[n][f[n - 1]] ELSE f[i]]
  <2>2. g \in [0..n -> S]
    <3>1. step[n][f[n - 1]] \in S
      OBVIOUS
    <3>. QED
      BY <3>1
  <2>3. Good(g, n)
    <3>1. g[0] = base
      BY <2>1
    <3>2. ASSUME NEW i \in 1..n PROVE g[i] = step[i][g[i - 1]]
      <4>1. g[i - 1] = f[i - 1]
        OBVIOUS
      <4>2. CASE i = n
        BY <4>1, <4>2
      <4>3. CASE i # n
        <5>1. i \in 1..n - 1
          BY <4>3
        <5>2. g[i] = f[i]
          BY <5>1
        <5>. QED
          BY <2>1, <4>1, <5>1, <5>2
      <4>. QED
        BY <4>2, <4>3
    <3>. QED
      BY <3>1, <3>2
  <2>. HIDE DEF g, Good
  <2>. QED
    BY <2>2, <2>3
<1>. HIDE DEF T
<1>3. \A n \in 0..N : n \in T
  BY <1>1, <1>2, Induction
<1>4. N \in T
  BY <1>3
<1>. QED
  BY <1>4 DEF T, IsScan

(* The digits in hand are those back to the last cell that is none.              *)
LEMMA CurStrIs ==
  ASSUME NEW string \in Seq(Cells), NEW n \in 0..Len(string), NEW b \in 0..n,
         b = 0 \/ string[b] \notin Digits, \A k \in b + 1..n : string[k] \in Digits
  PROVE  CurStr(string, n) = SubSeq(string, b + 1, n)
<1>. DEFINE step == [i \in 1..n |-> [cells \in Seq(Cells) |->
                       IF string[i] \in Digits THEN Append(cells, string[i]) ELSE <<>>]]
            Is(f) == f = [i \in 0..n |-> IF i > 0 /\ string[i] \in Digits
                                          THEN Append(f[i - 1], string[i]) ELSE <<>>]
            curstr == CHOOSE f : Is(f)
<1>1. step \in [1..n -> [Seq(Cells) -> Seq(Cells)]]
  OBVIOUS
<1>2. PICK f \in [0..n -> Seq(Cells)] : f[0] = <<>> /\ \A i \in 1..n : f[i] = step[i][f[i - 1]]
  <2>1. <<>> \in Seq(Cells) /\ n \in Nat
    OBVIOUS
  <2>2. \E f : IsScan(f, n, Seq(Cells), <<>>, step)
    <3>. HIDE DEF step
    <3>. QED
      BY <1>1, <2>1, ScanExists
  <2>. QED
    BY <2>2 DEF IsScan
<1>3. Is(f)
  <2>1. ASSUME NEW i \in 0..n
        PROVE  f[i] = IF i > 0 /\ string[i] \in Digits THEN Append(f[i - 1], string[i]) ELSE <<>>
    <3>1. CASE i = 0
      BY <1>2, <3>1
    <3>2. CASE i > 0
      <4>1. i \in 1..n /\ f[i - 1] \in Seq(Cells)
        BY <3>2
      <4>. QED
        BY <1>2, <3>2, <4>1
    <3>. QED
      BY <3>1, <3>2
  <2>. QED
    BY <2>1
<1>4. Is(curstr)
  <2>. HIDE DEF Is
  <2>. QED
    BY <1>3
<1>5. ASSUME NEW i \in 0..n
      PROVE  curstr[i] = IF i > 0 /\ string[i] \in Digits THEN Append(curstr[i - 1], string[i])
                         ELSE <<>>
  <2>. HIDE DEF curstr
  <2>. DEFINE g == [j \in 0..n |-> IF j > 0 /\ string[j] \in Digits
                                          THEN Append(curstr[j - 1], string[j]) ELSE <<>>]
  <2>1. curstr = g
    BY <1>4
  <2>2. g[i] = IF i > 0 /\ string[i] \in Digits THEN Append(curstr[i - 1], string[i]) ELSE <<>>
    OBVIOUS
  <2>. HIDE DEF g
  <2>. QED
    BY <2>1, <2>2
<1>6. CurStr(string, n) = curstr[n]
  BY DEF CurStr
<1>. HIDE DEF step, Is, curstr
<1>7. ASSUME NEW i \in 0..n, \A m \in 0..i - 1 : m >= b => curstr[m] = SubSeq(string, b + 1, m),
             i >= b
      PROVE  curstr[i] = SubSeq(string, b + 1, i)
  <2>1. CASE i = b
    <3>1. curstr[i] = <<>>
      BY <1>5, <2>1
    <3>2. SubSeq(string, b + 1, b) = <<>>
      OBVIOUS
    <3>. QED
      BY <2>1, <3>1, <3>2
  <2>2. CASE i > b
    <3>1. i - 1 \in 0..i - 1 /\ i - 1 >= b /\ i > 0 /\ i \in b + 1..n
      BY <2>2
    <3>2. curstr[i - 1] = SubSeq(string, b + 1, i - 1)
      BY <1>7, <3>1
    <3>3. curstr[i] = Append(curstr[i - 1], string[i])
      BY <1>5, <3>1
    <3>4. Append(SubSeq(string, b + 1, i - 1), string[i]) = SubSeq(string, b + 1, i)
      BY <3>1
    <3>. QED
      BY <3>2, <3>3, <3>4
  <2>. QED
    BY <1>7, <2>1, <2>2
<1>. DEFINE T == {i \in 0..n : i >= b => curstr[i] = SubSeq(string, b + 1, i)}
<1>8. ASSUME NEW i \in 0..n, \A m \in 0..i - 1 : m \in T PROVE i \in T
  BY <1>7, <1>8
<1>9. n \in T
  <2>. HIDE DEF T
  <2>1. n \in Nat /\ n \in 0..n
    OBVIOUS
  <2>. QED
    BY <1>8, <2>1, StrongInduction, Zenon
<1>. QED
  BY <1>6, <1>9

(* The community modules' sum of a function takes its elements in any order.     *)
LEMMA SumIs ==
  ASSUME NEW S, IsFiniteSet(S), NEW w \in [S -> Nat]
  PROVE  \E sum \in [SUBSET S -> Nat] :
           /\ sum[{}] = 0
           /\ \A s \in SUBSET S : \A x \in s : sum[s] = w[x] + sum[s \ {x}]
           /\ SumFunction(w) = sum[S]
<1>. DEFINE any(s) == CHOOSE x \in s : TRUE
            Small(m) == {s \in SUBSET S : Cardinality(s) <= m}
            Good(g, m) == \A s \in Small(m) :
                            g[s] = IF s = {} THEN 0 ELSE w[any(s)] + g[s \ {any(s)}]
            T == {m \in 0..Cardinality(S) : \E g \in [Small(m) -> Nat] : Good(g, m)}
            Is(g) == g = [s \in SUBSET S |->
                            IF s = {} THEN 0 ELSE w[any(s)] + g[s \ {any(s)}]]
            sum == CHOOSE g : Is(g)
<1>1. /\ Cardinality(S) \in Nat
      /\ \A s \in SUBSET S : IsFiniteSet(s) /\ Cardinality(s) \in 0..Cardinality(S)
      /\ \A s \in SUBSET S : \A x \in s : Cardinality(s \ {x}) = Cardinality(s) - 1
      /\ \A s \in SUBSET S : Cardinality(s) = 0 => s = {}
  <2>1. Cardinality(S) \in Nat
    BY FS_CardinalityType
  <2>2. ASSUME NEW s \in SUBSET S
        PROVE  /\ IsFiniteSet(s) /\ Cardinality(s) \in 0..Cardinality(S)
               /\ Cardinality(s) = 0 => s = {}
               /\ \A x \in s : Cardinality(s \ {x}) = Cardinality(s) - 1
    <3>1. IsFiniteSet(s) /\ Cardinality(s) <= Cardinality(S)
      BY FS_Subset
    <3>2. Cardinality(s) \in Nat
      BY <3>1, FS_CardinalityType
    <3>3. Cardinality(s) = 0 => s = {}
      BY <3>1, FS_EmptySet
    <3>4. ASSUME NEW x \in s PROVE Cardinality(s \ {x}) = Cardinality(s) - 1
      BY <3>1, FS_RemoveElement
    <3>. QED
      BY <2>1, <3>1, <3>2, <3>3, <3>4
  <2>. QED
    BY <2>1, <2>2
<1>2. \A s : s # {} => any(s) \in s
  OBVIOUS
<1>. HIDE DEF any
<1>3. 0 \in T
  <2>. DEFINE g == [s \in Small(0) |-> 0]
  <2>1. \A s \in Small(0) : s = {}
    BY <1>1
  <2>2. g \in [Small(0) -> Nat] /\ Good(g, 0)
    BY <2>1
  <2>. HIDE DEF g, Good, Small
  <2>. QED
    BY <1>1, <2>2
<1>4. ASSUME NEW m \in 1..Cardinality(S), m - 1 \in T PROVE m \in T
  <2>1. PICK f \in [Small(m - 1) -> Nat] : Good(f, m - 1)
    BY <1>4
  <2>. DEFINE g == [s \in Small(m) |-> IF s = {} THEN 0 ELSE w[any(s)] + f[s \ {any(s)}]]
  <2>2. ASSUME NEW s \in Small(m), s # {}
        PROVE  any(s) \in S /\ s \ {any(s)} \in Small(m - 1) /\ s \ {any(s)} \in Small(m)
    BY <1>1, <1>2, <2>2
  <2>3. g \in [Small(m) -> Nat]
    <3>1. ASSUME NEW s \in Small(m), s # {} PROVE w[any(s)] + f[s \ {any(s)}] \in Nat
      <4>1. w[any(s)] \in Nat /\ f[s \ {any(s)}] \in Nat
        BY <2>2, <3>1
      <4>. QED
        BY <4>1
    <3>. QED
      BY <3>1
  <2>4. ASSUME NEW s \in Small(m - 1) PROVE s \in Small(m) /\ g[s] = f[s]
    <3>1. s \in Small(m)
      BY <1>1
    <3>2. f[s] = IF s = {} THEN 0 ELSE w[any(s)] + f[s \ {any(s)}]
      BY <2>1
    <3>. QED
      BY <3>1, <3>2
  <2>5. ASSUME NEW s \in Small(m)
        PROVE  g[s] = IF s = {} THEN 0 ELSE w[any(s)] + g[s \ {any(s)}]
    BY <2>2, <2>4
  <2>6. Good(g, m)
    BY <2>5
  <2>. HIDE DEF g, Good, Small
  <2>. QED
    BY <2>3, <2>6
<1>5. PICK g \in [SUBSET S -> Nat] : Is(g)
  <2>1. Cardinality(S) \in T
    <3>. HIDE DEF T
    <3>1. \A m \in 0..Cardinality(S) : m \in T
      BY <1>1, <1>3, <1>4, Induction
    <3>. QED
      BY <1>1, <3>1
  <2>2. PICK g \in [Small(Cardinality(S)) -> Nat] : Good(g, Cardinality(S))
    BY <2>1
  <2>3. Small(Cardinality(S)) = SUBSET S
    BY <1>1
  <2>4. g \in [SUBSET S -> Nat]
    BY <2>2, <2>3
  <2>5. Is(g)
    <3>1. \A s \in SUBSET S : g[s] = IF s = {} THEN 0 ELSE w[any(s)] + g[s \ {any(s)}]
      BY <2>2, <2>3
    <3>. QED
      BY <2>4, <3>1
  <2>. QED
    BY <2>4, <2>5
<1>6. Is(sum)
  <2>. HIDE DEF Is
  <2>. QED
    BY <1>5
<1>7. SumFunction(w) = sum[S]
  <2>1. DOMAIN w = S
    OBVIOUS
  <2>. QED
    BY <2>1 DEF SumFunction, SumFunctionOnSet, FoldFunctionOnSet, MapThenFoldSet, any
<1>. HIDE DEF sum
<1>8. ASSUME NEW s \in SUBSET S
      PROVE  sum[s] = IF s = {} THEN 0 ELSE w[any(s)] + sum[s \ {any(s)}]
  <2>. DEFINE h == [t \in SUBSET S |-> IF t = {} THEN 0 ELSE w[any(t)] + sum[t \ {any(t)}]]
  <2>1. sum = h
    BY <1>6
  <2>2. h[s] = IF s = {} THEN 0 ELSE w[any(s)] + sum[s \ {any(s)}]
    OBVIOUS
  <2>. HIDE DEF h
  <2>. QED
    BY <2>1, <2>2
<1>. HIDE DEF Is, T, Good, Small
<1>9. ASSUME NEW s \in SUBSET S,
             \A t \in SUBSET S : Cardinality(t) < Cardinality(s) =>
               sum[t] \in Nat /\ \A x \in t : sum[t] = w[x] + sum[t \ {x}]
      PROVE  sum[s] \in Nat /\ \A x \in s : sum[s] = w[x] + sum[s \ {x}]
  <2>1. CASE s = {}
    BY <1>8, <2>1
  <2>2. CASE s # {}
    <3>. DEFINE y == any(s)
    <3>1. y \in s /\ y \in S /\ w[y] \in Nat /\ s \ {y} \in SUBSET S
      BY <1>2, <2>2
    <3>2. sum[s] = w[y] + sum[s \ {y}]
      BY <1>8, <2>2
    <3>3. Cardinality(s \ {y}) < Cardinality(s)
      BY <1>1, <3>1
    <3>. HIDE DEF y
    <3>4. sum[s] \in Nat
      BY <1>9, <3>1, <3>2, <3>3
    <3>5. ASSUME NEW x \in s, x # y PROVE sum[s] = w[x] + sum[s \ {x}]
      <4>1. /\ x \in s \ {y} /\ y \in s \ {x} /\ s \ {x} \in SUBSET S /\ w[x] \in Nat
            /\ (s \ {y}) \ {x} = (s \ {x}) \ {y} /\ (s \ {x}) \ {y} \in SUBSET S
        BY <3>1, <3>5
      <4>2. /\ Cardinality(s \ {x}) < Cardinality(s)
            /\ Cardinality((s \ {x}) \ {y}) < Cardinality(s)
        <5>1. Cardinality(s) \in Nat /\ Cardinality(s \ {x}) = Cardinality(s) - 1
          BY <1>1
        <5>2. Cardinality((s \ {x}) \ {y}) = Cardinality(s \ {x}) - 1
          BY <1>1, <4>1
        <5>. QED
          BY <5>1, <5>2
      <4>3. sum[s \ {y}] = w[x] + sum[(s \ {x}) \ {y}]
        <5>1. sum[s \ {y}] = w[x] + sum[(s \ {y}) \ {x}]
          BY <1>9, <3>1, <3>3, <4>1
        <5>. QED
          BY <4>1, <5>1
      <4>4. sum[s \ {x}] = w[y] + sum[(s \ {x}) \ {y}]
        BY <1>9, <4>1, <4>2
      <4>5. sum[(s \ {x}) \ {y}] \in Nat
        BY <1>9, <4>1, <4>2
      <4>. QED
        BY <3>1, <3>2, <4>1, <4>3, <4>4, <4>5
    <3>. QED
      BY <3>2, <3>4, <3>5
  <2>. QED
    BY <2>1, <2>2
<1>. DEFINE Sums(s) == sum[s] \in Nat /\ \A x \in s : sum[s] = w[x] + sum[s \ {x}]
            U == {m \in 0..Cardinality(S) : \A s \in SUBSET S : Cardinality(s) = m => Sums(s)}
<1>10. ASSUME NEW m \in 0..Cardinality(S), \A k \in 0..m - 1 : k \in U PROVE m \in U
  <2>1. ASSUME NEW s \in SUBSET S, Cardinality(s) = m PROVE Sums(s)
    <3>1. ASSUME NEW t \in SUBSET S, Cardinality(t) < Cardinality(s) PROVE Sums(t)
      <4>1. Cardinality(t) \in 0..m - 1
        BY <1>1, <2>1, <3>1
      <4>. QED
        BY <1>10, <4>1
    <3>. QED
      BY <1>9, <3>1
  <2>. HIDE DEF Sums
  <2>. QED
    BY <2>1
<1>11. \A s \in SUBSET S : Sums(s)
  <2>1. \A m \in 0..Cardinality(S) : m \in U
    <3>. HIDE DEF U
    <3>. QED
      BY <1>1, <1>10, StrongInduction
  <2>. HIDE DEF Sums
  <2>. QED
    BY <1>1, <2>1
<1>12. sum \in [SUBSET S -> Nat]
  <2>1. sum = [s \in SUBSET S |-> sum[s]]
    BY <1>6 DEF Is
  <2>. QED
    BY <1>11, <2>1
<1>. QED
  BY <1>7, <1>8, <1>11, <1>12

(* Each power of ten is ten times the one before.                                *)
LEMMA PowersAre ==
  /\ PowerOfTen(0) = 1
  /\ \A n \in Nat : PowerOfTen(n) \in Nat /\ PowerOfTen(n + 1) = 10 * PowerOfTen(n)
<1>. DEFINE Is(n, f) == f = [k \in 0..n |-> IF k = 0 THEN 1 ELSE 10 * f[k - 1]]
            power(n) == CHOOSE f : Is(n, f)
<1>1. ASSUME NEW n \in Nat PROVE Is(n, power(n)) /\ PowerOfTen(n) = power(n)[n]
  <2>. DEFINE step == [k \in 1..n |-> [m \in Nat |-> 10 * m]]
  <2>1. step \in [1..n -> [Nat -> Nat]]
    OBVIOUS
  <2>2. PICK f : IsScan(f, n, Nat, 1, step)
    <3>. HIDE DEF step
    <3>. QED
      BY <2>1, ScanExists
  <2>3. f \in [0..n -> Nat] /\ f[0] = 1 /\ \A k \in 1..n : f[k] = 10 * f[k - 1]
    <3>1. f \in [0..n -> Nat] /\ f[0] = 1 /\ \A k \in 1..n : f[k] = step[k][f[k - 1]]
      BY <2>2 DEF IsScan
    <3>2. ASSUME NEW k \in 1..n PROVE f[k] = 10 * f[k - 1]
      <4>1. f[k - 1] \in Nat
        BY <3>1
      <4>. QED
        BY <3>1, <4>1
    <3>. QED
      BY <3>1, <3>2
  <2>4. \A k \in 0..n : f[k] = IF k = 0 THEN 1 ELSE 10 * f[k - 1]
    BY <2>3
  <2>5. Is(n, f)
    BY <2>3, <2>4
  <2>6. Is(n, power(n))
    <3>. HIDE DEF Is
    <3>. QED
      BY <2>5
  <2>. QED
    BY <2>6 DEF PowerOfTen
<1>. HIDE DEF power
<1>2. ASSUME NEW n \in Nat, NEW k \in 0..n
      PROVE  power(n)[k] = IF k = 0 THEN 1 ELSE 10 * power(n)[k - 1]
  <2>. DEFINE h == [j \in 0..n |-> IF j = 0 THEN 1 ELSE 10 * power(n)[j - 1]]
  <2>1. power(n) = h
    BY <1>1
  <2>2. h[k] = IF k = 0 THEN 1 ELSE 10 * power(n)[k - 1]
    OBVIOUS
  <2>. HIDE DEF h
  <2>. QED
    BY <2>1, <2>2
<1>3. ASSUME NEW n \in Nat, NEW k \in 0..n
      PROVE  power(n)[k] \in Nat /\ power(n)[k] = power(n + 1)[k]
  <2>. DEFINE T == {j \in 0..n : power(n)[j] \in Nat /\ power(n)[j] = power(n + 1)[j]}
  <2>1. 0 \in T
    BY <1>2
  <2>2. ASSUME NEW j \in 1..n, j - 1 \in T PROVE j \in T
    <3>1. power(n)[j] = 10 * power(n)[j - 1]
      BY <1>2
    <3>2. power(n + 1)[j] = 10 * power(n + 1)[j - 1]
      BY <1>2
    <3>. QED
      BY <2>2, <3>1, <3>2
  <2>3. \A j \in 0..n : j \in T
    <3>. HIDE DEF T
    <3>. QED
      BY <2>1, <2>2, Induction
  <2>. QED
    BY <2>3
<1>4. ASSUME NEW n \in Nat PROVE PowerOfTen(n) \in Nat /\ PowerOfTen(n + 1) = 10 * PowerOfTen(n)
  <2>1. power(n)[n] \in Nat /\ power(n)[n] = power(n + 1)[n]
    BY <1>3
  <2>2. power(n + 1)[n + 1] = 10 * power(n + 1)[n]
    BY <1>2
  <2>. QED
    BY <1>1, <2>1, <2>2
<1>5. PowerOfTen(0) = 1
  BY <1>1, <1>2
<1>. QED
  BY <1>4, <1>5

(* atoi goes through the digits once, each one makes ten times the value and more.  *)
LEMMA AtoiScans ==
  ASSUME NEW run \in Seq(Digits)
  PROVE  \E f \in [0..Len(run) -> Nat] :
           /\ f[0] = 0 /\ Atoi(run) = f[Len(run)]
           /\ \A n \in 1..Len(run) : f[n] = 10 * f[n - 1] + run[n]
<1>. DEFINE L == Len(run)
            step == [n \in 1..L |-> [m \in Nat |-> 10 * m + run[n]]]
            Is(f) == f = [n \in 0..L |-> IF n = 0 THEN 0 ELSE 10 * f[n - 1] + run[n]]
            value == CHOOSE f : Is(f)
<1>1. L \in Nat /\ DOMAIN run = 1..L /\ \A i \in 1..L : run[i] \in Nat
  BY DEF Digits
<1>2. Is(value)
  <2>1. step \in [1..L -> [Nat -> Nat]]
    BY <1>1
  <2>2. PICK f : IsScan(f, L, Nat, 0, step)
    <3>. HIDE DEF step, L
    <3>. QED
      BY <1>1, <2>1, ScanExists
  <2>3. f \in [0..L -> Nat] /\ f[0] = 0 /\ \A n \in 1..L : f[n] = 10 * f[n - 1] + run[n]
    <3>1. f \in [0..L -> Nat] /\ f[0] = 0 /\ \A n \in 1..L : f[n] = step[n][f[n - 1]]
      <4>. HIDE DEF step, L
      <4>. QED
        BY <2>2 DEF IsScan
    <3>2. ASSUME NEW n \in 1..L PROVE f[n] = 10 * f[n - 1] + run[n]
      <4>1. f[n - 1] \in Nat
        <5>. HIDE DEF L, step
        <5>1. n - 1 \in 0..L
          BY <1>1
        <5>. QED
          BY <3>1, <5>1
      <4>. QED
        BY <3>1, <4>1
    <3>. QED
      BY <3>1, <3>2
  <2>4. \A n \in 0..L : f[n] = IF n = 0 THEN 0 ELSE 10 * f[n - 1] + run[n]
    BY <2>3
  <2>5. Is(f)
    BY <2>3, <2>4
  <2>. HIDE DEF Is
  <2>. QED
    BY <2>5
<1>3. Atoi(run) = value[L]
  BY DEF Atoi
<1>. HIDE DEF value, L
<1>4. ASSUME NEW n \in 0..L PROVE value[n] = IF n = 0 THEN 0 ELSE 10 * value[n - 1] + run[n]
  <2>. DEFINE h == [j \in 0..L |-> IF j = 0 THEN 0 ELSE 10 * value[j - 1] + run[j]]
  <2>1. value = h
    BY <1>2
  <2>2. h[n] = IF n = 0 THEN 0 ELSE 10 * value[n - 1] + run[n]
    OBVIOUS
  <2>. HIDE DEF h
  <2>. QED
    BY <2>1, <2>2
<1>. HIDE DEF Is
<1>5. value[0] = 0 /\ \A n \in 1..L : value[n] = 10 * value[n - 1] + run[n]
  BY <1>1, <1>4
<1>. DEFINE T == {n \in 0..L : value[n] \in Nat}
<1>6. 0 \in T
  BY <1>1, <1>5
<1>7. ASSUME NEW n \in 1..L, n - 1 \in T PROVE n \in T
  BY <1>1, <1>5, <1>7
<1>8. \A n \in 0..L : n \in T
  <2>. HIDE DEF T
  <2>. QED
    BY <1>1, <1>6, <1>7, Induction
<1>9. value = [n \in 0..L |-> value[n]]
  <2>. DEFINE h == [j \in 0..L |-> IF j = 0 THEN 0 ELSE 10 * value[j - 1] + run[j]]
  <2>1. value = h
    BY <1>2 DEF Is
  <2>2. h = [n \in 0..L |-> h[n]]
    OBVIOUS
  <2>. HIDE DEF h
  <2>. QED
    BY <2>1, <2>2
<1>10. value \in [0..L -> Nat]
  BY <1>8, <1>9
<1>. QED
  BY <1>3, <1>5, <1>10 DEF L

(* One more digit is ten times the value, and the digit.                            *)
LEMMA AtoiOfMore ==
  ASSUME NEW run \in Seq(Digits), NEW d \in Digits
  PROVE  Atoi(Append(run, d)) = 10 * Atoi(run) + d
<1>1. PICK L \in Nat : L = Len(run)
  OBVIOUS
<1>2. PICK longer \in Seq(Digits) : /\ longer = Append(run, d) /\ Len(longer) = L + 1
                                    /\ longer[L + 1] = d /\ \A i \in 1..L : longer[i] = run[i]
  <2>1. Append(run, d) \in Seq(Digits) /\ Len(Append(run, d)) = L + 1
    BY <1>1, AppendProperties
  <2>2. Append(run, d)[L + 1] = d /\ \A i \in 1..L : Append(run, d)[i] = run[i]
    BY <1>1, AppendProperties
  <2>. QED
    BY <2>1, <2>2
<1>3. PICK f \in [0..L -> Nat] : /\ f[0] = 0 /\ Atoi(run) = f[L]
                                 /\ \A n \in 1..L : f[n] = 10 * f[n - 1] + run[n]
  BY <1>1, AtoiScans
<1>4. PICK g \in [0..L + 1 -> Nat] : /\ g[0] = 0 /\ Atoi(longer) = g[L + 1]
                                     /\ \A n \in 1..L + 1 : g[n] = 10 * g[n - 1] + longer[n]
  BY <1>2, AtoiScans
<1>. DEFINE T == {n \in 0..L : g[n] = f[n]}
<1>5. 0 \in T
  BY <1>3, <1>4
<1>6. ASSUME NEW n \in 1..L, n - 1 \in T PROVE n \in T
  <2>1. n \in 1..L + 1 /\ n - 1 \in 0..L /\ g[n - 1] = f[n - 1] /\ longer[n] = run[n]
    BY <1>2, <1>6
  <2>. QED
    BY <1>3, <1>4, <2>1
<1>7. L \in T
  <2>. HIDE DEF T
  <2>1. L \in 0..L
    OBVIOUS
  <2>. QED
    BY <1>5, <1>6, <2>1, Induction
<1>8. g[L + 1] = 10 * g[L] + d
  <2>1. L + 1 \in 1..L + 1 /\ (L + 1) - 1 = L
    OBVIOUS
  <2>. QED
    BY <1>2, <1>4, <2>1
<1>. QED
  BY <1>2, <1>3, <1>4, <1>7, <1>8

(* atoi, which adds a digit at a time, computes the value that the digits have by *)
(* their places.                                                                  *)
LEMMA AtoiIs ==
  ASSUME NEW run \in Seq(Digits)
  PROVE  Atoi(run) \in Nat /\ Atoi(run) = Value(run)
<1>. DEFINE L == Len(run)
            w == [i \in 1..L |-> run[i] * PowerOfTen(L - i)]
<1>1. L \in Nat /\ DOMAIN run = 1..L /\ \A i \in 1..L : run[i] \in Nat
  BY DEF Digits
<1>2. PICK value \in [0..L -> Nat] : /\ value[0] = 0 /\ Atoi(run) = value[L]
                                     /\ \A n \in 1..L : value[n] = 10 * value[n - 1] + run[n]
  BY AtoiScans
<1>. HIDE DEF L
<1>3. Atoi(run) = value[L]
  BY <1>2
<1>4. ASSUME NEW n \in 0..L PROVE value[n] = IF n = 0 THEN 0 ELSE 10 * value[n - 1] + run[n]
  BY <1>1, <1>2
<1>5. w \in [1..L -> Nat] /\ IsFiniteSet(1..L) /\ Value(run) = SumFunction(w)
  <2>1. ASSUME NEW i \in 1..L PROVE run[i] * PowerOfTen(L - i) \in Nat
    <3>1. L - i \in Nat
      BY <1>1
    <3>2. PowerOfTen(L - i) \in Nat /\ run[i] \in Nat
      BY <1>1, <3>1, PowersAre
    <3>. QED
      BY <3>2
  <2>2. IsFiniteSet(1..L)
    BY <1>1, FS_Interval
  <2>. QED
    BY <1>1, <2>1, <2>2 DEF Value, L
<1>6. PICK sum \in [SUBSET (1..L) -> Nat] :
        /\ sum[{}] = 0
        /\ \A s \in SUBSET (1..L) : \A x \in s : sum[s] = w[x] + sum[s \ {x}]
        /\ SumFunction(w) = sum[1..L]
  <2>. HIDE DEF w
  <2>. QED
    BY <1>5, SumIs
<1>. DEFINE T == {n \in 0..L : value[n] \in Nat /\ sum[1..n] = value[n] * PowerOfTen(L - n)}
<1>7. 0 \in T
  <2>1. PowerOfTen(L) \in Nat /\ L - 0 = L /\ 1..0 = {}
    BY <1>1, PowersAre
  <2>2. value[0] = 0
    BY <1>1, <1>4
  <2>3. 0 * PowerOfTen(L) = 0
    BY <2>1
  <2>. QED
    BY <1>1, <1>6, <2>1, <2>2, <2>3
<1>8. ASSUME NEW n \in 1..L, n - 1 \in T PROVE n \in T
  <2>1. 1..n \in SUBSET (1..L) /\ n \in 1..n /\ (1..n) \ {n} = 1..n - 1
    BY <1>1
  <2>2. sum[1..n] = w[n] + sum[1..n - 1]
    <3>. HIDE DEF w
    <3>1. sum[1..n] = w[n] + sum[(1..n) \ {n}]
      BY <1>6, <2>1
    <3>. QED
      BY <2>1, <3>1
  <2>3. PowerOfTen(L - n) \in Nat /\ PowerOfTen(L - (n - 1)) = 10 * PowerOfTen(L - n)
    <3>1. L - n \in Nat /\ L - n + 1 = L - (n - 1)
      BY <1>1
    <3>. QED
      BY <3>1, PowersAre
  <2>4. value[n] = 10 * value[n - 1] + run[n]
    BY <1>1, <1>4
  <2>5. w[n] = run[n] * PowerOfTen(L - n) /\ run[n] \in Nat
    BY <1>1
  <2>6. value[n - 1] \in Nat /\ sum[1..n - 1] = value[n - 1] * (10 * PowerOfTen(L - n))
    BY <1>8, <2>3
  <2>7. \A r, v, p \in Nat : r * p + v * (10 * p) = (10 * v + r) * p
    OBVIOUS
  <2>8. sum[1..n] = value[n] * PowerOfTen(L - n)
    BY <2>2, <2>3, <2>4, <2>5, <2>6, <2>7
  <2>. QED
    BY <1>1, <2>4, <2>5, <2>6, <2>8
<1>9. L \in T
  <2>. HIDE DEF T
  <2>1. \A n \in 0..L : n \in T
    BY <1>1, <1>7, <1>8, Induction
  <2>. QED
    BY <1>1, <2>1
<1>10. PowerOfTen(L - L) = 1
  BY <1>1, PowersAre
<1>. QED
  BY <1>3, <1>5, <1>6, <1>9, <1>10

(* The greatest of a set of integers, which Max takes.                           *)
LEMMA MaxIs ==
  ASSUME NEW T, T \subseteq Int, NEW m \in T, \A y \in T : m >= y
  PROVE  Max(T) = m
<1>1. Max(T) \in T /\ \A y \in T : Max(T) >= y
  BY DEF Max
<1>2. Max(T) >= m /\ m >= Max(T) /\ Max(T) \in Int /\ m \in Int
  BY <1>1
<1>. QED
  BY <1>2

(* Before every cell there is a last one that is no digit, or the beginning.     *)
LEMMA RunBegins ==
  ASSUME NEW string \in Seq(Cells), NEW n \in 0..Len(string)
  PROVE  \E b \in 0..n : /\ b = 0 \/ string[b] \notin Digits
                         /\ \A k \in b + 1..n : string[k] \in Digits
<1>. DEFINE Begins(b, m) == /\ b = 0 \/ string[b] \notin Digits
                            /\ \A k \in b + 1..m : string[k] \in Digits
            T == {m \in 0..n : \E b \in 0..m : Begins(b, m)}
<1>1. 0 \in T
  <2>1. Begins(0, 0)
    OBVIOUS
  <2>. QED
    BY <2>1
<1>2. ASSUME NEW m \in 1..n, m - 1 \in T PROVE m \in T
  <2>1. CASE string[m] \notin Digits
    <3>1. Begins(m, m)
      BY <2>1
    <3>. QED
      BY <3>1
  <2>2. CASE string[m] \in Digits
    <3>1. PICK b \in 0..m - 1 : Begins(b, m - 1)
      BY <1>2
    <3>2. ASSUME NEW k \in b + 1..m PROVE string[k] \in Digits
      BY <2>2, <3>1
    <3>3. Begins(b, m) /\ b \in 0..m
      BY <3>1, <3>2
    <3>. QED
      BY <3>3
  <2>. QED
    BY <2>1, <2>2
<1>3. \A m \in 0..n : m \in T
  <2>. HIDE DEF T
  <2>. QED
    BY <1>1, <1>2, Induction
<1>4. n \in T
  <2>. HIDE DEF T
  <2>. n \in 0..n
    OBVIOUS
  <2>. QED
    BY <1>3
<1>. QED
  BY <1>4

(* An element of a finite set of numbers is known by how many are below it.      *)
Below(T, n) == {k \in T : k < n}

(* No two elements of a set have equally many below them.                        *)
LEMMA BelowIs ==
  ASSUME NEW L \in Nat, NEW T, T \subseteq 1..L
  PROVE  /\ \A n : IsFiniteSet(Below(T, n)) /\ Cardinality(Below(T, n)) \in Nat
         /\ \A i, j \in T : Cardinality(Below(T, j)) = Cardinality(Below(T, i)) => i = j
<1>1. ASSUME NEW n PROVE IsFiniteSet(Below(T, n)) /\ Cardinality(Below(T, n)) \in Nat
  <2>1. IsFiniteSet(1..L)
    BY FS_Interval
  <2>2. Below(T, n) \in SUBSET (1..L)
    BY DEF Below
  <2>3. IsFiniteSet(Below(T, n))
    BY <2>1, <2>2, FS_Subset
  <2>. QED
    BY <2>3, FS_CardinalityType
<1>2. ASSUME NEW i \in T, NEW j \in T, j < i
      PROVE  Cardinality(Below(T, j)) < Cardinality(Below(T, i))
  <2>1. Below(T, j) \cup {j} \in SUBSET Below(T, i) /\ j \notin Below(T, j)
    <3>1. i \in Int /\ j \in Int
      OBVIOUS
    <3>2. ASSUME NEW k \in Below(T, j) PROVE k \in Below(T, i)
      <4>1. k \in T /\ k < j /\ k \in Int
        BY <3>2 DEF Below
      <4>. QED
        BY <1>2, <3>1, <4>1 DEF Below
    <3>3. j \in Below(T, i) /\ j \notin Below(T, j)
      BY <1>2, <3>1 DEF Below
    <3>. QED
      BY <3>2, <3>3
  <2>2. Cardinality(Below(T, j) \cup {j}) = Cardinality(Below(T, j)) + 1
    BY <1>1, <2>1, FS_AddElement
  <2>3. Cardinality(Below(T, j) \cup {j}) <= Cardinality(Below(T, i))
    BY <1>1, <2>1, FS_Subset
  <2>. QED
    BY <1>1, <2>2, <2>3
<1>3. ASSUME NEW i \in T, NEW j \in T, Cardinality(Below(T, j)) = Cardinality(Below(T, i))
      PROVE  i = j
  <2>1. ~(i < j) /\ ~(j < i)
    BY <1>1, <1>2, <1>3
  <2>. QED
    BY <2>1
<1>. QED
  BY <1>1, <1>3

(* Where the runs of digits begin, and the run that begins in cell i.            *)
Starts(string) == {i \in DOMAIN string :
                     string[i] \in Digits /\ (i = 1 \/ string[i - 1] \notin Digits)}
RunAt(string, i) ==
  SubSeq(string, i, Max({j \in i..Len(string) : \A k \in i..j : string[k] \in Digits}))
FirstNumbers(string, m) ==
  [n \in 1..m |-> Value(RunAt(string, CHOOSE i \in Starts(string) :
                                        Cardinality(Below(Starts(string), i)) = n - 1))]

(* The numbers of a text are those of the runs that begin in it, in order.       *)
LEMMA NumbersOfIs ==
  ASSUME NEW string
  PROVE  NumbersOf(string) = FirstNumbers(string, Cardinality(Starts(string)))
BY DEF NumbersOf, FirstNumbers, RunAt, Starts, Below

(* The run that begins at a cell ends before the first cell that is no digit.    *)
LEMMA RunAtIs ==
  ASSUME NEW string \in Seq(Cells), NEW i \in 1..Len(string), NEW n \in i + 1..Len(string) + 1,
         n = Len(string) + 1 \/ string[n] \notin Digits,
         \A k \in i..n - 1 : string[k] \in Digits
  PROVE  RunAt(string, i) = SubSeq(string, i, n - 1) /\ RunAt(string, i) \in Seq(Digits)
<1>. DEFINE T == {j \in i..Len(string) : \A k \in i..j : string[k] \in Digits}
<1>1. n - 1 \in T
  OBVIOUS
<1>2. ASSUME NEW j \in T PROVE n - 1 >= j
  <2>1. CASE j >= n
    <3>1. n \in i..j /\ n # Len(string) + 1
      BY <2>1
    <3>. QED
      BY <1>2, <3>1
  <2>2. CASE ~(j >= n)
    BY <2>2
  <2>. QED
    BY <2>1, <2>2
<1>3. T \subseteq Int
  OBVIOUS
<1>4. Max(T) = n - 1
  <2>. HIDE DEF T
  <2>. QED
    BY <1>1, <1>2, <1>3, MaxIs
<1>5. RunAt(string, i) = SubSeq(string, i, n - 1)
  BY <1>4 DEF RunAt
<1>6. SubSeq(string, i, n - 1) \in Seq(Digits)
  <2>1. Len(SubSeq(string, i, n - 1)) = n - i /\ n - i \in Nat
    OBVIOUS
  <2>2. ASSUME NEW k \in 1..n - i PROVE SubSeq(string, i, n - 1)[k] \in Digits
    <3>1. SubSeq(string, i, n - 1)[k] = string[i + k - 1] /\ i + k - 1 \in i..n - 1
      OBVIOUS
    <3>. QED
      BY <3>1
  <2>3. SubSeq(string, i, n - 1) = [k \in 1..n - i |-> SubSeq(string, i, n - 1)[k]]
    OBVIOUS
  <2>. QED
    BY <2>1, <2>2, <2>3
<1>. QED
  BY <1>5, <1>6

(* The next number is that of the run which begins at the next start.            *)
LEMMA FirstNumbersAre ==
  ASSUME NEW string \in Seq(Cells), NEW i \in Starts(string),
         NEW m \in Nat, m = Cardinality(Below(Starts(string), i))
  PROVE  FirstNumbers(string, m + 1) =
           Append(FirstNumbers(string, m), Value(RunAt(string, i)))
<1>. DEFINE S == Starts(string)
            nth(n) == Value(RunAt(string, CHOOSE j \in S : Cardinality(Below(S, j)) = n - 1))
<1>1. Len(string) \in Nat /\ S \subseteq 1..Len(string)
  BY DEF Starts
<1>. HIDE DEF S
<1>2. (CHOOSE j \in S : Cardinality(Below(S, j)) = (m + 1) - 1) = i
  <2>1. Cardinality(Below(S, i)) = (m + 1) - 1 /\ i \in S
    BY DEF S
  <2>2. \A j \in S : Cardinality(Below(S, j)) = (m + 1) - 1 => j = i
    BY <1>1, <2>1, BelowIs
  <2>. QED
    BY <2>1, <2>2
<1>3. FirstNumbers(string, m + 1) = [n \in 1..m + 1 |-> nth(n)]
  BY DEF FirstNumbers, S
<1>4. FirstNumbers(string, m) = [n \in 1..m |-> nth(n)]
  BY DEF FirstNumbers, S
<1>5. nth(m + 1) = Value(RunAt(string, i))
  BY <1>2
<1>. HIDE DEF nth
<1>6. Append([n \in 1..m |-> nth(n)], nth(m + 1)) = [n \in 1..m + 1 |-> nth(n)]
  OBVIOUS
<1>. QED
  BY <1>3, <1>4, <1>5, <1>6

(* From a start to the end of its run exactly one start comes to those before.   *)
LEMMA BelowNext ==
  ASSUME NEW L \in Nat, NEW T, T \subseteq 1..L, NEW b \in Nat, NEW n \in Nat, b + 2 <= n,
         b \notin T, b + 1 \in T, \A k \in b + 2..n - 1 : k \notin T
  PROVE  /\ Below(T, b + 1) = Below(T, b)
         /\ Cardinality(Below(T, n)) = Cardinality(Below(T, b)) + 1
<1>1. \A k \in T : k \in Int
  OBVIOUS
<1>2. \A k \in Int : k < b + 1 <=> k < b \/ k = b
  OBVIOUS
<1>3. Below(T, b + 1) = Below(T, b)
  BY <1>1, <1>2 DEF Below
<1>4. \A k \in T : k < n <=> k < b \/ k = b + 1
  <2>. TAKE k \in T
  <2>1. k \in Int /\ k # b /\ k \notin b + 2..n - 1
    BY <1>1
  <2>. QED
    BY <2>1
<1>5. Below(T, n) = Below(T, b) \cup {b + 1}
  BY <1>4 DEF Below
<1>6. b + 1 \notin Below(T, b)
  BY DEF Below
<1>. QED
  BY <1>3, <1>5, <1>6, BelowIs, FS_AddElement

(* The digits in hand are all that follow the last cell that is none.            *)
LEMMA CurStrBegins ==
  ASSUME NEW string \in Seq(Cells), NEW n \in 0..Len(string)
  PROVE  \E b \in 0..n : /\ b = 0 \/ string[b] \notin Digits
                         /\ \A k \in b + 1..n : string[k] \in Digits
                         /\ CurStr(string, n) = SubSeq(string, b + 1, n)
                         /\ CurStr(string, n) = <<>> <=> b = n
<1>1. PICK b \in 0..n : /\ b = 0 \/ string[b] \notin Digits
                        /\ \A k \in b + 1..n : string[k] \in Digits
  BY RunBegins
<1>2. CurStr(string, n) = SubSeq(string, b + 1, n)
  BY <1>1, CurStrIs
<1>3. Len(SubSeq(string, b + 1, n)) = n - b
  OBVIOUS
<1>4. SubSeq(string, b + 1, n) = <<>> <=> b = n
  BY <1>3
<1>. QED
  BY <1>1, <1>2, <1>4

(* A run of digits that ends before cell n, or with the string, is the last one  *)
(* that begins before n.                                                          *)
LEMMA RunFound ==
  ASSUME NEW string \in Seq(Cells), NEW n \in 1..Len(string) + 1,
         n = Len(string) + 1 \/ string[n] \notin Digits, NEW b \in 0..n - 2,
         b = 0 \/ string[b] \notin Digits, \A k \in b + 1..n - 1 : string[k] \in Digits
  PROVE  /\ b + 1 \in Starts(string)
         /\ RunAt(string, b + 1) = SubSeq(string, b + 1, n - 1)
         /\ SubSeq(string, b + 1, n - 1) \in Seq(Digits)
         /\ Below(Starts(string), b + 1) = Below(Starts(string), b)
         /\ Cardinality(Below(Starts(string), n)) = Cardinality(Below(Starts(string), b)) + 1
<1>. DEFINE S == Starts(string)
<1>1. b + 1 \in S
  BY DEF Starts
<1>2. /\ RunAt(string, b + 1) = SubSeq(string, b + 1, n - 1)
      /\ RunAt(string, b + 1) \in Seq(Digits)
  BY RunAtIs
<1>3. b \notin S
  BY DEF Starts
<1>4. ASSUME NEW k \in b + 2..n - 1 PROVE k \notin S
  <2>1. k - 1 \in b + 1..n - 1 /\ k # 1
    OBVIOUS
  <2>2. string[k - 1] \in Digits
    BY <2>1
  <2>. QED
    BY <2>1, <2>2 DEF Starts
<1>5. S \subseteq 1..Len(string) /\ Len(string) \in Nat
  BY DEF Starts
<1>6. b \in Nat /\ n \in Nat /\ b + 2 <= n
  OBVIOUS
<1>7. /\ Below(S, b + 1) = Below(S, b)
      /\ Cardinality(Below(S, n)) = Cardinality(Below(S, b)) + 1
  <2>. HIDE DEF S
  <2>. QED
    BY <1>1, <1>3, <1>4, <1>5, <1>6, BelowNext
<1>. QED
  BY <1>1, <1>2, <1>7

(* The scan finds the values of the longest runs of digits, each one once and in *)
(* the order in which they begin (find_all_numbers of every part).               *)
THEOREM ScanCorrect ==
  ASSUME NEW string \in Seq(Cells)
  PROVE  FindAllNumbers(string) = NumbersOf(string) /\ NumbersOf(string) \in Seq(Nat)
<1>. DEFINE L == Len(string)
            S == Starts(string)
            count(b) == Cardinality(Below(S, b))
            number(n) == Atoi(CurStr(string, n - 1))
            Digit(n) == n \in 1..L /\ string[n] \in Digits
            None(n) == CurStr(string, n - 1) = <<>>
            Src(n) == n <= L /\ string[n] \in Digits
            step == [n \in 1..L + 1 |-> [numbers \in Seq(Nat) |->
                       IF Digit(n) THEN numbers
                       ELSE IF None(n) THEN numbers ELSE Append(numbers, number(n))]]
            Is(f) == f = [n \in 0..L + 1 |->
                            IF n = 0 THEN <<>>
                            ELSE IF Digit(n) THEN f[n - 1]
                            ELSE IF None(n) THEN f[n - 1] ELSE Append(f[n - 1], number(n))]
            SrcIs(f) == f = [n \in 0..L + 1 |->
                               IF n = 0 THEN <<>>
                               ELSE IF Src(n) THEN f[n - 1]
                               ELSE IF None(n) THEN f[n - 1] ELSE Append(f[n - 1], number(n))]
            ans == CHOOSE f : SrcIs(f)
            Begins(b, n) == ~Digit(b) /\ \A k \in b + 1..n : Digit(k)
<1>1. L \in Nat /\ S \subseteq 1..L
  BY DEF Starts
<1>2. ASSUME NEW n \in 1..L + 1, ~Digit(n)
      PROVE  /\ None(n) => n - 1 = 0 \/ string[n - 1] \notin Digits
             /\ ~None(n) =>
                  \E b \in 0..n - 2 :
                    /\ b = 0 \/ string[b] \notin Digits
                    /\ \A k \in b + 1..n - 1 : string[k] \in Digits
                    /\ number(n) = Value(RunAt(string, b + 1)) /\ number(n) \in Nat
                    /\ b + 1 \in S /\ count(b + 1) = count(b) /\ count(n) = count(b) + 1
  <2>1. n - 1 \in 0..L
    BY <1>1
  <2>2. PICK b \in 0..n - 1 : /\ b = 0 \/ string[b] \notin Digits
                              /\ \A k \in b + 1..n - 1 : string[k] \in Digits
                              /\ CurStr(string, n - 1) = SubSeq(string, b + 1, n - 1)
                              /\ None(n) <=> b = n - 1
    BY <2>1, CurStrBegins
  <2>3. CASE None(n)
    BY <2>2, <2>3
  <2>4. CASE ~None(n)
    <3>1. b \in 0..n - 2 /\ (n = L + 1 \/ string[n] \notin Digits)
      <4>1. b # n - 1
        BY <2>2, <2>4
      <4>2. n = L + 1 \/ n <= L
        BY <1>1
      <4>. HIDE DEF L, None
      <4>. QED
        BY <1>1, <1>2, <4>1, <4>2
    <3>2. /\ b + 1 \in S
          /\ RunAt(string, b + 1) = SubSeq(string, b + 1, n - 1)
          /\ SubSeq(string, b + 1, n - 1) \in Seq(Digits)
          /\ Below(S, b + 1) = Below(S, b) /\ count(n) = count(b) + 1
      BY <2>2, <3>1, RunFound
    <3>3. number(n) = Value(RunAt(string, b + 1)) /\ number(n) \in Nat
      BY <2>2, <3>2, AtoiIs
    <3>. QED
      BY <2>2, <2>4, <3>1, <3>2, <3>3
  <2>. QED
    BY <2>3, <2>4
<1>0. ASSUME NEW f PROVE SrcIs(f) <=> Is(f)
  <2>1. \A n \in 0..L + 1 : n # 0 => (Src(n) <=> Digit(n))
    BY <1>1
  <2>. HIDE DEF L, number, None, Digit, Src
  <2>. QED
    BY <2>1
<1>3. Is(ans)
  <2>1. step \in [1..L + 1 -> [Seq(Nat) -> Seq(Nat)]]
    <3>. HIDE DEF L, number, None, Digit
    <3>. QED
      BY <1>2
  <2>2. PICK f : IsScan(f, L + 1, Seq(Nat), <<>>, step)
    <3>1. L + 1 \in Nat /\ <<>> \in Seq(Nat)
      BY <1>1
    <3>. HIDE DEF step, L
    <3>. QED
      BY <2>1, <3>1, ScanExists
  <2>3. /\ f \in [0..L + 1 -> Seq(Nat)] /\ f[0] = <<>>
        /\ \A n \in 1..L + 1 : f[n] = step[n][f[n - 1]]
    <3>. HIDE DEF step, L
    <3>. QED
      BY <2>2 DEF IsScan
  <2>4. ASSUME NEW n \in 0..L + 1
        PROVE  f[n] = IF n = 0 THEN <<>>
                      ELSE IF Digit(n) THEN f[n - 1]
                      ELSE IF None(n) THEN f[n - 1] ELSE Append(f[n - 1], number(n))
    <3>1. CASE n = 0
      BY <2>3, <3>1
    <3>2. CASE n # 0
      <4>. HIDE DEF L, number, None, Digit
      <4>1. n \in 1..L + 1 /\ n - 1 \in 0..L + 1
        BY <1>1, <3>2
      <4>2. f[n - 1] \in Seq(Nat)
        BY <2>3, <4>1
      <4>. QED
        BY <2>3, <3>2, <4>1, <4>2
    <3>. QED
      BY <3>1, <3>2
  <2>5. Is(f)
    <3>. HIDE DEF L, number, None, Digit
    <3>. QED
      BY <2>3, <2>4
  <2>6. SrcIs(f)
    <3>. HIDE DEF SrcIs, Is
    <3>. QED
      BY <1>0, <2>5
  <2>7. SrcIs(ans)
    <3>. HIDE DEF SrcIs, Is
    <3>. QED
      BY <2>6
  <2>. HIDE DEF Is, SrcIs, ans
  <2>. QED
    BY <1>0, <2>7
<1>4. FindAllNumbers(string) = ans[L + 1]
  BY DEF FindAllNumbers
<1>. HIDE DEF ans
<1>5. ASSUME NEW n \in 0..L + 1
      PROVE  ans[n] = IF n = 0 THEN <<>>
                      ELSE IF Digit(n) THEN ans[n - 1]
                      ELSE IF None(n) THEN ans[n - 1] ELSE Append(ans[n - 1], number(n))
  <2>. DEFINE h == [k \in 0..L + 1 |->
                      IF k = 0 THEN <<>>
                      ELSE IF Digit(k) THEN ans[k - 1]
                      ELSE IF None(k) THEN ans[k - 1] ELSE Append(ans[k - 1], number(k))]
  <2>1. ans = h
    BY <1>3
  <2>2. h[n] = IF n = 0 THEN <<>>
               ELSE IF Digit(n) THEN ans[n - 1]
               ELSE IF None(n) THEN ans[n - 1] ELSE Append(ans[n - 1], number(n))
    <3>. HIDE DEF L, number, None, Digit
    <3>. QED
      OBVIOUS
  <2>. HIDE DEF h
  <2>. QED
    BY <2>1, <2>2
<1>6. \A n \in 0..L + 1 : n \in S => Digit(n)
  BY DEF Starts
<1>. DEFINE Found(n) == ans[n] \in Seq(Nat) /\ \A b \in 0..n : Begins(b, n) =>
                          ans[n] = FirstNumbers(string, count(b))
            T == {n \in 0..L + 1 : Found(n)}
<1>7. 0 \in T
  <2>1. ans[0] = <<>>
    BY <1>1, <1>5
  <2>2. Below(S, 0) = {}
    BY <1>1 DEF Below
  <2>3. count(0) = 0
    BY <2>2, FS_EmptySet
  <2>4. FirstNumbers(string, 0) = <<>>
    BY DEF FirstNumbers
  <2>5. \A b \in 0..0 : b = 0
    OBVIOUS
  <2>6. Found(0)
    <3>. HIDE DEF count, L, Begins
    <3>. QED
      BY <2>1, <2>3, <2>4, <2>5
  <2>7. 0 \in 0..L + 1
    BY <1>1
  <2>. HIDE DEF Found, L
  <2>. QED
    BY <2>6, <2>7
<1>. HIDE DEF Is, step
<1>8. ASSUME NEW n \in 1..L + 1, Found(n - 1) PROVE Found(n)
  <2>1. n \in 0..L + 1 /\ n - 1 \in 0..L + 1 /\ n # 0 /\ n - 1 \in 0..n - 1 /\ n - 1 \in Nat
    BY <1>1
  <2>2. CASE Digit(n)
    <3>1. ans[n] = ans[n - 1]
      <4>. HIDE DEF L, number, None, Digit
      <4>. QED
        BY <1>5, <2>1, <2>2
    <3>2. ASSUME NEW b \in 0..n, Begins(b, n) PROVE b \in 0..n - 1 /\ Begins(b, n - 1)
      <4>1. b # n
        BY <2>2, <3>2
      <4>. HIDE DEF L, Digit
      <4>. QED
        BY <3>2, <4>1
    <3>. HIDE DEF L, Digit, count, Begins
    <3>. QED
      BY <1>8, <3>1, <3>2
  <2>3. CASE ~Digit(n)
    <3>1. ASSUME NEW b \in 0..n, Begins(b, n) PROVE b = n
      <4>. HIDE DEF L, Digit
      <4>. QED
        BY <2>3, <3>1
    <3>2. CASE None(n)
      <4>1. ans[n] = ans[n - 1]
        <5>. HIDE DEF L, number, None, Digit
        <5>. QED
          BY <1>5, <2>1, <2>3, <3>2
      <4>2. ~Digit(n - 1)
        BY <1>2, <2>3, <3>2
      <4>3. Begins(n - 1, n - 1)
        <5>. HIDE DEF L, Digit
        <5>. QED
          BY <4>2
      <4>4. Below(S, n) = Below(S, n - 1)
        <5>1. n - 1 \notin S
          BY <1>6, <2>1, <4>2
        <5>2. \A k \in S : k \in Int
          BY <1>1
        <5>. HIDE DEF S, L
        <5>3. \A k \in S : k < n <=> k < n - 1
          BY <5>1, <5>2
        <5>. QED
          BY <5>3 DEF Below
      <4>5. ans[n] = FirstNumbers(string, count(n))
        <5>. HIDE DEF L, Digit, Begins
        <5>. QED
          BY <1>8, <2>1, <4>1, <4>3, <4>4
      <4>. HIDE DEF L, Digit, count, Begins
      <4>. QED
        BY <1>8, <3>1, <4>1, <4>5
    <3>3. CASE ~None(n)
      <4>1. ans[n] = Append(ans[n - 1], number(n))
        <5>. HIDE DEF L, number, None, Digit
        <5>. QED
          BY <1>5, <2>1, <2>3, <3>3
      <4>2. PICK b \in 0..n - 2 :
              /\ b = 0 \/ string[b] \notin Digits
              /\ \A k \in b + 1..n - 1 : string[k] \in Digits
              /\ number(n) = Value(RunAt(string, b + 1)) /\ number(n) \in Nat
              /\ b + 1 \in S /\ count(b + 1) = count(b) /\ count(n) = count(b) + 1
        <5>. HIDE DEF L, number, None, Digit, S, count
        <5>. QED
          BY <1>2, <2>3, <3>3
      <4>3. b \in 0..n - 1 /\ Begins(b, n - 1)
        <5>1. ~Digit(b)
          BY <4>2
        <5>2. ASSUME NEW k \in b + 1..n - 1 PROVE Digit(k)
          BY <1>1, <4>2
        <5>. HIDE DEF Digit, L
        <5>. QED
          BY <5>1, <5>2
      <4>4. ans[n - 1] = FirstNumbers(string, count(b)) /\ ans[n - 1] \in Seq(Nat)
        <5>. HIDE DEF L, Digit, Begins, count
        <5>. QED
          BY <1>8, <4>3
      <4>5. count(b) \in Nat
        BY <1>1, BelowIs
      <4>6. FirstNumbers(string, count(b) + 1) =
              Append(FirstNumbers(string, count(b)), Value(RunAt(string, b + 1)))
        BY <4>2, <4>5, FirstNumbersAre
      <4>7. ans[n] = FirstNumbers(string, count(n)) /\ ans[n] \in Seq(Nat)
        <5>. HIDE DEF L, Digit, Begins, count, number
        <5>. QED
          BY <4>1, <4>2, <4>4, <4>6
      <4>. HIDE DEF L, Digit, count, Begins
      <4>. QED
        BY <3>1, <4>7
    <3>. QED
      BY <3>2, <3>3
  <2>. QED
    BY <2>2, <2>3
<1>9. Found(L + 1)
  <2>1. ASSUME NEW n \in 1..L + 1, n - 1 \in T PROVE n \in T
    <3>. HIDE DEF Found, L
    <3>. QED
      BY <1>1, <1>8, <2>1
  <2>2. L + 1 \in Nat /\ L + 1 \in 0..L + 1
    BY <1>1
  <2>3. L + 1 \in T
    <3>. HIDE DEF T, L
    <3>1. \A n \in 0..L + 1 : n \in T
      BY <1>7, <2>1, <2>2, Induction
    <3>. QED
      BY <2>2, <3>1
  <2>. QED
    BY <2>3
<1>10. ans[L + 1] = FirstNumbers(string, count(L + 1)) /\ ans[L + 1] \in Seq(Nat)
  <2>1. ~Digit(L + 1) /\ L + 1 \in 0..L + 1
    BY <1>1
  <2>2. Begins(L + 1, L + 1)
    <3>. HIDE DEF Digit, L
    <3>. QED
      BY <1>1, <2>1
  <2>. HIDE DEF L, Digit, Begins, count
  <2>. QED
    BY <1>9, <2>1, <2>2
<1>11. Below(S, L + 1) = S
  <2>. HIDE DEF S, L
  <2>1. \A k \in S : k < L + 1
    BY <1>1
  <2>. QED
    BY <2>1 DEF Below
<1>12. NumbersOf(string) = FirstNumbers(string, Cardinality(S))
  BY NumbersOfIs
<1>. HIDE DEF L, S
<1>. QED
  BY <1>4, <1>10, <1>11, <1>12

(* The digits of a number are those of a tenth of it, and one more.              *)
LEMMA DecimalScans ==
  ASSUME NEW n \in Nat
  PROVE  \E f \in [0..n -> Seq(Digits)] :
           /\ Decimal(n) = f[n]
           /\ \A k \in 0..n : f[k] = IF k < 10 THEN <<k>> ELSE Append(f[k \div 10], k % 10)
<1>. DEFINE Good(f, m) == \A k \in 0..m : f[k] = IF k < 10 THEN <<k>>
                                                ELSE Append(f[k \div 10], k % 10)
            T == {m \in 0..n : \E f \in [0..m -> Seq(Digits)] : Good(f, m)}
            Is(f) == f = [k \in 0..n |-> IF k < 10 THEN <<k>>
                                         ELSE Append(f[k \div 10], k % 10)]
            decimal == CHOOSE f : Is(f)
<1>0. ASSUME NEW k \in Nat, k >= 10
      PROVE  k \div 10 \in 0..k - 1 /\ k % 10 \in Digits
  BY <1>0 DEF Digits
<1>1. 0 \in T
  <2>. DEFINE f == [k \in 0..0 |-> <<0>>]
  <2>1. f \in [0..0 -> Seq(Digits)]
    BY DEF Digits
  <2>2. Good(f, 0)
    OBVIOUS
  <2>. HIDE DEF f, Good
  <2>. QED
    BY <2>1, <2>2
<1>2. ASSUME NEW m \in 1..n, m - 1 \in T PROVE m \in T
  <2>1. PICK f \in [0..m - 1 -> Seq(Digits)] : Good(f, m - 1)
    BY <1>2
  <2>. DEFINE last == IF m < 10 THEN <<m>> ELSE Append(f[m \div 10], m % 10)
              g == [k \in 0..m |-> IF k = m THEN last ELSE f[k]]
  <2>2. last \in Seq(Digits)
    <3>1. CASE m < 10
      <4>1. m \in Digits
        BY <3>1 DEF Digits
      <4>. QED
        BY <3>1, <4>1
    <3>2. CASE m >= 10
      <4>1. m \div 10 \in 0..m - 1 /\ m % 10 \in Digits
        BY <1>0, <3>2
      <4>2. f[m \div 10] \in Seq(Digits)
        BY <4>1
      <4>3. Append(f[m \div 10], m % 10) \in Seq(Digits)
        BY <4>1, <4>2
      <4>4. last = Append(f[m \div 10], m % 10)
        BY <3>2
      <4>. QED
        BY <4>3, <4>4
    <3>. QED
      BY <3>1, <3>2
  <2>3. g \in [0..m -> Seq(Digits)]
    <3>. HIDE DEF last
    <3>. QED
      BY <2>2
  <2>4. ASSUME NEW k \in 0..m
        PROVE  g[k] = IF k < 10 THEN <<k>> ELSE Append(g[k \div 10], k % 10)
    <3>1. ~(k < 10) => g[k \div 10] = f[k \div 10]
      BY <1>0
    <3>2. CASE k = m
      BY <3>1, <3>2
    <3>3. CASE k # m
      <4>1. k \in 0..m - 1 /\ g[k] = f[k]
        BY <3>3
      <4>2. f[k] = IF k < 10 THEN <<k>> ELSE Append(f[k \div 10], k % 10)
        BY <2>1, <4>1
      <4>. HIDE DEF g
      <4>. QED
        BY <3>1, <4>1, <4>2, Zenon
    <3>. QED
      BY <3>2, <3>3
  <2>5. Good(g, m)
    <3>. HIDE DEF g
    <3>. QED
      BY <2>4
  <2>. HIDE DEF g, Good
  <2>. QED
    BY <2>3, <2>5
<1>3. n \in T
  <2>. HIDE DEF T
  <2>1. n \in 0..n
    OBVIOUS
  <2>. QED
    BY <1>1, <1>2, <2>1, Induction
<1>4. PICK f \in [0..n -> Seq(Digits)] : Good(f, n)
  BY <1>3
<1>5. Is(f)
  <2>. DEFINE h == [k \in 0..n |-> IF k < 10 THEN <<k>> ELSE Append(f[k \div 10], k % 10)]
  <2>1. ASSUME NEW k \in 0..n PROVE f[k] = h[k]
    BY <1>4
  <2>. HIDE DEF h
  <2>2. h = [k \in 0..n |-> h[k]]
    BY DEF h
  <2>3. f = h
    BY <2>1, <2>2
  <2>. QED
    BY <2>3 DEF h
<1>6. Is(decimal)
  <2>. HIDE DEF Is
  <2>. QED
    BY <1>5
<1>7. Decimal(n) = decimal[n]
  BY DEF Decimal
<1>. HIDE DEF decimal
<1>8. ASSUME NEW k \in 0..n
      PROVE  decimal[k] = IF k < 10 THEN <<k>> ELSE Append(decimal[k \div 10], k % 10)
  <2>. DEFINE h == [j \in 0..n |-> IF j < 10 THEN <<j>>
                                   ELSE Append(decimal[j \div 10], j % 10)]
  <2>1. decimal = h
    BY <1>6
  <2>2. h[k] = IF k < 10 THEN <<k>> ELSE Append(decimal[k \div 10], k % 10)
    OBVIOUS
  <2>. HIDE DEF h
  <2>. QED
    BY <2>1, <2>2
<1>. DEFINE U == {k \in 0..n : decimal[k] \in Seq(Digits)}
<1>. HIDE DEF T, Is, Good
<1>9. ASSUME NEW k \in 0..n, \A m \in 0..k - 1 : m \in U PROVE k \in U
  <2>0. k \in Nat /\ (k < 10 \/ k >= 10)
    OBVIOUS
  <2>1. CASE k < 10
    <3>1. decimal[k] = <<k>>
      BY <1>8, <2>1, Zenon
    <3>2. k \in Digits
      BY <2>1 DEF Digits
    <3>3. decimal[k] \in Seq(Digits)
      BY <3>1, <3>2
    <3>. QED
      BY <3>3
  <2>2. CASE k >= 10
    <3>1. k \div 10 \in 0..k - 1 /\ k % 10 \in Digits
      BY <1>0, <2>2
    <3>2. decimal[k \div 10] \in Seq(Digits)
      BY <1>9, <3>1
    <3>3. decimal[k] = Append(decimal[k \div 10], k % 10)
      <4>1. ~(k < 10)
        BY <2>2
      <4>. QED
        BY <1>8, <4>1, Zenon
    <3>4. decimal[k] \in Seq(Digits)
      BY <3>1, <3>2, <3>3
    <3>. QED
      BY <3>4
  <2>. QED
    BY <2>0, <2>1, <2>2
<1>10. \A k \in 0..n : k \in U
  <2>. HIDE DEF U
  <2>. QED
    BY <1>9, StrongInduction
<1>11. decimal = [k \in 0..n |-> decimal[k]]
  <2>. DEFINE h == [j \in 0..n |-> IF j < 10 THEN <<j>>
                                   ELSE Append(decimal[j \div 10], j % 10)]
  <2>1. decimal = h
    BY <1>6 DEF Is
  <2>2. h = [k \in 0..n |-> h[k]]
    BY Zenon DEF h
  <2>. HIDE DEF h
  <2>. QED
    BY <2>1, <2>2
<1>12. decimal \in [0..n -> Seq(Digits)]
  BY <1>10, <1>11
<1>. QED
  BY <1>7, <1>8, <1>12

(* The digits that sprintf("%d") prints of a number that is not negative.       *)
LEMMA DecimalIs ==
  ASSUME NEW n \in Nat
  PROVE  Decimal(n) \in Seq(Digits)
<1>1. PICK f \in [0..n -> Seq(Digits)] : Decimal(n) = f[n]
  BY DecimalScans
<1>. QED
  BY <1>1

(* What sprintf("%d") prints of a number is read by atoi as the same number, so that *)
(* the numbers in an answer are those of the text and not only as many               *)
(* (find_all_numbers and make_string).                                               *)
THEOREM DecimalReadsBack ==
  ASSUME NEW n \in Nat
  PROVE  Atoi(Decimal(n)) = n /\ Value(Decimal(n)) = n
<1>1. PICK f \in [0..n -> Seq(Digits)] :
        /\ Decimal(n) = f[n]
        /\ \A k \in 0..n : f[k] = IF k < 10 THEN <<k>> ELSE Append(f[k \div 10], k % 10)
  BY DecimalScans
<1>2. ASSUME NEW d \in Digits
      PROVE  Atoi(<<d>>) = d
  <2>1. d \in Nat /\ <<>> \in Seq(Digits) /\ Append(<<>>, d) = <<d>>
    BY EmptySeq DEF Digits
  <2>2. Atoi(<<>>) = 0
    <3>1. PICK g \in [0..0 -> Nat] : g[0] = 0 /\ Atoi(<<>>) = g[0]
      <4>1. Len(<<>>) = 0
        OBVIOUS
      <4>. QED
        BY <2>1, <4>1, AtoiScans
    <3>. QED
      BY <3>1
  <2>3. Atoi(Append(<<>>, d)) = 10 * Atoi(<<>>) + d
    BY <2>1, AtoiOfMore
  <2>. QED
    BY <2>1, <2>2, <2>3
<1>. DEFINE T == {k \in 0..n : Atoi(f[k]) = k}
<1>3. ASSUME NEW k \in 0..n, \A m \in 0..k - 1 : m \in T PROVE k \in T
  <2>1. CASE k < 10
    <3>1. k \in Digits
      BY <2>1 DEF Digits
    <3>2. f[k] = <<k>>
      BY <1>1, <2>1
    <3>. QED
      BY <1>2, <3>1, <3>2
  <2>2. CASE ~(k < 10)
    <3>1. k \div 10 \in 0..k - 1 /\ k % 10 \in Digits /\ k = 10 * (k \div 10) + (k % 10)
      <4>1. k \in Nat /\ k >= 10
        BY <2>2
      <4>2. k \div 10 \in 0..k - 1 /\ k % 10 \in Digits
        BY <4>1 DEF Digits
      <4>3. k = 10 * (k \div 10) + (k % 10)
        BY <4>1
      <4>. QED
        BY <4>2, <4>3
    <3>2. f[k] = Append(f[k \div 10], k % 10) /\ f[k \div 10] \in Seq(Digits)
      <4>1. k \div 10 \in 0..n
        BY <3>1
      <4>. QED
        BY <1>1, <2>2, <4>1
    <3>3. Atoi(f[k \div 10]) = k \div 10
      BY <1>3, <3>1
    <3>4. Atoi(f[k]) = 10 * (k \div 10) + (k % 10)
      BY <3>1, <3>2, <3>3, AtoiOfMore
    <3>. QED
      BY <3>1, <3>4
  <2>. QED
    BY <2>1, <2>2
<1>4. n \in T
  <2>. HIDE DEF T
  <2>1. n \in 0..n
    OBVIOUS
  <2>. QED
    BY <1>3, <2>1, StrongInduction
<1>. QED
  BY <1>1, <1>4, DecimalIs, AtoiIs

(* An answer is made of what a string can hold.                                  *)
Chars == Int \ {NUL}

(* make_string puts no NUL into the answer.                                      *)
LEMMA MakeStringIs ==
  ASSUME NEW numbers \in Seq(Nat)
  PROVE  MakeString(numbers) \in Seq(Chars)
<1>. DEFINE L == Len(numbers)
            step == [n \in 1..L |-> [cells \in Seq(Chars) |->
                       (IF n = 1 THEN <<Heading(L)>> ELSE cells \o <<COMMA, SEP>>)
                         \o Decimal(numbers[n])]]
            Is(f) == f = [n \in DOMAIN numbers |->
                            (IF n = 1 THEN <<Heading(L)>> ELSE f[n - 1] \o <<COMMA, SEP>>)
                              \o Decimal(numbers[n])]
            first == CHOOSE f : Is(f)
<1>1. L \in Nat /\ DOMAIN numbers = 1..L
  OBVIOUS
<1>2. \A n \in Nat : <<Heading(n)>> \in Seq(Chars)
  <2>1. \A n \in Nat : Heading(n) \in Chars
    BY DEF Heading, Chars, NUL
  <2>. QED
    BY <2>1
<1>3. <<COMMA, SEP>> \in Seq(Chars)
  <2>1. COMMA \in Chars /\ SEP \in Chars
    BY DEF COMMA, SEP, Chars, NUL
  <2>. QED
    BY <2>1
<1>4. ASSUME NEW n \in 1..L PROVE Decimal(numbers[n]) \in Seq(Chars)
  <2>1. Decimal(numbers[n]) \in Seq(Digits)
    BY <1>1, DecimalIs
  <2>2. Digits \subseteq Chars
    BY DEF Digits, Chars, NUL
  <2>. QED
    BY <2>1, <2>2, SeqMonotonic
<1>5. ASSUME NEW n \in 1..L, NEW cells \in Seq(Chars)
      PROVE  (IF n = 1 THEN <<Heading(L)>> ELSE cells \o <<COMMA, SEP>>)
               \o Decimal(numbers[n]) \in Seq(Chars)
  <2>1. <<Heading(L)>> \in Seq(Chars)
    BY <1>1, <1>2
  <2>2. cells \o <<COMMA, SEP>> \in Seq(Chars)
    BY <1>3, ConcatProperties
  <2>3. (IF n = 1 THEN <<Heading(L)>> ELSE cells \o <<COMMA, SEP>>) \in Seq(Chars)
    BY <2>1, <2>2
  <2>. QED
    BY <1>4, <2>3, ConcatProperties
<1>6. step \in [1..L -> [Seq(Chars) -> Seq(Chars)]]
  <2>. HIDE DEF L
  <2>. QED
    BY <1>5
<1>7. PICK f : IsScan(f, L, Seq(Chars), <<>>, step)
  <2>1. <<>> \in Seq(Chars)
    OBVIOUS
  <2>. HIDE DEF step, L
  <2>. QED
    BY <1>1, <1>6, <2>1, ScanExists
<1>8. /\ f \in [0..L -> Seq(Chars)]
      /\ \A n \in 1..L : f[n] = step[n][f[n - 1]]
  <2>. HIDE DEF step, L
  <2>. QED
    BY <1>7 DEF IsScan
<1>. DEFINE g == [n \in 1..L |-> f[n]]
<1>9. Is(g)
  <2>1. ASSUME NEW n \in 1..L
        PROVE  g[n] = (IF n = 1 THEN <<Heading(L)>> ELSE g[n - 1] \o <<COMMA, SEP>>)
                        \o Decimal(numbers[n])
    <3>. HIDE DEF L
    <3>1. f[n - 1] \in Seq(Chars) /\ (n # 1 => g[n - 1] = f[n - 1]) /\ g[n] = f[n]
      BY <1>1, <1>8
    <3>2. f[n] = (IF n = 1 THEN <<Heading(L)>> ELSE f[n - 1] \o <<COMMA, SEP>>)
                   \o Decimal(numbers[n])
      BY <1>8, <3>1
    <3>. HIDE DEF step, g
    <3>. QED
      BY <3>1, <3>2
  <2>2. g = [n \in 1..L |-> g[n]]
    OBVIOUS
  <2>. HIDE DEF g, L
  <2>. DEFINE h == [n \in DOMAIN numbers |->
                      (IF n = 1 THEN <<Heading(L)>> ELSE g[n - 1] \o <<COMMA, SEP>>)
                        \o Decimal(numbers[n])]
  <2>3. \A n \in 1..L : g[n] = h[n]
    BY <1>1, <2>1
  <2>4. h = [n \in 1..L |-> h[n]]
    BY <1>1
  <2>. HIDE DEF h
  <2>5. g = h
    BY <2>2, <2>3, <2>4
  <2>. QED
    BY <2>5 DEF h
<1>10. Is(first)
  <2>. HIDE DEF Is, g
  <2>. QED
    BY <1>9
<1>11. MakeString(numbers) = IF numbers = <<>> THEN <<Heading(0)>> ELSE first[L]
  BY DEF MakeString
<1>. HIDE DEF first, g, step
<1>12. ASSUME NEW n \in 1..L
       PROVE  first[n] = (IF n = 1 THEN <<Heading(L)>> ELSE first[n - 1] \o <<COMMA, SEP>>)
                           \o Decimal(numbers[n])
  <2>. DEFINE h == [k \in DOMAIN numbers |->
                      (IF k = 1 THEN <<Heading(L)>> ELSE first[k - 1] \o <<COMMA, SEP>>)
                        \o Decimal(numbers[k])]
  <2>1. first = h
    BY <1>10
  <2>2. h[n] = (IF n = 1 THEN <<Heading(L)>> ELSE first[n - 1] \o <<COMMA, SEP>>)
                 \o Decimal(numbers[n])
    <3>. HIDE DEF L
    <3>. QED
      BY <1>1
  <2>. HIDE DEF h, Is
  <2>. QED
    BY <2>1, <2>2
<1>. DEFINE T == {n \in 0..L : n > 0 => first[n] \in Seq(Chars)}
<1>13. ASSUME NEW n \in 1..L, n - 1 \in T PROVE n \in T
  <2>1. CASE n = 1
    <3>1. first[n] = <<Heading(L)>> \o Decimal(numbers[n])
      BY <1>12, <2>1
    <3>2. first[n] \in Seq(Chars)
      BY <1>1, <1>2, <1>4, <3>1, ConcatProperties
    <3>. QED
      BY <3>2
  <2>2. CASE n # 1
    <3>1. first[n - 1] \in Seq(Chars)
      BY <1>13, <2>2
    <3>2. first[n] = first[n - 1] \o <<COMMA, SEP>> \o Decimal(numbers[n])
      BY <1>12, <2>2
    <3>3. first[n] \in Seq(Chars)
      <4>1. first[n - 1] \o <<COMMA, SEP>> \in Seq(Chars)
        BY <1>3, <3>1, ConcatProperties
      <4>. QED
        BY <1>4, <3>2, <4>1, ConcatProperties
    <3>. QED
      BY <3>3
  <2>. QED
    BY <2>1, <2>2
<1>14. L \in T
  <2>1. 0 \in T
    BY <1>1
  <2>. HIDE DEF T, L
  <2>2. \A n \in 0..L : n \in T
    BY <1>1, <1>13, <2>1, Induction
  <2>3. L \in 0..L
    BY <1>1
  <2>. QED
    BY <2>2, <2>3
<1>15. CASE numbers = <<>>
  <2>1. MakeString(numbers) = <<Heading(0)>>
    BY <1>11, <1>15
  <2>2. 0 \in Nat
    OBVIOUS
  <2>. QED
    BY <1>2, <2>1, <2>2
<1>16. CASE numbers # <<>>
  <2>1. MakeString(numbers) = first[L]
    BY <1>11, <1>16
  <2>2. L > 0
    BY <1>1, <1>16
  <2>3. first[L] \in Seq(Chars)
    <3>. HIDE DEF L
    <3>. QED
      BY <1>14, <2>2
  <2>. QED
    BY <2>1, <2>3
<1>. QED
  BY <1>15, <1>16
--------------------------------------------------------------------------------
(* A string of C in a buffer: its characters, and a NUL behind them if the buffer *)
(* goes on.                                                                       *)
IsString(cells, string) ==
  /\ Len(string) <= Len(cells)
  /\ \A i \in 1..Len(string) : cells[i] = string[i]
  /\ Len(string) < Len(cells) => cells[Len(string) + 1] = NUL

(* The least of a set of integers, which Min takes.                              *)
LEMMA MinIs ==
  ASSUME NEW T, T \subseteq Int, NEW m \in T, \A y \in T : m <= y
  PROVE  Min(T) = m
<1>1. Min(T) \in T /\ \A y \in T : Min(T) <= y
  BY DEF Min
<1>2. Min(T) >= m /\ m >= Min(T) /\ Min(T) \in Int /\ m \in Int
  BY <1>1
<1>. QED
  BY <1>2

(* What strlen and the others see of a buffer is the string in it.              *)
LEMMA CStringIs ==
  ASSUME NEW cells \in Seq(Int), NEW string \in Seq(Chars), IsString(cells, string)
  PROVE  CString(cells) = string
<1>. DEFINE zeros == {i \in DOMAIN cells : cells[i] = NUL}
            n == Len(string)
<1>1. n \in Nat /\ DOMAIN cells = 1..Len(cells) /\ Len(cells) \in Nat /\ n <= Len(cells)
  BY DEF IsString
<1>2. ASSUME NEW i \in 1..n PROVE cells[i] = string[i] /\ cells[i] # NUL
  BY DEF IsString, Chars
<1>3. CASE n = Len(cells)
  <2>1. zeros = {}
    BY <1>1, <1>2, <1>3
  <2>2. cells = string
    <3>1. cells = [i \in 1..n |-> cells[i]] /\ string = [i \in 1..n |-> string[i]]
      BY <1>1, <1>3
    <3>. QED
      BY <1>2, <3>1
  <2>. QED
    BY <2>1, <2>2 DEF CString
<1>4. CASE n < Len(cells)
  <2>1. n + 1 \in zeros
    BY <1>1, <1>4 DEF IsString
  <2>2. ASSUME NEW i \in zeros PROVE n + 1 <= i
    BY <1>1, <1>2
  <2>3. zeros \subseteq Int
    BY <1>1
  <2>4. Min(zeros) = n + 1
    <3>. HIDE DEF zeros, n
    <3>. QED
      BY <2>1, <2>2, <2>3, MinIs
  <2>5. CString(cells) = SubSeq(cells, 1, (n + 1) - 1)
    BY <2>1, <2>4 DEF CString
  <2>6. SubSeq(cells, 1, n) = string
    <3>1. SubSeq(cells, 1, n) \in Seq(Int) /\ Len(SubSeq(cells, 1, n)) = n
      BY <1>1, <1>4
    <3>2. ASSUME NEW i \in 1..n PROVE SubSeq(cells, 1, n)[i] = string[i]
      BY <1>1, <1>2, <1>4
    <3>. QED
      BY <3>1, <3>2
  <2>. QED
    BY <1>1, <2>5, <2>6
<1>. QED
  BY <1>1, <1>3, <1>4

(* Every buffer has a string in it.                                              *)
LEMMA StringExists ==
  ASSUME NEW cells \in Seq(Int)
  PROVE  \E string \in Seq(Chars) : IsString(cells, string)
<1>. DEFINE zeros == {i \in 1..Len(cells) : cells[i] = NUL}
<1>1. CASE zeros = {}
  <2>1. \A i \in 1..Len(cells) : cells[i] \in Chars
    BY <1>1 DEF Chars
  <2>2. cells \in Seq(Chars)
    <3>1. cells = [i \in 1..Len(cells) |-> cells[i]] /\ Len(cells) \in Nat
      OBVIOUS
    <3>. QED
      BY <2>1, <3>1
  <2>3. IsString(cells, cells)
    BY DEF IsString
  <2>. QED
    BY <2>2, <2>3
<1>2. CASE zeros # {}
  <2>1. PICK e \in zeros : \A i \in zeros : e <= i
    <3>1. zeros \subseteq Nat
      OBVIOUS
    <3>. HIDE DEF zeros
    <3>. QED
      BY <1>2, <3>1, LeastExists
  <2>. DEFINE string == SubSeq(cells, 1, e - 1)
  <2>2. e - 1 \in 0..Len(cells) /\ Len(string) = e - 1 /\ string \in Seq(Int)
    OBVIOUS
  <2>3. ASSUME NEW i \in 1..e - 1 PROVE string[i] = cells[i] /\ string[i] \in Chars
    <3>1. i \notin zeros /\ i \in 1..Len(cells)
      BY <2>1
    <3>2. string[i] = cells[i]
      OBVIOUS
    <3>. QED
      BY <3>1, <3>2 DEF Chars
  <2>4. string \in Seq(Chars)
    <3>. DEFINE n == e - 1
    <3>1. string = [i \in 1..n |-> string[i]] /\ n \in Nat
      BY <2>2
    <3>2. \A i \in 1..n : string[i] \in Chars
      BY <2>3
    <3>. HIDE DEF string, n
    <3>. QED
      BY <3>1, <3>2
  <2>5. IsString(cells, string)
    <3>1. cells[e] = NUL /\ e = (e - 1) + 1
      OBVIOUS
    <3>. HIDE DEF string
    <3>. QED
      BY <2>2, <2>3, <3>1 DEF IsString
  <2>. QED
    BY <2>4, <2>5
<1>. QED
  BY <1>1, <1>2

(* The first n cells of a sequence and the others.                               *)
LEMMA FirstAndRest ==
  ASSUME NEW S, NEW cells \in Seq(S), NEW n \in Nat
  PROVE  /\ First(n, cells) = IF n <= Len(cells) THEN SubSeq(cells, 1, n) ELSE cells
         /\ First(n, cells) \in Seq(S)
         /\ Len(First(n, cells)) = IF n <= Len(cells) THEN n ELSE Len(cells)
         /\ Rest(n, cells) \in Seq(S)
         /\ First(n, cells) \o Rest(n, cells) = cells
<1>. DEFINE k == IF n <= Len(cells) THEN n ELSE Len(cells)
<1>1. k \in 0..Len(cells) /\ Len(cells) \in Nat
  OBVIOUS
<1>2. Min({n, Len(cells)}) = k
  <2>. DEFINE both == {n, Len(cells)}
  <2>1. both \subseteq Int /\ k \in both /\ \A y \in both : k <= y
    OBVIOUS
  <2>. HIDE DEF k, both
  <2>2. Min(both) = k
    BY <2>1, MinIs
  <2>. QED
    BY <2>2 DEF both
<1>3. First(n, cells) = SubSeq(cells, 1, k)
  BY <1>2 DEF First
<1>4. SubSeq(cells, 1, Len(cells)) = cells
  OBVIOUS
<1>5. SubSeq(cells, 1, k) \in Seq(S) /\ Len(SubSeq(cells, 1, k)) = k
  OBVIOUS
<1>6. Rest(n, cells) \in Seq(S) /\ Rest(n, cells) = SubSeq(cells, k + 1, Len(cells))
  <2>1. CASE n <= Len(cells)
    <3>1. n \in 0..Len(cells) /\ k = n
      BY <2>1
    <3>2. SubSeq(cells, n + 1, Len(cells)) \in Seq(S)
      BY <3>1
    <3>. QED
      BY <3>1, <3>2 DEF Rest
  <2>2. CASE n > Len(cells)
    <3>1. SubSeq(cells, n + 1, Len(cells)) = <<>> /\ k = Len(cells)
      BY <2>2
    <3>2. SubSeq(cells, Len(cells) + 1, Len(cells)) = <<>>
      OBVIOUS
    <3>3. <<>> \in Seq(S)
      OBVIOUS
    <3>4. Rest(n, cells) = <<>>
      BY <3>1 DEF Rest
    <3>5. SubSeq(cells, k + 1, Len(cells)) = <<>>
      BY <3>1, <3>2
    <3>. HIDE DEF k
    <3>. QED
      BY <3>3, <3>4, <3>5
  <2>3. n <= Len(cells) \/ n > Len(cells)
    BY <1>1
  <2>. HIDE DEF k
  <2>. QED
    BY <2>1, <2>2, <2>3
<1>7. SubSeq(cells, 1, k) \o SubSeq(cells, k + 1, Len(cells)) = cells
  <2>. HIDE DEF k
  <2>1. 1 \in 1..Len(cells) + 1 /\ k \in 1 - 1..Len(cells) /\ Len(cells) \in k..Len(cells)
    BY <1>1
  <2>. QED
    BY <1>4, <2>1, ConcatAdjacentSubSeq
<1>. QED
  BY <1>3, <1>4, <1>5, <1>6, <1>7

(* A string with NULs behind it is the same string.                              *)
LEMMA ZerosBehind ==
  ASSUME NEW string \in Seq(Chars), NEW k \in Nat
  PROVE  /\ string \o Zeros(k) \in Seq(Int)
         /\ Len(string \o Zeros(k)) = Len(string) + k
         /\ IsString(string \o Zeros(k), string)
<1>1. /\ string \in Seq(Int) /\ Zeros(k) \in Seq(Int) /\ Len(Zeros(k)) = k
      /\ \A i \in 1..k : Zeros(k)[i] = NUL
  <2>1. Chars \subseteq Int /\ {NUL} \subseteq Int
    BY DEF Chars, NUL
  <2>. QED
    BY <2>1, ZerosAre, SeqMonotonic
<1>. DEFINE cells == string \o Zeros(k)
<1>2. cells \in Seq(Int) /\ Len(cells) = Len(string) + k
  BY <1>1
<1>3. \A i \in 1..Len(string) : cells[i] = string[i]
  BY <1>1
<1>4. k > 0 => cells[Len(string) + 1] = Zeros(k)[1]
  BY <1>1
<1>. HIDE DEF cells
<1>5. IsString(cells, string)
  BY <1>1, <1>2, <1>3, <1>4 DEF IsString
<1>. QED
  BY <1>2, <1>5 DEF cells

(* What is left of a string when m cells of the buffer are looked at.            *)
LEMMA FirstOfString ==
  ASSUME NEW string \in Seq(Chars), NEW m \in Nat
  PROVE  /\ First(m, string \o Zeros(m)) \in Seq(Int)
         /\ Len(First(m, string \o Zeros(m))) = m
         /\ First(m, string) \in Seq(Chars)
         /\ IsString(First(m, string \o Zeros(m)), First(m, string))
<1>. DEFINE cells == string \o Zeros(m)
            seen == First(m, cells)
            left == First(m, string)
<1>1. cells \in Seq(Int) /\ Len(cells) = Len(string) + m /\ IsString(cells, string)
  BY ZerosBehind
<1>2. Len(string) \in Nat /\ m <= Len(cells)
  BY <1>1
<1>. HIDE DEF cells
<1>3. seen = SubSeq(cells, 1, m) /\ seen \in Seq(Int) /\ Len(seen) = m
  BY <1>1, <1>2, FirstAndRest
<1>4. left = (IF m <= Len(string) THEN SubSeq(string, 1, m) ELSE string) /\ left \in Seq(Chars)
  BY FirstAndRest
<1>5. Len(left) = IF m <= Len(string) THEN m ELSE Len(string)
  BY FirstAndRest
<1>6. ASSUME NEW i \in 1..m PROVE seen[i] = cells[i]
  BY <1>1, <1>2, <1>3
<1>7. ASSUME NEW i \in 1..Len(left) PROVE left[i] = string[i] /\ i <= m /\ i <= Len(string)
  BY <1>4, <1>5
<1>. HIDE DEF seen, left
<1>8. \A i \in 1..Len(left) : seen[i] = left[i]
  <2>. TAKE i \in 1..Len(left)
  <2>1. i \in 1..m /\ i \in 1..Len(string)
    BY <1>2, <1>5, <1>7
  <2>. QED
    BY <1>1, <1>6, <1>7, <2>1 DEF IsString
<1>9. Len(left) < Len(seen) => seen[Len(left) + 1] = NUL
  <2>. SUFFICES ASSUME Len(left) < m PROVE seen[Len(left) + 1] = NUL
    BY <1>3
  <2>1. Len(left) = Len(string) /\ Len(string) + 1 \in 1..m
    BY <1>2, <1>5
  <2>. QED
    BY <1>1, <1>2, <1>6, <2>1 DEF IsString
<1>10. IsString(seen, left)
  BY <1>2, <1>3, <1>5, <1>8, <1>9 DEF IsString
<1>. QED
  BY <1>3, <1>4, <1>10 DEF seen, left, cells

(* Chunk after chunk, the strings in them make up the string in the whole, up to *)
(* the chunk with the first NUL.                                                 *)
LEMMA StringOfChunks ==
  ASSUME NEW before \in Seq(Chars), NEW chunk \in Seq(Int), NEW behind \in Seq(Int)
  PROVE  /\ CString(chunk) = chunk => chunk \in Seq(Chars)
         /\ CString(chunk) # chunk =>
              before \o CString(chunk) = CString(before \o (chunk \o behind))
<1>1. PICK string \in Seq(Chars) : IsString(chunk, string)
  BY StringExists
<1>2. CString(chunk) = string
  BY <1>1, CStringIs
<1>3. ASSUME string # chunk PROVE before \o string = CString(before \o (chunk \o behind))
  <2>. DEFINE whole == before \o (chunk \o behind)
              n == Len(before)
  <2>0. before \in Seq(Int) /\ string \in Seq(Int)
    <3>1. Chars \subseteq Int
      BY DEF Chars
    <3>. QED
      BY <3>1, SeqMonotonic
  <2>1. whole \in Seq(Int) /\ before \o string \in Seq(Chars)
    BY <2>0, ConcatProperties
  <2>2. n \in Nat /\ Len(string) \in Nat /\ Len(chunk) \in Nat /\ Len(behind) \in Nat
    OBVIOUS
  <2>3. Len(whole) = n + Len(chunk) + Len(behind) /\ Len(before \o string) = n + Len(string)
    BY <2>0
  <2>4. Len(string) < Len(chunk)
    <3>1. CASE Len(string) = Len(chunk)
      <4>1. \A i \in 1..Len(chunk) : chunk[i] = string[i]
        BY <1>1, <3>1 DEF IsString
      <4>2. chunk = string
        <5>1. /\ chunk = [i \in 1..Len(chunk) |-> chunk[i]]
              /\ string = [i \in 1..Len(chunk) |-> string[i]]
          BY <3>1
        <5>. QED
          BY <4>1, <5>1
      <4>. QED
        BY <1>3, <4>2
    <3>. QED
      BY <1>1, <2>2, <3>1 DEF IsString
  <2>5. ASSUME NEW i \in 1..n PROVE whole[i] = before[i] /\ (before \o string)[i] = before[i]
    BY <2>0
  <2>6. ASSUME NEW i \in 1..Len(chunk) PROVE whole[n + i] = chunk[i]
    <3>1. (chunk \o behind)[i] = chunk[i]
      OBVIOUS
    <3>2. whole[n + i] = (chunk \o behind)[i]
      BY <2>0
    <3>. QED
      BY <3>1, <3>2
  <2>7. ASSUME NEW i \in 1..Len(string) PROVE (before \o string)[n + i] = string[i]
    BY <2>0
  <2>. HIDE DEF whole
  <2>. DEFINE all == before \o string
  <2>. HIDE DEF all
  <2>8. ASSUME NEW i \in 1..Len(all) PROVE whole[i] = all[i]
    <3>1. CASE i \in 1..n
      BY <2>5, <3>1 DEF all
    <3>2. CASE i \notin 1..n
      <4>1. i - n \in 1..Len(string) /\ i - n \in 1..Len(chunk) /\ i = n + (i - n)
        BY <2>2, <2>3, <2>4, <3>2 DEF all
      <4>2. whole[n + (i - n)] = chunk[i - n] /\ all[n + (i - n)] = string[i - n]
        BY <2>6, <2>7, <4>1 DEF all
      <4>. QED
        BY <1>1, <4>1, <4>2 DEF IsString
    <3>. QED
      BY <3>1, <3>2
  <2>9. whole[Len(all) + 1] = NUL
    <3>1. Len(string) + 1 \in 1..Len(chunk) /\ Len(all) + 1 = n + (Len(string) + 1)
      BY <2>2, <2>3, <2>4 DEF all
    <3>. QED
      BY <1>1, <2>4, <2>6, <3>1 DEF IsString
  <2>10. IsString(whole, all)
    <3>1. Len(all) = n + Len(string) /\ Len(all) < Len(whole)
      BY <2>2, <2>3, <2>4 DEF all
    <3>2. Len(all) <= Len(whole)
      BY <2>2, <2>3, <3>1
    <3>. QED
      BY <2>8, <2>9, <3>1, <3>2 DEF IsString
  <2>. QED
    BY <2>1, <2>10, CStringIs DEF whole, all
<1>. QED
  BY <1>1, <1>2, <1>3

(* The second program's string when a chunk has come that is not whole.          *)
LEMMA CutIs ==
  ASSUME NEW data \in Seq(Cells), NEW chunk \in Seq(Cells), Len(chunk) \in 1..CHUNK - 1
  PROVE  /\ data \o chunk \in Seq(Chars)
         /\ Cut(Grown(data, chunk), Len(chunk)) \in Seq(Int)
         /\ IsString(Cut(Grown(data, chunk), Len(chunk)), data \o chunk)
<1>. DEFINE string == data \o chunk
            k == CHUNK - Len(chunk)
            grown == string \o Zeros(k)
            nuls == Nuls(grown, Len(chunk))
<1>1. CHUNK \in Nat /\ k \in Nat \ {0} /\ Len(chunk) \in Nat /\ Len(data) \in Nat
  BY PipelineAssumption
<1>2. string \in Seq(Chars) /\ Len(string) = Len(data) + Len(chunk)
  <2>1. Cells \subseteq Chars
    BY DEF Cells, Digits, SEP, Chars, NUL
  <2>2. data \in Seq(Chars) /\ chunk \in Seq(Chars)
    BY <2>1, SeqMonotonic
  <2>. QED
    BY <2>2, ConcatProperties
<1>3. Grown(data, chunk) = grown
  BY DEF Grown
<1>. HIDE DEF string, k
<1>4. grown \in Seq(Int) /\ Len(grown) = Len(string) + k /\ IsString(grown, string)
  BY <1>1, <1>2, ZerosBehind
<1>5. /\ \A i \in 1..k : grown[Len(string) + i] = NUL
      /\ \A i \in 1..Len(string) : grown[i] = string[i] /\ string[i] # NUL
  <2>1. Zeros(k) \in Seq(Int) /\ string \in Seq(Int) /\ Len(Zeros(k)) = k
    <3>1. Chars \subseteq Int /\ {NUL} \subseteq Int
      BY DEF Chars, NUL
    <3>. QED
      BY <1>1, <1>2, <3>1, ZerosAre, SeqMonotonic
  <2>2. \A i \in 1..k : grown[Len(string) + i] = Zeros(k)[i]
    BY <1>1, <2>1
  <2>3. \A i \in 1..Len(string) : string[i] \in Chars /\ grown[i] = string[i]
    BY <1>2, <2>1
  <2>. HIDE DEF grown
  <2>. QED
    BY <1>1, <2>2, <2>3, ZerosAre DEF Chars
<1>. HIDE DEF grown
<1>6. Len(grown) \in nuls
  <2>1. Len(grown) = Len(string) + k /\ k \in 1..k
    BY <1>1, <1>4
  <2>2. grown[Len(grown)] = NUL
    BY <1>5, <2>1
  <2>. QED
    BY <1>1, <1>2, <1>4, <2>2 DEF Nuls
<1>7. nuls \subseteq Nat /\ \A i \in nuls : i > Len(string) /\ i <= Len(grown)
  <2>. SUFFICES ASSUME NEW i \in nuls PROVE i \in Nat /\ i > Len(string) /\ i <= Len(grown)
    OBVIOUS
  <2>1. i \in Len(grown) - Len(chunk) + 1 .. Len(grown) /\ grown[i] = NUL
    BY DEF Nuls
  <2>2. i \in Int /\ i >= 1 /\ i <= Len(grown)
    BY <1>1, <1>2, <1>4, <2>1
  <2>3. i \notin 1..Len(string)
    BY <1>5, <2>1
  <2>. QED
    BY <1>1, <1>2, <2>2, <2>3
<1>8. PICK e \in nuls : \A i \in nuls : e <= i
  <2>. HIDE DEF nuls
  <2>. QED
    BY <1>6, <1>7, LeastExists
<1>9. Min(nuls) = e
  <2>1. nuls \subseteq Int
    BY <1>7
  <2>. HIDE DEF nuls
  <2>. QED
    BY <1>8, <2>1, MinIs
<1>. DEFINE cut == SubSeq(grown, 1, e)
<1>10. e \in Nat /\ e > Len(string) /\ e <= Len(grown)
  BY <1>7
<1>11. Cut(grown, Len(chunk)) = cut
  <2>1. First(e, grown) = cut
    BY <1>4, <1>10, FirstAndRest
  <2>. QED
    BY <1>6, <1>9, <2>1 DEF Cut
<1>12. cut \in Seq(Int) /\ Len(cut) = e /\ \A i \in 1..e : cut[i] = grown[i]
  <2>1. Len(grown) \in Nat
    BY <1>4
  <2>. QED
    BY <1>4, <1>10, <2>1
<1>. HIDE DEF cut, nuls
<1>13. IsString(cut, string)
  <2>1. Len(string) \in Nat /\ Len(string) + 1 \in 1..e /\ Len(string) < Len(grown)
    BY <1>2, <1>4, <1>10
  <2>2. \A i \in 1..Len(string) : i \in 1..e
    BY <1>10, <2>1
  <2>. QED
    BY <1>4, <1>12, <2>1, <2>2 DEF IsString
<1>. QED
  BY <1>2, <1>3, <1>11, <1>12, <1>13 DEF string

(* What has been written and what is still to be written, after another n cells.     *)
LEMMA FeedsInOrder ==
  ASSUME NEW S, NEW sent \in Seq(S), NEW cells \in Seq(S), NEW n \in Nat
  PROVE  /\ sent \o First(n, cells) \in Seq(S) /\ Rest(n, cells) \in Seq(S)
         /\ (sent \o First(n, cells)) \o Rest(n, cells) = sent \o cells
<1>. DEFINE head == First(n, cells)
            tail == Rest(n, cells)
<1>0. head \in Seq(S) /\ tail \in Seq(S)
  BY FirstAndRest
<1>1. head \o tail = cells
  BY FirstAndRest
<1>. HIDE DEF head, tail
<1>2. (sent \o head) \o tail = sent \o (head \o tail)
  BY <1>0, ConcatAssociative
<1>3. (sent \o head) \o tail = sent \o cells
  BY <1>1, <1>2, Zenon
<1>4. sent \o head \in Seq(S)
  BY <1>0, ConcatProperties
<1>. QED
  BY <1>0, <1>3, <1>4 DEF head, tail
--------------------------------------------------------------------------------
(* Parts 4 to 8: the text is read in one call, and what becomes of it goes through *)
(* the two channels whole.  The calls that touch it are the first process's load   *)
(* and put, the second one's get, count and put, and the get and the store of the   *)
(* process that stores.                                                             *)
TheText == First(BUF, text)
TheAnswer == Answer(TheText)

Carried(load, put, get, storer, take) ==
  /\ pc[1] \in load + 1..put => buf[1] = TheText
  /\ pc[1] <= put => bytes[1] = <<>>
  /\ pc[1] > put /\ pc[2] <= get => bytes[1] = TheText
  /\ pc[2] \in get + 1..get + 2 => buf[2] = TheText
  /\ pc[2] \in get + 3..get + 4 => buf[2] = TheAnswer
  /\ pc[2] <= get + 4 => bytes[2] = <<>>
  /\ pc[2] > get + 4 /\ pc[storer] <= take => bytes[2] = TheAnswer
  /\ pc[storer] \in take + 1..take + 2 => buf[storer] = First(BUF, TheAnswer)
  /\ pc[storer] > take + 2 => output = {First(BUF, TheAnswer)}

Answers4to8 ==
  /\ part = 4 => Carried(4, 6, 3, 3, 2)
  /\ part = 5 => Carried(4, 6, 3, 3, 2)
  /\ part = 6 => Carried(4, 6, 2, 1, 10)
  /\ part = 7 => Carried(4, 6, 2, 1, 9)
  /\ part = 8 => Carried(3, 5, 2, 1, 8)

(* Nobody takes out what has not been put in, and nobody is refused or killed while *)
(* it has the text or the answer in hand.                                           *)
InTurn(put, get, storer, take) ==
  /\ pc[1] <= put => pc[2] <= get
  /\ pc[2] <= get + 4 => pc[storer] <= take
  /\ ended[1] # "killed" /\ ended[2] # "killed" /\ ended[storer] # "killed"
  /\ ended[1] = "failed" => pc[1] <= 2
  /\ ended[2] = "failed" => pc[2] <= 1
  /\ ended[3] = "failed" => storer = 1

(* What a step does to the text and the answer: it moves them on, or it passes by. *)
Transport(p, load, put, get, storer, take) ==
  \/ p = 1 /\ pc[1] = load /\ Calls(1, "load") /\ Read(1)
  \/ p = 1 /\ pc[1] = put /\ Chan(1) = 1 /\ Put(1)
  \/ p = 2 /\ pc[2] = get /\ Chan(2) = 1 /\ Get(2)
  \/ p = 2 /\ pc[2] = get + 2 /\ Count(2)
  \/ p = 2 /\ pc[2] = get + 4 /\ Chan(2) = 2 /\ Put(2)
  \/ p = storer /\ pc[p] = take /\ Chan(p) = 2 /\ Get(p)
  \/ p = storer /\ pc[p] = take + 2 /\ Store(p)

Passes(p) ==
  /\ UNCHANGED <<buf, bytes, output>>
  /\ \/ pc' = [pc EXCEPT ![p] = @ + 1]
     \/ \E child \in Procs \ {p} : pc[child] = 0 /\ pc' = [pc EXCEPT ![p] = @ + 1, ![child] = 1]

PassesBy(p, load, put, get, storer, take) ==
  /\ p = 1 => pc[1] \notin {load, put}
  /\ p = 2 => pc[2] \notin {get, get + 2, get + 4}
  /\ p = storer => pc[p] \notin {take, take + 2}
  /\ Passes(p)

Returns(p, put, get, storer, take) ==
  /\ p = 1 => pc[1] > put
  /\ p = 2 => pc[2] > get + 4
  /\ p = storer => pc[p] > take + 2
  /\ Quit(p, "ok")

Kinds(p, load, put, get, storer, take) ==
  \/ Transport(p, load, put, get, storer, take)
  \/ PassesBy(p, load, put, get, storer, take)
  \/ Returns(p, put, get, storer, take)
  \/ Quit(p, "failed")

(* The calls that pass the text and the answer by.                                  *)
LEMMA CallsPass ==
  ASSUME NEW p \in Procs
  PROVE  /\ Pipe(p) \/ Mkfifo(p) \/ Wait(p) \/ Open(p) \/ Close(p) \/ Unlink(p) =>
              Passes(p) \/ Quit(p, "failed")
         /\ Fork(p) /\ Chan(p) \in Procs \ {p} /\ pc[Chan(p)] = 0 => Passes(p)
         /\ Exit(p) => Quit(p, "ok")
<1>1. Pipe(p) => Passes(p)
  BY DEF Pipe, Passes, Advance
<1>2. Mkfifo(p) => Passes(p) \/ Quit(p, "failed")
  BY DEF Mkfifo, Passes, Advance
<1>3. Wait(p) => Passes(p)
  BY DEF Wait, Passes, Advance, chans
<1>4. Open(p) => Passes(p) \/ Quit(p, "failed")
  BY DEF Open, Passes, Advance
<1>5. Close(p) => Passes(p)
  BY DEF Close, Passes, Advance
<1>6. Unlink(p) => Passes(p)
  BY DEF Unlink, Passes, Advance
<1>7. Fork(p) /\ Chan(p) \in Procs \ {p} /\ pc[Chan(p)] = 0 => Passes(p)
  BY DEF Fork, Passes
<1>8. Exit(p) => Quit(p, "ok")
  BY DEF Exit
<1>. QED
  BY <1>1, <1>2, <1>3, <1>4, <1>5, <1>6, <1>7, <1>8

(* In parts 4 to 8 the reading call is the one that takes BUF cells.                *)
LEMMA LoadsAll ==
  ASSUME part \in 4..8, pc[1] = (IF part = 8 THEN 3 ELSE 4), Read(1)
  PROVE  Calls(1, "load")
<1>1. Programs[part][1][pc[1]] = <<"load">>
  BY SMTT(30) DEF Programs, Parts, Reader4, Reader5, Reader6, Reader7, Reader8
<1>2. ~Calls(1, "source")
  BY <1>1 DEF Calls
<1>. QED
  BY <1>2 DEF Read

(* What the steps of part 4 do to the text and the answer.                          *)
LEMMA Kinds4 ==
  ASSUME Types, Inv4, part = 4, NEW p \in Procs, Step(p)
  PROVE  Kinds(p, 4, 6, 3, 3, 2)
<1>1. CASE p = 1
  BY <1>1, Reader4Steps, LoadsAll, CallsPass DEF Types, Inv4, Procs, Kinds, Transport, PassesBy, Returns
<1>2. CASE p = 2
  BY <1>2, Counter4Steps, CallsPass DEF Types, Inv4, Procs, Kinds, Transport, PassesBy, Returns
<1>3. CASE p = 3
  BY <1>3, Writer4Steps, CallsPass DEF Types, Inv4, Procs, Kinds, Transport, PassesBy, Returns
<1>. QED
  BY <1>1, <1>2, <1>3 DEF Procs

(* What the steps of part 5 do to the text and the answer.                          *)
LEMMA Kinds5 ==
  ASSUME Types, Inv5, part = 5, NEW p \in Procs, Step(p)
  PROVE  Kinds(p, 4, 6, 3, 3, 2)
<1>1. CASE p = 1
  BY <1>1, Reader5Steps, LoadsAll, CallsPass DEF Types, Inv5, Procs, Kinds, Transport, PassesBy, Returns
<1>2. CASE p = 2
  BY <1>2, Counter5Steps, CallsPass DEF Types, Inv5, Procs, Kinds, Transport, PassesBy, Returns
<1>3. CASE p = 3
  BY <1>3, Writer5Steps, CallsPass DEF Types, Inv5, Procs, Kinds, Transport, PassesBy, Returns
<1>. QED
  BY <1>1, <1>2, <1>3 DEF Procs

(* What the steps of part 6 do to the text and the answer.                          *)
LEMMA Kinds6 ==
  ASSUME Types, Inv6, part = 6, NEW p \in Procs, Step(p)
  PROVE  Kinds(p, 4, 6, 2, 1, 10)
<1>1. CASE p = 1
  BY <1>1, Reader6Steps, LoadsAll, CallsPass DEF Types, Inv6, Procs, Kinds, Transport, PassesBy, Returns
<1>2. CASE p = 2
  BY <1>2, Counter6Steps, CallsPass DEF Types, Inv6, Procs, Kinds, Transport, PassesBy, Returns
<1>3. CASE p = 3
  BY <1>3, NoThirdProcess DEF Inv6
<1>. QED
  BY <1>1, <1>2, <1>3 DEF Procs

(* What the steps of part 7 do to the text and the answer.                          *)
LEMMA Kinds7 ==
  ASSUME Types, Inv7, part = 7, NEW p \in Procs, Step(p)
  PROVE  Kinds(p, 4, 6, 2, 1, 9)
<1>1. CASE p = 1
  BY <1>1, Reader7Steps, LoadsAll, CallsPass DEF Types, Inv7, Procs, Kinds, Transport, PassesBy, Returns
<1>2. CASE p = 2
  BY <1>2, Counter7Steps, CallsPass DEF Types, Inv7, Procs, Kinds, Transport, PassesBy, Returns
<1>3. CASE p = 3
  BY <1>3, NoThirdProcess DEF Inv7
<1>. QED
  BY <1>1, <1>2, <1>3 DEF Procs

(* What the steps of part 8 do to the text and the answer.                          *)
LEMMA Kinds8 ==
  ASSUME Types, Inv8, part = 8, NEW p \in Procs, Step(p)
  PROVE  Kinds(p, 3, 5, 2, 1, 8)
<1>1. CASE p = 1
  BY <1>1, Reader8Steps, LoadsAll, CallsPass DEF Types, Inv8, Procs, Kinds, Transport, PassesBy, Returns
<1>2. CASE p = 2
  BY <1>2, Counter8Steps, CallsPass DEF Types, Inv8, Procs, Kinds, Transport, PassesBy, Returns
<1>3. CASE p = 3
  BY <1>3, NoThirdProcess DEF Inv8
<1>. QED
  BY <1>1, <1>2, <1>3 DEF Procs

(* The invariants of parts 4 to 8 keep the processes in turn.                       *)
LEMMA InTurnIs ==
  ASSUME Inv, text # NoFile
  PROVE  /\ part = 4 => InTurn(6, 3, 3, 2)
         /\ part = 5 => InTurn(6, 3, 3, 2)
         /\ part = 6 => InTurn(6, 2, 1, 10)
         /\ part = 7 => InTurn(6, 2, 1, 9)
         /\ part = 8 => InTurn(5, 2, 1, 8)
<1>1. part = 4 => InTurn(6, 3, 3, 2)
  BY DEF Inv, Types, Inv4, InTurn, Procs
<1>2. part = 5 => InTurn(6, 3, 3, 2)
  BY DEF Inv, Types, Inv5, InTurn, Procs
<1>3. part = 6 => InTurn(6, 2, 1, 10)
  BY DEF Inv, Types, Inv6, InTurn, Procs
<1>4. part = 7 => InTurn(6, 2, 1, 9)
  BY DEF Inv, Types, Inv7, InTurn, Procs
<1>5. part = 8 => InTurn(5, 2, 1, 8)
  BY DEF Inv, Types, Inv8, InTurn, Procs
<1>. QED
  BY <1>1, <1>2, <1>3, <1>4, <1>5

(* The string in a buffer that holds what a string can hold, and nothing else.   *)
LEMMA CharsAreString ==
  ASSUME NEW string \in Seq(Chars)
  PROVE  string \in Seq(Int) /\ CString(string) = string /\ CString(string \o <<>>) = string
<1>1. string \in Seq(Int)
  <2>1. Chars \subseteq Int
    BY DEF Chars
  <2>. QED
    BY <2>1, SeqMonotonic
<1>2. IsString(string, string)
  BY DEF IsString
<1>3. string \o <<>> = string
  BY ConcatEmptySeq
<1>. QED
  BY <1>1, <1>2, <1>3, CStringIs

(* What any part computes from a text.                                           *)
LEMMA AnswerIs ==
  ASSUME NEW string \in Seq(Cells)
  PROVE  /\ Answer(string) = Expected(string)
         /\ Answer(string) \in Seq(Chars)
         /\ string \in Seq(Chars)
<1>1. FindAllNumbers(string) = NumbersOf(string) /\ NumbersOf(string) \in Seq(Nat)
  BY ScanCorrect
<1>2. MakeString(NumbersOf(string)) \in Seq(Chars)
  BY <1>1, MakeStringIs
<1>3. Cells \subseteq Chars
  BY DEF Cells, Digits, SEP, Chars, NUL
<1>4. string \in Seq(Chars)
  BY <1>3, SeqMonotonic
<1>. QED
  BY <1>1, <1>2, <1>4 DEF Answer, Expected

(* The text that parts 4 to 8 read, and their answer to it.                      *)
LEMMA TheTextIs ==
  ASSUME text \in Texts
  PROVE  /\ TheText \in Seq(Cells) /\ TheAnswer \in Seq(Chars)
         /\ TheAnswer = Expected(TheText)
         /\ First(BUF, TheText) = TheText
         /\ CString(TheText \o <<>>) = TheText
         /\ <<>> \o TheText = TheText /\ <<>> \o TheAnswer = TheAnswer
<1>1. text \in Seq(Cells) /\ BUF \in Nat
  BY PipelineAssumption
<1>2. TheText \in Seq(Cells) /\ Len(TheText) <= BUF
  BY <1>1, FirstAndRest DEF TheText
<1>3. First(BUF, TheText) = TheText
  <2>1. CASE BUF <= Len(TheText)
    <3>1. Len(TheText) = BUF
      BY <1>1, <1>2, <2>1
    <3>2. First(BUF, TheText) = SubSeq(TheText, 1, Len(TheText))
      BY <1>1, <1>2, <2>1, <3>1, FirstAndRest
    <3>. QED
      BY <1>2, <3>2, SubSeqFull
  <2>2. CASE ~(BUF <= Len(TheText))
    BY <1>1, <1>2, <2>2, FirstAndRest
  <2>. QED
    BY <2>1, <2>2
<1>4. TheAnswer = Expected(TheText) /\ TheAnswer \in Seq(Chars) /\ TheText \in Seq(Chars)
  BY <1>2, AnswerIs DEF TheAnswer
<1>5. CString(TheText \o <<>>) = TheText
  BY <1>4, CharsAreString
<1>6. <<>> \o TheText = TheText /\ <<>> \o TheAnswer = TheAnswer
  BY <1>4, ConcatEmptySeq
<1>. QED
  BY <1>2, <1>3, <1>4, <1>5, <1>6

(* Whatever a step does, text and answer stay where the program counters say.    *)
LEMMA CarriedKept ==
  ASSUME Types, Types', text \in Texts, text # NoFile, garbage = <<>>, NEW p \in Procs, UNCHANGED inputs,
         NEW load \in Nat, NEW put \in Nat, NEW get \in Nat, NEW storer \in {1, 3},
         NEW take \in Nat, 1 < load, load < put, 1 < get, 1 < take, storer = 1 => put < take,
         Carried(load, put, get, storer, take), Kinds(p, load, put, get, storer, take),
         InTurn(put, get, storer, take), InTurn(put, get, storer, take)'
  PROVE  Carried(load, put, get, storer, take)'
<1>1. TheText' = TheText /\ TheAnswer' = TheAnswer
  BY DEF inputs, TheText, TheAnswer
<1>2. /\ pc \in [Procs -> Nat] /\ pc' \in [Procs -> Nat] /\ 1 \in Procs /\ 2 \in Procs /\ storer \in Procs
      /\ buf = [q \in Procs |-> buf[q]] /\ bytes = [c \in Chans |-> bytes[c]]
      /\ 1 \in Chans /\ 2 \in Chans
      /\ ended \in [Procs -> {"no", "ok", "failed", "killed"}]
  BY DEF Types, Procs, Chans
<1>3. /\ First(BUF, TheText) = TheText /\ CString(TheText \o <<>>) = TheText
      /\ <<>> \o TheText = TheText /\ <<>> \o TheAnswer = TheAnswer
      /\ TheText = First(BUF, text) /\ TheAnswer = MakeString(FindAllNumbers(TheText))
  BY TheTextIs DEF TheText, TheAnswer, Answer
<1>. DEFINE a == pc[1]
            b == pc[2]
            c == pc[storer]
            turn == /\ a \in Nat /\ b \in Nat /\ c \in Nat /\ (storer = 1 => c = a)
                    /\ a <= put => b <= get
                    /\ b <= get + 4 => c <= take
            Held(i, j, k, x, y, z, u, v, o) ==
              /\ i \in load + 1..put => x = TheText
              /\ i <= put => u = <<>>
              /\ i > put /\ j <= get => u = TheText
              /\ j \in get + 1..get + 2 => y = TheText
              /\ j \in get + 3..get + 4 => y = TheAnswer
              /\ j <= get + 4 => v = <<>>
              /\ j > get + 4 /\ k <= take => v = TheAnswer
              /\ k \in take + 1..take + 2 => z = First(BUF, TheAnswer)
              /\ k > take + 2 => o = {First(BUF, TheAnswer)}
            held == Held(a, b, c, buf[1], buf[2], buf[storer], bytes[1], bytes[2], output)
            goal == Held(a', b', c', buf'[1], buf'[2], buf'[storer], bytes'[1], bytes'[2], output')
<1>. HIDE DEF TheText, TheAnswer
<1>4. turn /\ turn'
  BY <1>2 DEF InTurn
<1>5. 1 \in Procs /\ 2 \in Procs /\ storer \in Procs \ {2}
  BY DEF Procs
<1>6. held
  BY DEF Carried
<1>7. SUFFICES goal
  BY <1>1 DEF Carried, Held, goal, a, b, c
<1>8. CASE PassesBy(p, load, put, get, storer, take)
  <2>1. /\ UNCHANGED <<buf, bytes, output>>
        /\ p = 1 => a \notin {load, put}
        /\ p = 2 => b \notin {get, get + 2, get + 4}
        /\ p = storer => c \notin {take, take + 2}
    BY <1>8 DEF PassesBy, Passes
  <2>2. \A q \in Procs : \/ q = p /\ pc'[q] = pc[q] + 1
                         \/ q # p /\ pc'[q] = pc[q]
                         \/ q # p /\ pc[q] = 0 /\ pc'[q] = 1
    <3>1. CASE pc' = [pc EXCEPT ![p] = @ + 1]
      BY <1>2, <3>1
    <3>2. CASE ~(pc' = [pc EXCEPT ![p] = @ + 1])
      <4>1. PICK child \in Procs \ {p} :
              pc[child] = 0 /\ pc' = [pc EXCEPT ![p] = @ + 1, ![child] = 1]
        BY <1>8, <3>2 DEF PassesBy, Passes
      <4>. QED
        BY <1>2, <4>1
    <3>. QED
      BY <3>1, <3>2
  <2>3. /\ a' = (IF p = 1 THEN a + 1 ELSE a) \/ (p # 1 /\ a = 0 /\ a' = 1)
        /\ b' = (IF p = 2 THEN b + 1 ELSE b) \/ (p # 2 /\ b = 0 /\ b' = 1)
        /\ c' = (IF p = storer THEN c + 1 ELSE c) \/ (p # storer /\ c = 0 /\ c' = 1)
    BY <1>2, <2>2
  <2>4. buf' = buf /\ bytes' = bytes /\ output' = output
    BY <2>1
  <2>. HIDE DEF a, b, c
  <2>5. /\ a' \in load + 1..put => a \in load + 1..put
        /\ a' <= put => a <= put
        /\ a' > put => a > put
        /\ b' <= get => b <= get
        /\ b' \in get + 1..get + 2 => b \in get + 1..get + 2
        /\ b' \in get + 3..get + 4 => b \in get + 3..get + 4
        /\ b' <= get + 4 => b <= get + 4
        /\ b' > get + 4 => b > get + 4
        /\ c' <= take => c <= take
        /\ c' \in take + 1..take + 2 => c \in take + 1..take + 2
        /\ c' > take + 2 => c > take + 2
    <3>1. (a' = a + 1 /\ a \notin {load, put}) \/ a' = a \/ (a = 0 /\ a' = 1)
      BY <2>1, <2>3
    <3>2. (b' = b + 1 /\ b \notin {get, get + 2, get + 4}) \/ b' = b \/ (b = 0 /\ b' = 1)
      BY <2>1, <2>3
    <3>3. (c' = c + 1 /\ c \notin {take, take + 2}) \/ c' = c \/ (c = 0 /\ c' = 1)
      BY <2>1, <2>3
    <3>4. a \in Nat /\ b \in Nat /\ c \in Nat
      BY <1>4
    <3>. HIDE DEF turn
    <3>5. /\ a' \in load + 1..put => a \in load + 1..put
          /\ a' <= put => a <= put
          /\ a' > put => a > put
      BY <3>1, <3>4
    <3>6. /\ b' <= get => b <= get
          /\ b' \in get + 1..get + 2 => b \in get + 1..get + 2
          /\ b' \in get + 3..get + 4 => b \in get + 3..get + 4
          /\ b' <= get + 4 => b <= get + 4
          /\ b' > get + 4 => b > get + 4
      BY <3>2, <3>4
    <3>7. /\ c' <= take => c <= take
          /\ c' \in take + 1..take + 2 => c \in take + 1..take + 2
          /\ c' > take + 2 => c > take + 2
      BY <3>3, <3>4
    <3>. QED
      BY <3>5, <3>6, <3>7
  <2>6. buf'[1] = buf[1] /\ buf'[2] = buf[2] /\ buf'[storer] = buf[storer]
    BY <2>4
  <2>. QED
    BY <1>6, <2>4, <2>5, <2>6, SMTT(30)
<1>9. CASE Returns(p, put, get, storer, take) \/ Quit(p, "failed")
  <2>1. pc' = pc /\ bytes' = bytes /\ output' = output /\ \A q \in Procs \ {p} : buf'[q] = buf[q]
    BY <1>2, <1>9 DEF Returns, Quit
  <2>2. a' = a /\ b' = b /\ c' = c
    BY <2>1
  <2>3. /\ p = 1 => a \notin load + 1..put
        /\ p = 2 => b \notin get + 1..get + 4
        /\ p = storer => c \notin take + 1..take + 2
    <3>1. CASE Quit(p, "failed")
      <4>1. ended[p]' = "failed"
        BY <1>2, <3>1 DEF Quit
      <4>2. (p = 1 => a' <= 2) /\ (p = 2 => b' <= 1) /\ (p = 3 => storer = 1)
        BY <4>1 DEF InTurn
      <4>. QED
        BY <1>4, <2>2, <4>2
    <3>2. CASE Returns(p, put, get, storer, take)
      BY <1>4, <3>2 DEF Returns
    <3>. QED
      BY <1>9, <3>1, <3>2
  <2>4. /\ p # 1 => buf'[1] = buf[1]
        /\ p # 2 => buf'[2] = buf[2]
        /\ p # storer => buf'[storer] = buf[storer]
    BY <1>2, <2>1
  <2>5. a \in Nat /\ b \in Nat /\ c \in Nat
    BY <1>4
  <2>. HIDE DEF a, b, c, turn
  <2>6. /\ a \in load + 1..put => buf'[1] = buf[1]
        /\ b \in get + 1..get + 2 => buf'[2] = buf[2]
        /\ b \in get + 3..get + 4 => buf'[2] = buf[2]
        /\ c \in take + 1..take + 2 => buf'[storer] = buf[storer]
    BY <2>3, <2>4, <2>5
  <2>7. bytes'[1] = bytes[1] /\ bytes'[2] = bytes[2] /\ output' = output
    BY <2>1
  <2>. QED
    BY <1>6, <2>2, <2>6, <2>7
<1>10. CASE p = 1 /\ a = load /\ Calls(1, "load") /\ Read(1)
  <2>1. buf' = [buf EXCEPT ![1] = TheText] /\ pc' = [pc EXCEPT ![1] = @ + 1]
        /\ bytes' = bytes /\ output' = output
    BY <1>2, <1>3, <1>10 DEF Read, Advance, chans
  <2>2. /\ a' = load + 1 /\ b' = b /\ (storer # 1 => c' = c)
        /\ buf'[1] = TheText /\ \A q \in Procs \ {1} : buf'[q] = buf[q]
    BY <1>2, <1>10, <2>1
  <2>. HIDE DEF a, b, c
  <2>. QED
    BY <1>6, <1>5, <1>4, <1>10, <2>1, <2>2
<1>11. CASE p = 1 /\ a = put /\ Chan(1) = 1 /\ Put(1)
  <2>1. ~Quit(1, "killed")
    BY <1>2 DEF Quit, InTurn
  <2>2. /\ bytes' = [bytes EXCEPT ![1] = @ \o buf[1]] /\ buf' = [buf EXCEPT ![1] = <<>>]
        /\ pc' = [pc EXCEPT ![1] = @ + 1] /\ output' = output
    BY <1>11, <2>1 DEF Put, Advance
  <2>3. buf[1] = TheText /\ bytes[1] = <<>>
    BY <1>4, <1>11 DEF Carried
  <2>4. bytes'[1] = TheText /\ bytes'[2] = bytes[2]
    <3>1. bytes'[1] = bytes[1] \o buf[1] /\ bytes'[2] = bytes[2]
      BY <1>2, <2>2
    <3>. QED
      BY <1>3, <2>3, <3>1
  <2>5. a' = put + 1 /\ b' = b /\ (storer # 1 => c' = c) /\ \A q \in Procs \ {1} : buf'[q] = buf[q]
    BY <1>2, <1>11, <2>2
  <2>6. /\ buf'[2] = buf[2] /\ (storer # 1 => buf'[storer] = buf[storer])
        /\ output' = output /\ a = put /\ (storer = 1 => a' = c' /\ c' <= take)
    BY <1>5, <1>4, <1>11, <2>2, <2>5
  <2>. HIDE DEF a, b, c
  <2>. QED
    BY <1>6, <1>4, <2>4, <2>5, <2>6
<1>12. CASE p = 2 /\ b = get /\ Chan(2) = 1 /\ Get(2)
  <2>1. /\ buf' = [buf EXCEPT ![2] = First(BUF, bytes[1])]
        /\ bytes' = [bytes EXCEPT ![1] = Rest(BUF, @)]
        /\ pc' = [pc EXCEPT ![2] = @ + 1] /\ output' = output
    BY <1>12 DEF Get, Advance
  <2>2. b' = get + 1 /\ a' = a /\ c' = c
    BY <1>2, <1>12, <2>1
  <2>3. a > put
    BY <1>4, <2>2
  <2>4. bytes[1] = TheText
    BY <1>4, <1>12, <2>3 DEF Carried
  <2>5. /\ buf'[2] = TheText /\ bytes'[2] = bytes[2]
        /\ \A q \in Procs \ {2} : buf'[q] = buf[q]
    BY <1>2, <1>3, <2>1, <2>4
  <2>6. /\ buf'[1] = buf[1] /\ buf'[storer] = buf[storer]
        /\ output' = output /\ b = get
    BY <1>5, <1>12, <2>1, <2>5
  <2>7. /\ b' \notin get + 3..get + 4 /\ ~(b' <= get) /\ b <= get + 4 /\ ~(b' > get + 4)
        /\ ~(a' <= put) /\ a' \notin load + 1..put
    BY <1>4, <2>2, <2>3, <2>6
  <2>. HIDE DEF a, b, c, turn
  <2>8. /\ a' \in load + 1..put => buf'[1] = TheText
        /\ a' <= put => bytes'[1] = <<>>
        /\ a' > put /\ b' <= get => bytes'[1] = TheText
    BY <2>7
  <2>9. /\ b' \in get + 1..get + 2 => buf'[2] = TheText
        /\ b' \in get + 3..get + 4 => buf'[2] = TheAnswer
        /\ b' <= get + 4 => bytes'[2] = <<>>
        /\ b' > get + 4 /\ c' <= take => bytes'[2] = TheAnswer
    BY <1>6, <2>5, <2>7
  <2>10. /\ c' \in take + 1..take + 2 => buf'[storer] = First(BUF, TheAnswer)
         /\ c' > take + 2 => output' = {First(BUF, TheAnswer)}
    BY <1>6, <2>2, <2>6
  <2>. QED
    BY <2>8, <2>9, <2>10
<1>13. CASE p = 2 /\ b = get + 2 /\ Count(2)
  <2>1. buf[2] = TheText
    BY <1>4, <1>13 DEF Carried
  <2>2. /\ buf' = [buf EXCEPT ![2] = TheAnswer]
        /\ pc' = [pc EXCEPT ![2] = @ + 1] /\ bytes' = bytes /\ output' = output
    BY <1>3, <1>13, <2>1 DEF Count, Advance, chans
  <2>3. /\ b' = get + 3 /\ a' = a /\ c' = c
        /\ buf'[2] = TheAnswer /\ \A q \in Procs \ {2} : buf'[q] = buf[q]
    BY <1>2, <1>13, <2>2
  <2>4. /\ buf'[1] = buf[1] /\ buf'[storer] = buf[storer] /\ bytes'[1] = bytes[1]
        /\ bytes'[2] = bytes[2] /\ output' = output
    BY <1>5, <2>2, <2>3
  <2>5. /\ b' \notin get + 1..get + 2 /\ ~(b' <= get) /\ b <= get + 4 /\ ~(b' > get + 4)
        /\ (a' > put /\ b' <= get => b <= get)
    BY <1>4, <1>13, <2>3
  <2>. HIDE DEF a, b, c, turn
  <2>. QED
    BY <1>6, <2>3, <2>4, <2>5
<1>14. CASE p = 2 /\ b = get + 4 /\ Chan(2) = 2 /\ Put(2)
  <2>1. ~Quit(2, "killed")
    BY <1>2 DEF Quit, InTurn
  <2>2. /\ bytes' = [bytes EXCEPT ![2] = @ \o buf[2]] /\ buf' = [buf EXCEPT ![2] = <<>>]
        /\ pc' = [pc EXCEPT ![2] = @ + 1] /\ output' = output
    BY <1>14, <2>1 DEF Put, Advance
  <2>3. buf[2] = TheAnswer /\ bytes[2] = <<>>
    BY <1>4, <1>14 DEF Carried
  <2>4. bytes'[2] = TheAnswer /\ bytes'[1] = bytes[1]
    <3>1. bytes'[2] = bytes[2] \o buf[2] /\ bytes'[1] = bytes[1]
      BY <1>2, <2>2
    <3>2. <<>> \o TheAnswer = TheAnswer
      BY <1>3
    <3>. QED
      BY <2>3, <3>1, <3>2, Zenon
  <2>5. b' = get + 5 /\ a' = a /\ c' = c /\ \A q \in Procs \ {2} : buf'[q] = buf[q]
    BY <1>2, <1>14, <2>2
  <2>6. buf'[1] = buf[1] /\ buf'[storer] = buf[storer] /\ output' = output
    BY <1>5, <2>2, <2>5
  <2>7. a' \in Nat /\ a' > put /\ b' \in Nat /\ b' > get + 4
    BY <1>4, <1>14, <2>5
  <2>. HIDE DEF a, b, c, turn
  <2>8. /\ a' \in load + 1..put => buf'[1] = TheText
        /\ a' <= put => bytes'[1] = <<>>
        /\ a' > put /\ b' <= get => bytes'[1] = TheText
    BY <2>7
  <2>9. /\ b' \in get + 1..get + 2 => buf'[2] = TheText
        /\ b' \in get + 3..get + 4 => buf'[2] = TheAnswer
        /\ b' <= get + 4 => bytes'[2] = <<>>
        /\ b' > get + 4 /\ c' <= take => bytes'[2] = TheAnswer
    BY <2>4, <2>5
  <2>10. /\ c' \in take + 1..take + 2 => buf'[storer] = First(BUF, TheAnswer)
         /\ c' > take + 2 => output' = {First(BUF, TheAnswer)}
    BY <1>6, <2>5, <2>6
  <2>. QED
    BY <2>8, <2>9, <2>10
<1>15. CASE p = storer /\ c = take /\ Chan(p) = 2 /\ Get(p)
  <2>1. /\ buf' = [buf EXCEPT ![storer] = First(BUF, bytes[2])]
        /\ bytes' = [bytes EXCEPT ![2] = Rest(BUF, @)]
        /\ pc' = [pc EXCEPT ![storer] = @ + 1] /\ output' = output
    BY <1>15 DEF Get, Advance
  <2>2. c' = take + 1 /\ b' = b /\ (storer # 1 => a' = a)
    BY <1>2, <1>15, <2>1
  <2>3. b > get + 4
    BY <1>4, <2>2
  <2>4. bytes[2] = TheAnswer
    BY <1>4, <1>15, <2>3 DEF Carried
  <2>5. /\ buf'[storer] = First(BUF, TheAnswer) /\ bytes'[1] = bytes[1]
        /\ \A q \in Procs \ {storer} : buf'[q] = buf[q]
    BY <1>2, <2>1, <2>4
  <2>6. a' \in Nat /\ a' > put /\ b' \in Nat /\ b' > get + 4
    BY <1>4, <2>2, <2>3
  <2>. HIDE DEF a, b, c, turn
  <2>7. /\ a' \in load + 1..put => buf'[1] = TheText
        /\ a' <= put => bytes'[1] = <<>>
        /\ a' > put /\ b' <= get => bytes'[1] = TheText
    BY <2>6
  <2>8. /\ b' \in get + 1..get + 2 => buf'[2] = TheText
        /\ b' \in get + 3..get + 4 => buf'[2] = TheAnswer
        /\ b' <= get + 4 => bytes'[2] = <<>>
        /\ b' > get + 4 /\ c' <= take => bytes'[2] = TheAnswer
    BY <2>2, <2>6
  <2>9. /\ c' \in take + 1..take + 2 => buf'[storer] = First(BUF, TheAnswer)
        /\ c' > take + 2 => output' = {First(BUF, TheAnswer)}
    BY <2>2, <2>5
  <2>. QED
    BY <2>7, <2>8, <2>9
<1>16. CASE p = storer /\ c = take + 2 /\ Store(p)
  <2>1. /\ output' = {buf[storer]} /\ buf' = [buf EXCEPT ![storer] = <<>>]
        /\ pc' = [pc EXCEPT ![storer] = @ + 1] /\ bytes' = bytes
    BY <1>16 DEF Store, Advance, chans
  <2>2. output' = {First(BUF, TheAnswer)}
    BY <1>4, <1>16, <2>1 DEF Carried
  <2>3. /\ c' = take + 3 /\ b' = b /\ (storer # 1 => a' = a)
        /\ \A q \in Procs \ {storer} : buf'[q] = buf[q]
    BY <1>2, <1>16, <2>1
  <2>4. a' \in Nat /\ a' > put /\ b' \in Nat /\ b' > get + 4
    BY <1>4, <1>16, <2>3
  <2>. HIDE DEF a, b, c, turn
  <2>5. /\ a' \in load + 1..put => buf'[1] = TheText
        /\ a' <= put => bytes'[1] = <<>>
        /\ a' > put /\ b' <= get => bytes'[1] = TheText
    BY <2>4
  <2>6. /\ b' \in get + 1..get + 2 => buf'[2] = TheText
        /\ b' \in get + 3..get + 4 => buf'[2] = TheAnswer
        /\ b' <= get + 4 => bytes'[2] = <<>>
        /\ b' > get + 4 /\ c' <= take => bytes'[2] = TheAnswer
    BY <2>3, <2>4
  <2>7. /\ c' \in take + 1..take + 2 => buf'[storer] = First(BUF, TheAnswer)
        /\ c' > take + 2 => output' = {First(BUF, TheAnswer)}
    BY <2>2, <2>3
  <2>. QED
    BY <2>5, <2>6, <2>7
<1>. QED
  BY <1>8, <1>9, <1>10, <1>11, <1>12, <1>13, <1>14, <1>15, <1>16 DEF Kinds, Transport

(* Parts 4 to 8: at the start nothing is on its way.                             *)
LEMMA Answers4to8Init ==
  ASSUME Init
  PROVE  Answers4to8
<1>1. pc[1] = 1 /\ pc[2] \in {0, 1} /\ pc[3] = 0 /\ bytes[1] = <<>> /\ bytes[2] = <<>>
  BY DEF Init, Procs, Chans
<1>. QED
  BY <1>1 DEF Answers4to8, Carried

(* Parts 4 to 8: every step keeps text and answer on their way.                  *)
LEMMA Answers4to8Kept ==
  ASSUME Inv, Inv', text # NoFile, garbage = <<>>, Answers4to8, NEW p \in Procs, Step(p)
  PROVE  Answers4to8'
<1>1. Types /\ Types' /\ text \in Texts /\ UNCHANGED inputs /\ text' # NoFile
  BY StepFrame DEF Inv, Types, inputs
<1>2. part' = part
  BY <1>1 DEF inputs
<1>3. /\ part = 4 => InTurn(6, 3, 3, 2)'
      /\ part = 5 => InTurn(6, 3, 3, 2)'
      /\ part = 6 => InTurn(6, 2, 1, 10)'
      /\ part = 7 => InTurn(6, 2, 1, 9)'
      /\ part = 8 => InTurn(5, 2, 1, 8)'
  <2>1. (Inv /\ text # NoFile =>
           /\ part = 4 => InTurn(6, 3, 3, 2)
           /\ part = 5 => InTurn(6, 3, 3, 2)
           /\ part = 6 => InTurn(6, 2, 1, 10)
           /\ part = 7 => InTurn(6, 2, 1, 9)
           /\ part = 8 => InTurn(5, 2, 1, 8))'
    BY InTurnIs, PTL
  <2>. QED
    BY <1>1, <1>2, <2>1
<1>4. ASSUME part = 4 PROVE Carried(4, 6, 3, 3, 2)'
  <2>1. InTurn(6, 3, 3, 2) /\ InTurn(6, 3, 3, 2)' /\ Carried(4, 6, 3, 3, 2)
    BY <1>3, <1>4, InTurnIs DEF Answers4to8
  <2>2. Kinds(p, 4, 6, 3, 3, 2)
    BY <1>4, Kinds4 DEF Inv
  <2>. QED
    BY <1>1, <2>1, <2>2, CarriedKept
<1>5. ASSUME part = 5 PROVE Carried(4, 6, 3, 3, 2)'
  <2>1. InTurn(6, 3, 3, 2) /\ InTurn(6, 3, 3, 2)' /\ Carried(4, 6, 3, 3, 2)
    BY <1>3, <1>5, InTurnIs DEF Answers4to8
  <2>2. Kinds(p, 4, 6, 3, 3, 2)
    BY <1>5, Kinds5 DEF Inv
  <2>. QED
    BY <1>1, <2>1, <2>2, CarriedKept
<1>6. ASSUME part = 6 PROVE Carried(4, 6, 2, 1, 10)'
  <2>1. InTurn(6, 2, 1, 10) /\ InTurn(6, 2, 1, 10)' /\ Carried(4, 6, 2, 1, 10)
    BY <1>3, <1>6, InTurnIs DEF Answers4to8
  <2>2. Kinds(p, 4, 6, 2, 1, 10)
    BY <1>6, Kinds6 DEF Inv
  <2>. QED
    BY <1>1, <2>1, <2>2, CarriedKept
<1>7. ASSUME part = 7 PROVE Carried(4, 6, 2, 1, 9)'
  <2>1. InTurn(6, 2, 1, 9) /\ InTurn(6, 2, 1, 9)' /\ Carried(4, 6, 2, 1, 9)
    BY <1>3, <1>7, InTurnIs DEF Answers4to8
  <2>2. Kinds(p, 4, 6, 2, 1, 9)
    BY <1>7, Kinds7 DEF Inv
  <2>. QED
    BY <1>1, <2>1, <2>2, CarriedKept
<1>8. ASSUME part = 8 PROVE Carried(3, 5, 2, 1, 8)'
  <2>1. InTurn(5, 2, 1, 8) /\ InTurn(5, 2, 1, 8)' /\ Carried(3, 5, 2, 1, 8)
    BY <1>3, <1>8, InTurnIs DEF Answers4to8
  <2>2. Kinds(p, 3, 5, 2, 1, 8)
    BY <1>8, Kinds8 DEF Inv
  <2>. QED
    BY <1>1, <2>1, <2>2, CarriedKept
<1>. QED
  BY <1>2, <1>4, <1>5, <1>6, <1>7, <1>8 DEF Answers4to8

(* Parts 4 to 8: what is stored in the end is the answer.                        *)
LEMMA Answers4to8Tell ==
  ASSUME Inv, text # NoFile, Answers4to8, Stored, part \in 4..8
  PROVE  output = {First(BUF, Expected(First(BUF, text)))}
<1>1. text \in Texts
  BY DEF Inv, Types
<1>2. TheAnswer = Expected(First(BUF, text))
  BY <1>1, TheTextIs DEF TheText
<1>3. CASE part \in {4, 5}
  <2>1. pc[3] = 5
    BY <1>3 DEF Inv, Inv4, Inv5, Stored
  <2>. QED
    BY <1>2, <1>3, <2>1 DEF Answers4to8, Carried
<1>4. CASE part \in {6, 7, 8}
  <2>1. ended[1] = "ok"
    BY <1>4 DEF Stored
  <2>2. /\ part = 6 => pc[1] = 13
        /\ part = 7 => pc[1] = 14
        /\ part = 8 => pc[1] = 13
    BY <2>1 DEF Inv, Inv6, Inv7, Inv8
  <2>. QED
    BY <1>2, <1>4, <2>2 DEF Answers4to8, Carried
<1>. QED
  BY <1>3, <1>4

(* Parts 4 and 5 without a file: the first process fails at its reading call, and the *)
(* others never come past their gets, since in part 4 they themselves hold the ends   *)
(* that could be written to, and in part 5 nobody opens the other side.               *)
Unread4 ==
  /\ pc[1] \in 1..4 /\ pc[2] \in 0..3 /\ pc[3] \in 0..2
  /\ ended[2] = "no" /\ ended[3] = "no"
  /\ bytes[1] = <<>> /\ bytes[2] = <<>>
  /\ pc[1] <= 3 <=> pc[2] = 0
  /\ pc[2] <= 1 <=> pc[3] = 0
  /\ pc[1] \in 2..4 /\ ended[1] = "no" => Holds(1, 1, "w")
  /\ pc[1] = 3 /\ ended[1] = "no" => Holds(1, 2, "w")
  /\ pc[2] \in 1..3 => Holds(2, 2, "w")
  /\ pc[2] = 1 => Holds(2, 1, "w")
  /\ pc[3] \in 1..2 => Holds(3, 1, "w")

Unread5 ==
  /\ pc[1] \in 1..4 /\ pc[2] \in 0..3 /\ pc[3] \in 0..2
  /\ ended[3] # "ok"
  /\ ends \subseteq {<<2, 1, "r">>, <<3, 2, "r">>}
  /\ pc[1] <= 3 <=> pc[2] = 0
  /\ pc[2] <= 1 <=> pc[3] = 0
  /\ Holds(2, 1, "r") => pc[2] = 3
  /\ pc[2] = 3 => Waits(2, 1, "r")
  /\ pc[3] = 2 => Waits(3, 2, "r")

Unread ==
  /\ part = 4 => Unread4
  /\ part = 5 => Unread5

(* Part 4 without a file: every step leaves the other processes before their gets.   *)
LEMMA Unread4Kept ==
  ASSUME Types, Unread4, part = 4, text = NoFile, NEW p \in Procs, Step(p)
  PROVE  Unread4'
<1>1. CASE p = 1
  <2>1. CASE Ready(1) /\ pc[1] = 1 /\ Chan(1) = 1 /\ Pipe(1)
    BY <2>1 DEF Types, Unread4, Holds, Ready, Procs, Chans, chans, Pipe, Advance
  <2>2. CASE Ready(1) /\ pc[1] = 2 /\ Chan(1) = 2 /\ Pipe(1)
    BY <2>2 DEF Types, Unread4, Holds, Ready, Procs, Chans, chans, Pipe, Advance
  <2>3. CASE Ready(1) /\ pc[1] = 3 /\ Chan(1) = 2 /\ Fork(1)
    BY <2>3 DEF Types, Unread4, Holds, Ready, Procs, Chans, chans, Fork
  <2>4. CASE Ready(1) /\ pc[1] = 4 /\ Read(1)
    BY <2>4 DEF Types, Unread4, Holds, Ready, Procs, Chans, chans, Read, Quit
  <2>. QED
    BY <1>1, <2>1, <2>2, <2>3, <2>4, Reader4Steps DEF Types, Unread4
<1>2. CASE p = 2
  <2>1. CASE Ready(2) /\ pc[2] = 1 /\ Chan(2) = 3 /\ Fork(2)
    BY <2>1 DEF Types, Unread4, Holds, Ready, Procs, Chans, chans, Fork
  <2>2. CASE Ready(2) /\ pc[2] = 2 /\ Chan(2) = 1 /\ Mode(2) = "w" /\ Close(2)
    BY <2>2 DEF Types, Unread4, Holds, Ready, Procs, Chans, chans, Close, Advance
  <2>3. ~(pc[2] = 3 /\ Chan(2) = 1 /\ Get(2))
    BY DEF Unread4, Get, HasWriter, Holds
  <2>. QED
    BY <1>2, <2>1, <2>2, <2>3, Counter4Steps DEF Types, Unread4
<1>3. CASE p = 3
  <2>1. CASE Ready(3) /\ pc[3] = 1 /\ Chan(3) = 2 /\ Mode(3) = "w" /\ Close(3)
    BY <2>1 DEF Types, Unread4, Holds, Ready, Procs, Chans, chans, Close, Advance
  <2>2. ~(pc[3] = 2 /\ Chan(3) = 2 /\ Get(3))
    BY DEF Unread4, Get, HasWriter, Holds
  <2>. QED
    BY <1>3, <2>1, <2>2, Writer4Steps DEF Types, Unread4
<1>. QED
  BY <1>1, <1>2, <1>3 DEF Procs

(* Part 5 without a file: the other processes wait in their opens.                  *)
LEMMA Unread5Kept ==
  ASSUME Types, Unread5, part = 5, text = NoFile, NEW p \in Procs, Step(p)
  PROVE  Unread5'
<1>1. CASE p = 1
  <2>1. CASE Ready(1) /\ pc[1] = 1 /\ Chan(1) = 1 /\ Mkfifo(1)
    BY <2>1 DEF Types, Unread5, Holds, Waits, Procs, Chans, chans, Mkfifo, Advance, Quit
  <2>2. CASE Ready(1) /\ pc[1] = 2 /\ Chan(1) = 2 /\ Mkfifo(1)
    BY <2>2 DEF Types, Unread5, Holds, Waits, Procs, Chans, chans, Mkfifo, Advance, Quit
  <2>3. CASE Ready(1) /\ pc[1] = 3 /\ Chan(1) = 2 /\ Fork(1)
    <3>1. ends' = ends
      BY <2>3 DEF Unread5, Fork
    <3>2. pc' = [pc EXCEPT ![1] = @ + 1, ![2] = 1] /\ UNCHANGED <<ended, opening>>
      BY <2>3 DEF Fork
    <3>. QED
      BY <2>3, <3>1, <3>2 DEF Types, Unread5, Holds, Waits, Procs
  <2>4. CASE Ready(1) /\ pc[1] = 4 /\ Read(1)
    BY <2>4 DEF Types, Unread5, Holds, Waits, Procs, Chans, chans, Read, Quit
  <2>. QED
    BY <1>1, <2>1, <2>2, <2>3, <2>4, Reader5Steps DEF Types, Unread5
<1>2. CASE p = 2
  <2>1. CASE Ready(2) /\ pc[2] = 1 /\ Chan(2) = 3 /\ Fork(2)
    <3>1. ends' = ends
      <4>1. ASSUME NEW e \in ends PROVE e[1] # 2
        BY <2>1 DEF Ready, Unread5, Holds
      <4>. QED
        BY <2>1, <4>1 DEF Fork
    <3>2. pc' = [pc EXCEPT ![2] = @ + 1, ![3] = 1] /\ UNCHANGED <<ended, opening>>
      BY <2>1 DEF Fork
    <3>. QED
      BY <2>1, <3>1, <3>2 DEF Types, Unread5, Holds, Waits, Procs
  <2>2. CASE Ready(2) /\ pc[2] = 2 /\ Chan(2) = 1 /\ Mode(2) = "r" /\ Open(2)
    <3>1. CASE Chan(2) \notin names
      BY <2>2, <3>1 DEF Types, Unread5, Holds, Waits, Procs, Open, Quit
    <3>2. CASE Chan(2) \in names
      <4>1. 2 \in Procs /\ ends \subseteq FifoEnds(3) /\ ~Holds(1, 1, "w")
        BY DEF Procs, Unread5, FifoEnds, Holds
      <4>2. /\ ends' = ends \cup {<<2, 1, "r">>}
            /\ pc' = [pc EXCEPT ![2] = @ + 1] /\ ended' = ended
            /\ Waits(2, 1, "r")'
            /\ \A r, d, m : d # 1 /\ Waits(r, d, m) => Waits(r, d, m)'
        BY <2>2, <3>2, <4>1, OpenWaits
      <4>3. Waits(3, 2, "r") => Waits(3, 2, "r")'
        BY <4>2
      <4>. QED
        BY <2>2, <4>2, <4>3 DEF Types, Unread5, Holds, Procs
    <3>. QED
      BY <3>1, <3>2
  <2>3. ~(Ready(2) /\ pc[2] = 3)
    BY DEF Ready, Unread5, Waits
  <2>. QED
    BY <1>2, <2>1, <2>2, <2>3, Counter5Steps DEF Types, Unread5
<1>3. CASE p = 3
  <2>1. CASE Ready(3) /\ pc[3] = 1 /\ Chan(3) = 2 /\ Mode(3) = "r" /\ Open(3)
    <3>1. CASE Chan(3) \notin names
      BY <2>1, <3>1 DEF Types, Unread5, Holds, Waits, Procs, Open, Quit
    <3>2. CASE Chan(3) \in names
      <4>1. 3 \in Procs /\ ends \subseteq FifoEnds(3) /\ ~Holds(2, 2, "w")
        BY DEF Procs, Unread5, FifoEnds, Holds
      <4>2. /\ ends' = ends \cup {<<3, 2, "r">>}
            /\ pc' = [pc EXCEPT ![3] = @ + 1] /\ ended' = ended
            /\ Waits(3, 2, "r")'
            /\ \A r, d, m : d # 2 /\ Waits(r, d, m) => Waits(r, d, m)'
        BY <2>1, <3>2, <4>1, OpenWaits
      <4>3. Waits(2, 1, "r") => Waits(2, 1, "r")'
        BY <4>2
      <4>. QED
        BY <2>1, <4>2, <4>3 DEF Types, Unread5, Holds, Procs
    <3>. QED
      BY <3>1, <3>2
  <2>2. ~(Ready(3) /\ pc[3] = 2)
    BY DEF Ready, Unread5, Waits
  <2>. QED
    BY <1>3, <2>1, <2>2, Writer5Steps DEF Types, Unread5
<1>. QED
  BY <1>1, <1>2, <1>3 DEF Procs

(* At the start nobody has come anywhere.                                           *)
LEMMA UnreadInit ==
  ASSUME Init
  PROVE  Unread
BY DEF Init, Unread, Unread4, Unread5, Holds, Procs, Chans, TwoPrograms

(* Without a file nothing is ever stored.                                           *)
LEMMA UnreadTells ==
  ASSUME Inv, Unread, text = NoFile
  PROVE  ~Stored
BY DEF Inv, Types, Parts, ReadsFirst, Unread, Unread4, Unread5, Stored
--------------------------------------------------------------------------------
(* Part 9: who has opened and closed the second FIFO, and who has ended where.       *)
Fifo9 ==
  /\ pc[2] <= 5 => pc[1] <= 8
  /\ pc[1] = 8 /\ pc[2] <= 5 => Waits(1, 2, "r")
  /\ pc[2] = 6 /\ pc[1] <= 7 => Waits(2, 2, "w")
  /\ Holds(1, 2, "r") <=> pc[1] \in 8..10
  /\ Holds(2, 2, "w") => pc[2] \in 6..7
  /\ pc[2] \in 6..7 /\ ended[2] = "no" => Holds(2, 2, "w")
  /\ ended[2] = "failed" => pc[2] <= 2
  /\ ended[2] = "killed" => pc[1] >= 11 /\ pc[2] = 6
  /\ ended[2] = "ok" => pc[2] = 8
  /\ pc[2] >= 3 => pc[1] >= 5

(* Part 9, the process that reads the file: it opens and closes the second FIFO.     *)
LEMMA Reader9Fifo ==
  ASSUME Types, Inv9, Inv9', Fifo9, part = 9, text # NoFile, Step(1)
  PROVE  Fifo9'
<1>. USE DEF Inv9
<1>1. CASE Ready(1) /\ pc[1] = 1 /\ Chan(1) = 1 /\ Mkfifo(1)
  BY <1>1 DEF Types, Order9, Fifo9, Holds, Waits, Ready, Procs, Mkfifo, Advance, Quit
<1>2. CASE Ready(1) /\ pc[1] = 2 /\ Chan(1) = 2 /\ Mkfifo(1)
  BY <1>2 DEF Types, Order9, Fifo9, Holds, Waits, Ready, Procs, Mkfifo, Advance, Quit
<1>3. CASE Ready(1) /\ pc[1] = 3 /\ Read(1)
  BY <1>3 DEF Types, Order9, Fifo9, Holds, Waits, Ready, Procs, chans, Read, Advance
<1>4. CASE Ready(1) /\ pc[1] = 4 /\ Chan(1) = 1 /\ Mode(1) = "w" /\ Open(1)
  <2>1. 1 \in Procs /\ Chan(1) \in names /\ ends \subseteq FifoEnds(1)
    BY <1>4 DEF Order9, Procs
  <2>2. /\ ends' = ends \cup {<<1, 1, "w">>} /\ ended' = ended
        /\ pc' = [pc EXCEPT ![1] = @ + 1]
        /\ \A q, c, m : c # 1 /\ Waits(q, c, m) => Waits(q, c, m)'
    BY <1>4, <2>1, OpenWaits
  <2>3. /\ Waits(1, 2, "r") => Waits(1, 2, "r")'
        /\ Waits(2, 2, "w") => Waits(2, 2, "w")'
    BY <2>2
  <2>4. /\ Holds(1, 2, "r")' <=> Holds(1, 2, "r")
        /\ Holds(2, 2, "w")' <=> Holds(2, 2, "w")
    BY <2>2 DEF Holds
  <2>5. pc'[1] = 5 /\ pc'[2] = pc[2]
    BY <1>4, <2>2 DEF Types, Procs
  <2>. QED
    BY <1>4, <2>2, <2>3, <2>4, <2>5 DEF Fifo9
<1>5. CASE Ready(1) /\ pc[1] = 5 /\ Chan(1) = 1 /\ Feed(1)
  BY <1>5, ReaderIsThere DEF Types, Order9, Fifo9, Holds, Waits, Procs, chans, Feed, Advance
<1>6. CASE Ready(1) /\ pc[1] = 6 /\ Chan(1) = 1 /\ Mode(1) = "w" /\ Close(1)
  BY <1>6 DEF Types, Order9, Fifo9, Holds, Waits, Ready, Procs, Close, Advance
<1>7. CASE Ready(1) /\ pc[1] = 7 /\ Chan(1) = 2 /\ Mode(1) = "r" /\ Open(1)
  <2>1. 1 \in Procs /\ Chan(1) \in names /\ ends \subseteq FifoEnds(1)
    BY <1>7 DEF Order9, Procs
  <2>2. /\ ends' = ends \cup {<<1, 2, "r">>} /\ ended' = ended
        /\ pc' = [pc EXCEPT ![1] = @ + 1]
        /\ ~Holds(2, 2, "w") => Waits(1, 2, "r")'
    BY <1>7, <2>1, OpenWaits
  <2>3. Holds(1, 2, "r")' /\ (Holds(2, 2, "w")' <=> Holds(2, 2, "w"))
    BY <2>2 DEF Holds
  <2>4. pc'[1] = 8 /\ pc'[2] = pc[2]
    BY <1>7, <2>2 DEF Types, Procs
  <2>. QED
    BY <1>7, <2>2, <2>3, <2>4 DEF Fifo9
<1>8. CASE Ready(1) /\ pc[1] = 8 /\ Creat(1)
  BY <1>8 DEF Types, Order9, Fifo9, Holds, Waits, Ready, Procs, chans, Creat, Advance
<1>9. CASE Ready(1) /\ pc[1] = 9 /\ Chan(1) = 2 /\ Drain(1)
  <2>1. (pc' = pc \/ pc' = [pc EXCEPT ![1] = @ + 1]) /\ UNCHANGED <<ended, ends, opening>>
    BY <1>9 DEF Drain, Advance
  <2>2. pc'[1] \in {9, 10} /\ pc'[2] = pc[2]
    BY <1>9, <2>1 DEF Types, Procs
  <2>. QED
    BY <1>9, <2>1, <2>2 DEF Fifo9, Holds, Waits
<1>10. CASE Ready(1) /\ pc[1] = 10 /\ Chan(1) = 2 /\ Mode(1) = "r" /\ Close(1)
  BY <1>10 DEF Types, Order9, Fifo9, Holds, Waits, Ready, Procs, Close, Advance
<1>11. CASE Ready(1) /\ pc[1] = 11 /\ Chan(1) = 1 /\ Unlink(1)
  BY <1>11 DEF Types, Order9, Fifo9, Holds, Waits, Ready, Procs, Unlink, Advance
<1>12. CASE Ready(1) /\ pc[1] = 12 /\ Chan(1) = 2 /\ Unlink(1)
  BY <1>12 DEF Types, Order9, Fifo9, Holds, Waits, Ready, Procs, Unlink, Advance
<1>13. CASE pc[1] = 13 /\ Exit(1)
  BY <1>13 DEF Types, Order9, Fifo9, Holds, Waits, Procs, Exit, Quit
<1>. QED
  BY Reader9Steps, <1>1, <1>2, <1>3, <1>4, <1>5, <1>6, <1>7, <1>8, <1>9, <1>10, <1>11,
     <1>12, <1>13 DEF Types

(* Part 9, the process that counts: it opens and closes the second FIFO.             *)
LEMMA Counter9Fifo ==
  ASSUME Types, Inv9, Inv9', Fifo9, part = 9, text # NoFile, Step(2)
  PROVE  Fifo9'
<1>. USE DEF Inv9
<1>1. CASE Ready(2) /\ pc[2] = 1 /\ Chan(2) = 1 /\ Mode(2) = "r" /\ Open(2)
  <2>1. CASE 1 \notin names
    <3>1. Quit(2, "failed")
      BY <1>1, <2>1 DEF Open
    <3>. QED
      BY <1>1, <3>1 DEF Types, Order9, Fifo9, Holds, Waits, Procs, Quit
  <2>2. CASE 1 \in names
    <3>1. 2 \in Procs /\ Chan(2) \in names /\ ends \subseteq FifoEnds(1)
      BY <1>1, <2>2 DEF Order9, Procs
    <3>2. /\ ends' = ends \cup {<<2, 1, "r">>} /\ ended' = ended
          /\ pc' = [pc EXCEPT ![2] = @ + 1]
          /\ \A q, c, m : c # 1 /\ Waits(q, c, m) => Waits(q, c, m)'
      BY <1>1, <3>1, OpenWaits
    <3>3. Waits(1, 2, "r") => Waits(1, 2, "r")'
      BY <3>2
    <3>4. /\ Holds(1, 2, "r")' <=> Holds(1, 2, "r")
          /\ Holds(2, 2, "w")' <=> Holds(2, 2, "w")
      BY <3>2 DEF Holds
    <3>5. pc'[1] = pc[1] /\ pc'[2] = 2
      BY <1>1, <3>2 DEF Types, Procs
    <3>. QED
      BY <1>1, <3>2, <3>3, <3>4, <3>5 DEF Fifo9
  <2>. QED
    BY <2>1, <2>2
<1>2. CASE Ready(2) /\ pc[2] = 2 /\ Chan(2) = 1 /\ Gather(2)
  <2>1. CASE Quit(2, "failed")
    BY <1>2, <2>1 DEF Types, Order9, Fifo9, Holds, Waits, Procs, Quit
  <2>2. CASE ~Quit(2, "failed")
    <3>1. /\ pc' = pc \/ pc' = [pc EXCEPT ![2] = @ + 1]
          /\ UNCHANGED <<ended, ends, opening>>
      BY <1>2, <2>2 DEF Gather, Advance
    <3>2. pc[1] \in Nat /\ pc'[1] = pc[1] /\ pc'[2] \in {2, 3}
      BY <1>2, <3>1 DEF Types, Procs
    <3>3. pc[1] >= 5
      BY <1>2 DEF Ready, Waits, Order9
    <3>. QED
      BY <1>2, <3>1, <3>2, <3>3 DEF Fifo9, Holds, Waits, Ready
  <2>. QED
    BY <2>1, <2>2
<1>3. CASE Ready(2) /\ pc[2] = 3 /\ Chan(2) = 1 /\ Mode(2) = "r" /\ Close(2)
  BY <1>3 DEF Types, Order9, Fifo9, Holds, Waits, Ready, Procs, Close, Advance
<1>4. CASE Ready(2) /\ pc[2] = 4 /\ AnswerOfLength(2)
  BY <1>4 DEF Types, Order9, Fifo9, Holds, Waits, Ready, Procs, chans, AnswerOfLength, Advance
<1>5. CASE Ready(2) /\ pc[2] = 5 /\ Chan(2) = 2 /\ Mode(2) = "w" /\ Open(2)
  <2>1. 2 \in Procs /\ Chan(2) \in names /\ ends \subseteq FifoEnds(1)
    BY <1>5 DEF Order9, Fifo9, Procs
  <2>2. /\ ends' = ends \cup {<<2, 2, "w">>} /\ ended' = ended
        /\ pc' = [pc EXCEPT ![2] = @ + 1]
        /\ ~Holds(1, 2, "r") => Waits(2, 2, "w")'
    BY <1>5, <2>1, OpenWaits
  <2>3. Holds(2, 2, "w")' /\ (Holds(1, 2, "r")' <=> Holds(1, 2, "r"))
    BY <2>2 DEF Holds
  <2>4. pc'[1] = pc[1] /\ pc'[2] = 6
    BY <1>5, <2>2 DEF Types, Procs
  <2>. QED
    BY <1>5, <2>2, <2>3, <2>4 DEF Fifo9
<1>6. CASE Ready(2) /\ pc[2] = 6 /\ Chan(2) = 2 /\ Feed(2)
  <2>1. pc[1] \in Nat /\ pc[1] >= 8
    BY <1>6 DEF Types, Procs, Ready, Waits, Fifo9
  <2>2. CASE Quit(2, "killed")
    <3>1. CASE HasReader(2) \/ buf[2] = <<>>
      <4>1. pc' = pc \/ pc' = [pc EXCEPT ![2] = @ + 1]
        BY <1>6, <3>1 DEF Feed, Advance
      <4>2. ended' = ended
        BY <1>6, <3>1 DEF Feed
      <4>. QED
        BY <1>6, <2>2, <4>2 DEF Quit, Types, Procs, Ready
    <3>2. CASE ~HasReader(2)
      <4>1. ~Holds(1, 2, "r")
        BY <3>2 DEF HasReader, Holds
      <4>2. pc[1] >= 11
        BY <2>1, <4>1 DEF Fifo9
      <4>. QED
        BY <1>6, <2>2, <4>1, <4>2 DEF Types, Fifo9, Holds, Waits, Procs, Quit
    <3>. QED
      BY <3>1, <3>2
  <2>3. CASE ~Quit(2, "killed")
    <3>1. /\ pc' = pc \/ pc' = [pc EXCEPT ![2] = @ + 1]
          /\ UNCHANGED <<ended, ends, opening>>
      BY <1>6, <2>3 DEF Feed, Advance, chans
    <3>2. pc'[1] = pc[1] /\ pc'[2] \in {6, 7}
      BY <1>6, <3>1 DEF Types, Procs
    <3>. QED
      BY <1>6, <2>1, <3>1, <3>2 DEF Fifo9, Holds, Waits, Ready
  <2>. QED
    BY <2>2, <2>3
<1>7. CASE Ready(2) /\ pc[2] = 7 /\ Chan(2) = 2 /\ Mode(2) = "w" /\ Close(2)
  BY <1>7 DEF Types, Order9, Fifo9, Holds, Waits, Ready, Procs, Close, Advance
<1>8. CASE pc[2] = 8 /\ Exit(2)
  BY <1>8 DEF Types, Order9, Fifo9, Holds, Waits, Procs, Exit, Quit
<1>. QED
  BY Counter9Steps, <1>1, <1>2, <1>3, <1>4, <1>5, <1>6, <1>7, <1>8 DEF Types

(* Part 9: what the steps do to the text and the answer.                             *)
LEMMA ReadsOn ==
  ASSUME part \in {9, 10}, pc[1] = 3, Read(1)
  PROVE  ~Calls(1, "load")
<1>1. Programs[part][1][pc[1]] = <<"source">>
  BY DEF Programs, Parts, Reader9, Reader10
<1>. QED
  BY <1>1 DEF Calls

(* Part 9, the process that reads the file: what its steps do.                       *)
LEMMA Reader9Kinds ==
  ASSUME Types, Order9, Order9', part = 9, text # NoFile, Step(1)
  PROVE  \/ pc[1] = 3 /\ Read(1)
         \/ Ready(1) /\ pc[1] = 5 /\ Chan(1) = 1 /\ Feed(1)
         \/ Ready(1) /\ pc[1] = 8 /\ Creat(1)
         \/ Ready(1) /\ pc[1] = 9 /\ Chan(1) = 2 /\ Drain(1)
         \/ pc[1] \in {1, 2, 4, 6, 7, 10, 11, 12} /\ Passes(1)
         \/ pc[1] = 13 /\ Quit(1, "ok")
         \/ pc[1] <= 2 /\ Quit(1, "failed")
<1>1. Quit(1, "failed") => pc[1] <= 2
  BY DEF Quit, Types, Order9, Procs
<1>. QED
  BY <1>1, Reader9Steps, CallsPass DEF Types, Procs

(* Part 9, the process that counts: what its steps do.                               *)
LEMMA Counter9Kinds ==
  ASSUME Types, Fifo9', part = 9, Step(2)
  PROVE  \/ Ready(2) /\ pc[2] = 2 /\ Chan(2) = 1 /\ Gather(2)
         \/ pc[2] = 4 /\ AnswerOfLength(2)
         \/ pc[2] = 6 /\ Chan(2) = 2 /\ Feed(2)
         \/ pc[2] \in {1, 3, 5, 7} /\ Passes(2)
         \/ pc[2] = 8 /\ Quit(2, "ok")
         \/ pc[2] <= 2 /\ Quit(2, "failed")
<1>1. Quit(2, "failed") => pc[2] <= 2
  BY DEF Quit, Types, Fifo9, Procs
<1>. QED
  BY <1>1, Counter9Steps, CallsPass DEF Types, Procs

(* A step that passes by moves its own process on, and no other that has begun.      *)
LEMMA PassesMoves ==
  ASSUME Types, NEW p \in Procs, NEW q \in Procs, p # q, pc[q] # 0, Passes(p)
  PROVE  pc'[p] = pc[p] + 1 /\ pc'[q] = pc[q] /\ UNCHANGED <<buf, bytes, output>>
<1>1. CASE pc' = [pc EXCEPT ![p] = @ + 1]
  BY <1>1 DEF Types, Passes
<1>2. CASE \E child \in Procs \ {p} : pc[child] = 0 /\ pc' = [pc EXCEPT ![p] = @ + 1, ![child] = 1]
  BY <1>2 DEF Types, Passes
<1>. QED
  BY <1>1, <1>2 DEF Passes

(* Part 9: what the second program has gathered, what is in the FIFO and what the    *)
(* first one still has to write is the text, in this order.                          *)

Underway9 == buf[2] \o (bytes[1] \o buf[1]) = text
Written9 == buf[2] \o bytes[1] = text
InHand9 == buf[2] \in Seq(Int) /\ IsString(buf[2], text)

Gathered9 ==
  /\ pc[2] <= 1 => buf[2] = <<>>
  /\ pc[1] <= 3 => buf[2] = <<>>
  /\ pc[1] \in 4..5 /\ pc[2] <= 2 /\ ended[2] = "no" => Underway9
  /\ pc[1] >= 6 /\ pc[2] <= 2 /\ ended[2] = "no" => Written9
  /\ pc[2] \in 3..4 => InHand9

(* Part 9, the process that reads the file: it writes the text in order.            *)
LEMMA Reader9Gathered ==
  ASSUME Types, Inv9, Inv9', Fifo9, Gathered9, part = 9, text # NoFile, Step(1)
  PROVE  Gathered9'
<1>0. /\ text' = text /\ ended'[2] = ended[2] /\ buf'[2] = buf[2] /\ text \in Seq(Cells)
      /\ pc[1] \in 1..13 /\ pc[2] \in 1..8 /\ pc'[2] \in 1..8 /\ 1 \in Procs /\ 2 \in Procs
      /\ pc'[2] \in {pc[2], 1}
  BY StepFrame, PipelineAssumption DEF Types, inputs, Inv9, Order9, Procs
<1>8. text' = text /\ buf'[2] = buf[2]
  BY <1>0
<1>9. InHand9 => InHand9'
  BY <1>0 DEF InHand9, IsString
<1>1. CASE pc[1] = 3 /\ Read(1)
  <2>1. buf'[1] = text /\ bytes'[1] = bytes[1] /\ pc'[1] = 4 /\ pc'[2] = pc[2]
    BY <1>1, ReadsOn DEF Types, Read, Advance, chans, Procs
  <2>2. bytes[1] = <<>> /\ buf[2] = <<>>
    BY <1>1 DEF Inv9, Chunks9, Gathered9
  <2>3. Underway9'
    BY <1>0, <2>1, <2>2, ConcatEmptySeq DEF Underway9
  <2>4. pc'[2] <= 1 => buf'[2] = <<>>
    BY <1>0, <2>2
  <2>. QED
    BY <1>0, <1>1, <1>9, <2>1, <2>3, <2>4 DEF Gathered9
<1>2. CASE Ready(1) /\ pc[1] = 5 /\ Chan(1) = 1 /\ Feed(1)
  <2>1. bytes[1] \in Seq(Cells) /\ buf[1] \in Seq(Cells) /\ CHUNK \in Nat
    BY <1>2, PipelineAssumption DEF Inv9, Chunks9
  <2>2. CASE buf[1] = <<>>
    <3>1. bytes'[1] = bytes[1] /\ pc'[1] = 6 /\ pc'[2] = pc[2]
      BY <1>2, <2>2 DEF Types, Feed, Advance, chans, Procs
    <3>2. bytes[1] \o <<>> = bytes[1]
      BY <2>1, ConcatEmptySeq
    <3>3. Underway9 => Written9'
      BY <1>8, <2>2, <3>1, <3>2 DEF Underway9, Written9
    <3>. QED
      BY <1>0, <1>2, <1>9, <3>1, <3>3 DEF Gathered9
  <2>3. CASE buf[1] # <<>>
    <3>1. /\ bytes' = [bytes EXCEPT ![1] = @ \o First(CHUNK, buf[1])]
          /\ buf' = [buf EXCEPT ![1] = Rest(CHUNK, @)]
          /\ pc' = pc
      BY <1>2, <2>3, ReaderIsThere DEF Feed
    <3>2. bytes'[1] = bytes[1] \o First(CHUNK, buf[1]) /\ buf'[1] = Rest(CHUNK, buf[1])
      BY <3>1 DEF Types, Procs, Chans
    <3>3. (bytes[1] \o First(CHUNK, buf[1])) \o Rest(CHUNK, buf[1]) = bytes[1] \o buf[1]
      <4>. DEFINE sent == bytes[1]  hand == buf[1]
      <4>1. sent \in Seq(Cells) /\ hand \in Seq(Cells)
        BY <2>1
      <4>. HIDE DEF sent, hand
      <4>2. (sent \o First(CHUNK, hand)) \o Rest(CHUNK, hand) = sent \o hand
        BY <2>1, <4>1, FeedsInOrder, SMTT(30)
      <4>. QED
        BY <4>2 DEF sent, hand
    <3>4. bytes'[1] \o buf'[1] = bytes[1] \o buf[1]
      BY <3>2, <3>3
    <3>5. Underway9 => Underway9'
      <4>. DEFINE left == bytes[1] \o buf[1]
      <4>1. left' = left
        BY <3>4
      <4>2. /\ Underway9 <=> buf[2] \o left = text
            /\ Underway9' <=> buf'[2] \o left' = text'
        BY DEF Underway9
      <4>. HIDE DEF left
      <4>. QED
        BY <1>8, <4>1, <4>2
    <3>. QED
      BY <1>0, <1>2, <1>9, <3>1, <3>5 DEF Gathered9
  <2>. QED
    BY <2>2, <2>3
<1>3. ASSUME pc'[1] = pc[1] + 1 \/ pc'[1] = pc[1], pc'[2] = pc[2], bytes'[1] = bytes[1],
             pc[1] \notin {3, 5}, pc[1] = 4 => buf'[1] = buf[1]
      PROVE  Gathered9'
  <2>1. Written9 => Written9'
    BY <1>8, <1>3 DEF Written9
  <2>2. pc[1] = 4 => (Underway9 => Underway9')
    BY <1>8, <1>3 DEF Underway9
  <2>3. (pc[2] <= 1 => buf'[2] = <<>>) /\ (pc[1] <= 3 => buf'[2] = <<>>)
    BY <1>0 DEF Gathered9
  <2>. QED
    BY <1>0, <1>3, <1>9, <2>1, <2>2, <2>3, SMTT(30) DEF Gathered9
<1>4. CASE Ready(1) /\ pc[1] = 8 /\ Creat(1)
  BY <1>4, <1>3 DEF Types, Procs, Chans, Creat, Advance, chans
<1>5. CASE Ready(1) /\ pc[1] = 9 /\ Chan(1) = 2 /\ Drain(1)
  <2>1. /\ pc' = pc \/ pc' = [pc EXCEPT ![1] = @ + 1]
        /\ bytes' = [bytes EXCEPT ![2] = Rest(CHUNK, @)]
    BY <1>5 DEF Drain, Advance
  <2>. QED
    BY <1>3, <1>5, <2>1 DEF Types, Procs, Chans
<1>6. CASE pc[1] \in {1, 2, 4, 6, 7, 10, 11, 12} /\ Passes(1)
  <2>1. pc'[1] = pc[1] + 1 /\ pc'[2] = pc[2] /\ UNCHANGED <<buf, bytes, output>>
    BY <1>0, <1>6, PassesMoves
  <2>. QED
    BY <1>3, <1>6, <2>1
<1>7. CASE (pc[1] = 13 /\ Quit(1, "ok")) \/ (pc[1] <= 2 /\ Quit(1, "failed"))
  BY <1>0, <1>3, <1>7 DEF Quit
<1>. QED
  BY <1>1, <1>2, <1>4, <1>5, <1>6, <1>7, Reader9Kinds DEF Inv9

(* Part 9: one turn of the second program's reading loop, chunk by chunk.            *)
LEMMA GatherGathered ==
  ASSUME Types, Inv9, Inv9', Fifo9, Gathered9, part = 9, text # NoFile,
         Ready(2), pc[2] = 2, Chan(2) = 1, Gather(2), ~Quit(2, "failed")
  PROVE  /\ pc'[1] = pc[1] /\ pc'[2] \in {2, 3} /\ ended' = ended /\ text' = text
         /\ pc[1] = 5 /\ pc'[2] = 2 => Underway9'
         /\ pc[1] >= 6 /\ pc'[2] = 2 => Written9'
         /\ pc'[2] = 3 => InHand9'
<1>. DEFINE data == buf[2]
            channel == bytes[1]
            hand == buf[1]
            chunk == First(CHUNK, channel)
            rest == Rest(CHUNK, channel)
            grown == Grown(data, chunk)
<1>1. channel \in Seq(Cells) /\ data \in Seq(Cells) /\ CHUNK \in Nat \ {0} /\ text \in Seq(Cells)
  BY PipelineAssumption DEF Inv9, Chunks9, Types
<1>2. chunk \in Seq(Cells) /\ rest \in Seq(Cells)
  BY <1>1, FirstAndRest
<1>3. /\ ended' = ended /\ text' = text
      /\ bytes' = [bytes EXCEPT ![1] = rest]
      /\ buf' = IF chunk = <<>> THEN buf ELSE [buf EXCEPT ![2] = Cut(grown, Len(chunk))]
      /\ pc' = IF chunk = <<>> \/ Nuls(grown, Len(chunk)) # {} THEN [pc EXCEPT ![2] = @ + 1] ELSE pc
  BY DEF Gather, Advance, inputs
<1>4. /\ pc'[1] = pc[1] /\ bytes'[1] = rest /\ buf'[1] = hand
      /\ buf'[2] = IF chunk = <<>> THEN data ELSE Cut(grown, Len(chunk))
      /\ pc'[2] = IF chunk = <<>> \/ Nuls(grown, Len(chunk)) # {} THEN 3 ELSE 2
  <2>. HIDE DEF chunk, rest, grown
  <2>. QED
    BY <1>3 DEF Types, Procs, Chans
<1>5. pc[1] >= 5 /\ pc[1] \in Nat
  BY DEF Inv9, Order9, Ready, Waits
<1>6. /\ Underway9 <=> data \o (channel \o hand) = text
      /\ Written9 <=> data \o channel = text
  BY DEF Underway9, Written9
<1>7. /\ Underway9' <=> buf'[2] \o (rest \o hand) = text
      /\ Written9' <=> buf'[2] \o rest = text
      /\ InHand9' <=> buf'[2] \in Seq(Int) /\ IsString(buf'[2], text)
  BY <1>3, <1>4 DEF Underway9, Written9, InHand9, IsString
<1>8. /\ pc[1] = 5 => Underway9 /\ hand \in Seq(Cells)
      /\ pc[1] >= 6 => Written9
  BY DEF Gathered9, Ready, Inv9, Chunks9
<1>9. Cells \subseteq Chars /\ Cells \subseteq Int /\ text \in Seq(Chars) /\ text \in Seq(Int)
  <2>1. Cells \subseteq Chars /\ Cells \subseteq Int
    BY DEF Cells, Digits, SEP, Chars, NUL
  <2>. QED
    BY <1>1, <2>1, SeqMonotonic
<1>10. CASE chunk = <<>>
  <2>1. pc[1] >= 6
    <3>1. channel = <<>>
      <4>. HIDE DEF channel, chunk
      <4>. QED
        BY <1>1, <1>10, FirstIs DEF chunk, channel
    <3>2. ~HasWriter(1)
      BY <3>1 DEF Gather
    <3>. QED
      BY <1>5, <3>2 DEF HasWriter, Holds, Inv9, Order9
  <2>2. channel = <<>>
    <3>. HIDE DEF channel, chunk
    <3>. QED
      BY <1>1, <1>10, FirstIs DEF chunk, channel
  <2>3. data \o <<>> = data
    <3>. HIDE DEF data
    <3>. QED
      BY <1>1, ConcatEmptySeq
  <2>4. data = text
    BY <1>6, <1>8, <2>1, <2>2, <2>3, Zenon
  <2>5. IsString(text, text)
    BY <1>1 DEF IsString
  <2>6. InHand9'
    BY <1>4, <1>7, <1>9, <1>10, <2>4, <2>5
  <2>. QED
    BY <1>3, <1>4, <1>10, <2>6
<1>11. CASE chunk # <<>> /\ Len(channel) < CHUNK
  <2>1. chunk = channel
    BY <1>1, <1>11, FirstIs
  <2>2. Len(chunk) \in 1..CHUNK - 1
    <3>1. Len(channel) \in Nat /\ Len(channel) # 0
      BY <1>1, <1>11, <2>1
    <3>. QED
      BY <1>1, <1>11, <2>1, <3>1
  <2>. HIDE DEF chunk, data
  <2>3. Nuls(grown, Len(chunk)) # {}
    BY <1>1, <1>2, <2>2, GrownIs
  <2>4. data \o chunk = text
    <3>1. ~Feeding
      <4>1. Len(channel) \notin Multiples
        <5>1. Len(channel) \in Nat /\ Len(channel) # 0
          BY <1>1, <1>11, <2>1
        <5>. QED
          BY <1>11, <1>1, <5>1, MultiplesAre
      <4>. QED
        BY <4>1 DEF Inv9, Chunks9
    <3>2. pc[1] = 5 => hand = <<>>
      BY <1>5, <3>1 DEF Feeding
    <3>3. channel \o <<>> = channel
      <4>. HIDE DEF channel
      <4>. QED
        BY <1>1, ConcatEmptySeq
    <3>4. pc[1] = 5 => data \o channel = text
      <4>. HIDE DEF channel, hand
      <4>. QED
        BY <1>6, <1>8, <3>2, <3>3, Zenon
    <3>5. pc[1] >= 6 => data \o channel = text
      BY <1>6, <1>8, Zenon
    <3>6. pc[1] = 5 \/ pc[1] >= 6
      BY <1>5
    <3>. QED
      BY <2>1, <3>4, <3>5, <3>6, Zenon
  <2>5. Cut(grown, Len(chunk)) \in Seq(Int) /\ IsString(Cut(grown, Len(chunk)), data \o chunk)
    BY <1>1, <1>2, <2>2, CutIs
  <2>. HIDE DEF grown
  <2>6. InHand9'
    <3>1. buf'[2] = Cut(grown, Len(chunk))
      BY <1>4, <1>11
    <3>2. buf'[2] \in Seq(Int) /\ IsString(buf'[2], text)
      BY <2>4, <2>5, <3>1, Zenon
    <3>. QED
      BY <1>7, <3>2, Zenon
  <2>. QED
    BY <1>3, <1>4, <2>3, <2>6
<1>12. CASE chunk # <<>> /\ Len(channel) >= CHUNK
  <2>0. Len(chunk) = CHUNK
    BY <1>1, <1>12, FirstIs
  <2>1. Len(chunk) \in 1..CHUNK
    BY <1>1, <2>0
  <2>. HIDE DEF chunk, data
  <2>2. Nuls(grown, Len(chunk)) = {} /\ Cut(grown, Len(chunk)) = data \o chunk
    BY <1>1, <1>2, <2>0, <2>1, GrownIs
  <2>. HIDE DEF grown
  <2>3. pc'[2] = 2 /\ buf'[2] = data \o chunk
    BY <1>4, <1>12, <2>2
  <2>4. pc[1] = 5 => Underway9'
    <3>1. ASSUME hand \in Seq(Cells)
          PROVE  (data \o chunk) \o (rest \o hand) = data \o (channel \o hand)
      <4>1. chunk \o rest = channel
        BY <1>1, FirstAndRest DEF chunk
      <4>. HIDE DEF hand, channel, rest
      <4>. DEFINE behind == rest \o hand
      <4>2. behind \in Seq(Cells)
        BY <1>2, <3>1, ConcatProperties
      <4>3. (chunk \o rest) \o hand = chunk \o behind
        BY <1>2, <3>1, ConcatAssociative
      <4>. HIDE DEF behind
      <4>4. (data \o chunk) \o behind = data \o (chunk \o behind)
        BY <1>1, <1>2, <4>2, ConcatAssociative, SMTT(30)
      <4>. QED
        BY <4>1, <4>3, <4>4, Zenon DEF behind
    <3>. HIDE DEF hand, channel, rest
    <3>. QED
      BY <1>6, <1>7, <1>8, <2>3, <3>1, Zenon
  <2>5. pc[1] >= 6 => Written9'
    <3>1. (data \o chunk) \o rest = data \o channel
      <4>. HIDE DEF channel
      <4>1. (data \o First(CHUNK, channel)) \o Rest(CHUNK, channel) = data \o channel
        <5>1. CHUNK \in Nat
          BY <1>1
        <5>. QED
          BY <1>1, <5>1, FeedsInOrder, SMTT(30)
      <4>. QED
        BY <4>1, Zenon DEF chunk
    <3>. HIDE DEF channel, rest
    <3>. QED
      BY <1>6, <1>7, <1>8, <2>3, <3>1, Zenon
  <2>. QED
    BY <1>3, <1>4, <2>3, <2>4, <2>5
<1>13. Len(channel) \in Nat
  BY <1>1
<1>. QED
  BY <1>1, <1>10, <1>11, <1>12, <1>13

(* Part 9, the process that counts: it gathers the text in order.                    *)
LEMMA Counter9Gathered ==
  ASSUME Types, Inv9, Inv9', Fifo9, Fifo9', Gathered9, part = 9, text # NoFile, Step(2)
  PROVE  Gathered9'
<1>1. /\ text' = text /\ pc[1] \in 1..13 /\ pc[2] \in 1..8 /\ 1 \in Procs /\ 2 \in Procs
      /\ buf'[1] = buf[1]
  BY StepFrame DEF inputs, Inv9, Order9, Procs
<1>2. ASSUME pc'[1] = pc[1], pc'[2] >= 5, pc'[2] \in Nat
      PROVE  Gathered9'
  BY <1>2 DEF Gathered9, Inv9, Order9, Fifo9
<1>3. ASSUME pc[2] # 2, pc[2] <= 3, pc'[1] = pc[1], pc'[2] = pc[2] + 1, UNCHANGED <<buf, bytes>>
      PROVE  Gathered9'
  <2>1. /\ Underway9' <=> Underway9
        /\ Written9' <=> Written9
        /\ InHand9' <=> InHand9
    BY <1>1, <1>3 DEF Underway9, Written9, InHand9, IsString
  <2>2. ended'[2] = "no" => ended[2] = "no"
    BY StepEffects, <1>1 DEF Ends, Types
  <2>3. buf'[2] = buf[2]
    BY <1>3
  <2>. QED
    BY <1>1, <1>3, <2>1, <2>2, <2>3 DEF Gathered9
<1>4. CASE Quit(2, "failed") /\ pc[2] <= 2
  <2>1. pc' = pc /\ buf'[2] = <<>> /\ ended'[2] = "failed"
    BY <1>1, <1>4 DEF Quit, Types
  <2>. QED
    BY <1>1, <1>4, <2>1 DEF Gathered9
<1>5. CASE Ready(2) /\ pc[2] = 2 /\ Chan(2) = 1 /\ Gather(2) /\ ~Quit(2, "failed")
  <2>1. /\ pc'[1] = pc[1] /\ pc'[2] \in {2, 3} /\ ended' = ended
        /\ pc[1] = 5 /\ pc'[2] = 2 => Underway9'
        /\ pc[1] >= 6 /\ pc'[2] = 2 => Written9'
        /\ pc'[2] = 3 => InHand9'
    BY <1>5, GatherGathered
  <2>2. pc[1] >= 5
    BY <1>5 DEF Inv9, Order9, Ready, Waits
  <2>. QED
    BY <1>1, <2>1, <2>2 DEF Gathered9
<1>6. CASE pc[2] = 4 /\ AnswerOfLength(2)
  <2>1. pc'[1] = pc[1] /\ pc'[2] = 5
    BY <1>1, <1>6 DEF AnswerOfLength, Advance, Types
  <2>. QED
    BY <1>2, <2>1
<1>7. CASE pc[2] = 6 /\ Chan(2) = 2 /\ Feed(2)
  <2>1. pc' = pc \/ pc' = [pc EXCEPT ![2] = @ + 1]
    BY <1>7 DEF Feed, Advance, Quit
  <2>2. pc'[1] = pc[1] /\ pc'[2] \in {6, 7}
    BY <1>1, <1>7, <2>1 DEF Types
  <2>. QED
    BY <1>2, <2>2
<1>8. CASE pc[2] \in {1, 3, 5, 7} /\ Passes(2)
  <2>1. pc'[2] = pc[2] + 1 /\ pc'[1] = pc[1] /\ UNCHANGED <<buf, bytes, output>>
    BY <1>1, <1>8, PassesMoves
  <2>. QED
    BY <1>2, <1>3, <1>8, <2>1
<1>9. CASE pc[2] = 8 /\ Quit(2, "ok")
  <2>1. pc' = pc
    BY <1>9 DEF Quit
  <2>. QED
    BY <1>1, <1>2, <1>9, <2>1
<1>. QED
  BY <1>4, <1>5, <1>6, <1>7, <1>8, <1>9, Counter9Kinds

(* Part 9: the data the second program sends is as long as what it gathered, and in  *)
(* it stands the answer, or as much of it as there is room for.                      *)
Cut9(data, string) ==
  /\ CString(data) = string
  /\ \E m \in Nat : m >= Len(text) /\ string = First(m, Answer(text))

(* The data is in the second FIFO and in the second program's hand, or the first one *)
(* has stored a beginning of it without a NUL, or has stored the string in it.       *)
InFifo9(data) ==
  /\ bytes[2] \in Seq(Int) /\ buf[2] \in Seq(Int)
  /\ bytes[2] \o buf[2] = data

Partly9(data) ==
  /\ bytes[2] \in Seq(Int) /\ buf[2] \in Seq(Int)
  /\ \E stored \in Seq(Chars) : output = {stored} /\ stored \o (bytes[2] \o buf[2]) = data

OnItsWay9(data, string) ==
  /\ pc[1] <= 8 => InFifo9(data)
  /\ pc[1] = 9 => Partly9(data)
  /\ pc[1] >= 10 => output = {string}

Sent9 ==
  /\ pc[2] <= 5 => bytes[2] = <<>>
  /\ pc[2] >= 7 => buf[2] = <<>>
  /\ pc[2] >= 5 => \E data \in Seq(Int), string \in Seq(Chars) :
                     Cut9(data, string) /\ OnItsWay9(data, string)

(* Part 9: the answer as the second program cuts it.                                 *)
LEMMA AnswerCut ==
  ASSUME Types, InHand9, text # NoFile, text' = text, bytes[2] = <<>>, bytes'[2] = <<>>,
         buf'[2] = First(Len(buf[2]), Answer(CString(buf[2])) \o Zeros(Len(buf[2])))
  PROVE  \E data \in Seq(Int), string \in Seq(Chars) : Cut9(data, string)' /\ InFifo9(data)'
<1>1. text \in Seq(Cells) /\ buf[2] \in Seq(Int) /\ IsString(buf[2], text)
  BY PipelineAssumption DEF Types, InHand9
<1>2. PICK m \in Nat : m = Len(buf[2])
  BY <1>1
<1>3. text \in Seq(Chars) /\ Answer(text) \in Seq(Chars)
  BY <1>1, AnswerIs
<1>4. CString(buf[2]) = text
  BY <1>1, <1>3, CStringIs
<1>5. PICK answer \in Seq(Chars) : answer = Answer(text)
  BY <1>3
<1>6. PICK data \in Seq(Int), string \in Seq(Chars) :
             data = First(m, answer \o Zeros(m)) /\ string = First(m, answer)
  BY FirstOfString
<1>7. CString(data) = string
  <2>1. IsString(data, string)
    BY <1>6, FirstOfString
  <2>. QED
    BY <2>1, CStringIs
<1>8. buf'[2] = data
  BY <1>2, <1>4, <1>5, <1>6
<1>9. Cut9(data, string)'
  <2>1. m >= Len(text)
    BY <1>1, <1>2 DEF IsString
  <2>2. answer = Answer(text')
    BY <1>5, Zenon
  <2>3. m >= Len(text') /\ string = First(m, Answer(text'))
    BY <1>6, <2>1, <2>2, Zenon
  <2>. QED
    BY <1>7, <2>3 DEF Cut9
<1>10. InFifo9(data)'
  <2>1. <<>> \o data = data /\ <<>> \in Seq(Int)
    BY ConcatEmptySeq
  <2>. QED
    BY <1>8, <2>1 DEF InFifo9
<1>. QED
  BY <1>9, <1>10

(* Concatenations may be grouped in any way.                                         *)
LEMMA InAnyGroups == \A x, y, z \in Seq(Int) : (x \o y) \o z = x \o (y \o z)
BY ConcatAssociative, SMTT(20)

(* Part 9: one turn of the loop in which the first program stores the answer.        *)
LEMMA DrainStores ==
  ASSUME Types, Types', Inv9, Fifo9, Sent9, part = 9, pc[1] = 9, Chan(1) = 2, Drain(1),
         NEW data \in Seq(Int), Partly9(data)
  PROVE  /\ pc'[2] = pc[2] /\ buf' = buf
         /\ \/ pc'[1] = 9 /\ Partly9(data)'
            \/ pc'[1] = 10 /\ output' = {CString(data)}
<1>1. bytes[2] \in Seq(Int) /\ buf[2] \in Seq(Int) /\ CHUNK \in Nat /\ CHUNK # 0
  BY PipelineAssumption DEF Partly9
<1>2. PICK stored \in Seq(Chars) : output = {stored} /\ stored \o (bytes[2] \o buf[2]) = data
  BY DEF Partly9
<1>3. PICK channel \in Seq(Int), hand \in Seq(Int) : channel = bytes[2] /\ hand = buf[2]
  BY <1>1
<1>4. PICK chunk \in Seq(Int), rest \in Seq(Int) :
             chunk = First(CHUNK, channel) /\ rest = Rest(CHUNK, channel)
  BY <1>1, FirstAndRest
<1>5. /\ output' = {stored \o CString(chunk)} /\ buf' = buf
      /\ bytes' = [bytes EXCEPT ![2] = rest]
      /\ pc' = IF chunk = <<>> \/ CString(chunk) # chunk THEN [pc EXCEPT ![1] = @ + 1] ELSE pc
  BY <1>2, <1>3, <1>4 DEF Drain, Advance
<1>6. /\ pc'[2] = pc[2] /\ bytes'[2] = rest /\ buf'[2] = hand
      /\ pc'[1] = IF chunk = <<>> \/ CString(chunk) # chunk THEN 10 ELSE 9
  BY <1>3, <1>5 DEF Types, Procs, Chans
<1>7. stored \in Seq(Int)
  <2>1. Chars \subseteq Int
    BY DEF Chars
  <2>. QED
    BY <2>1, SeqMonotonic
<1>8. PICK after \in Seq(Int) : after = rest \o hand
  BY ConcatProperties
<1>9. stored \o (chunk \o after) = data /\ (stored \o chunk) \o after = data
  <2>1. chunk \o rest = channel
    BY <1>1, <1>4, FirstAndRest
  <2>2. (chunk \o rest) \o hand = chunk \o (rest \o hand)
    BY InAnyGroups, ZenonT(60)
  <2>3. (stored \o chunk) \o after = stored \o (chunk \o after)
    BY <1>7, InAnyGroups, ZenonT(60)
  <2>4. stored \o (channel \o hand) = data
    BY <1>2, <1>3, Zenon
  <2>5. chunk \o after = channel \o hand
    BY <1>8, <2>1, <2>2, Zenon
  <2>6. stored \o (chunk \o after) = data
    BY <2>4, <2>5, Zenon
  <2>. QED
    BY <2>3, <2>6, Zenon
<1>10. CASE chunk = <<>>
  <2>1. channel = <<>>
    <3>1. Len(chunk) = IF CHUNK <= Len(channel) THEN CHUNK ELSE Len(channel)
      BY <1>1, <1>4, FirstAndRest
    <3>2. Len(channel) = 0
      BY <1>1, <1>10, <3>1
    <3>. QED
      BY <3>2
  <2>2. ~Holds(2, 2, "w")
    BY <1>3, <2>1 DEF Drain, HasWriter, Holds
  <2>3. hand = <<>>
    <3>1. pc[2] >= 7
      BY <2>2, SMTT(30) DEF Fifo9, Types, Procs, Inv9, Order9
    <3>. QED
      BY <1>3, <3>1 DEF Sent9
  <2>4. data = stored
    <3>1. <<>> \o <<>> = <<>> /\ stored \o <<>> = stored
      BY <1>7, ConcatEmptySeq
    <3>. QED
      BY <1>2, <1>3, <2>1, <2>3, <3>1, Zenon
  <2>5. CString(stored) = stored /\ CString(chunk) = <<>> /\ stored \o <<>> = stored
    <3>1. <<>> \in Seq(Chars)
      OBVIOUS
    <3>2. CString(<<>>) = <<>>
      BY <3>1, CharsAreString
    <3>3. stored \o <<>> = stored
      BY <1>7, ConcatEmptySeq
    <3>. QED
      BY <1>10, <3>2, <3>3, CharsAreString
  <2>6. output' = {CString(data)}
    BY <1>5, <2>4, <2>5, Zenon
  <2>. QED
    BY <1>5, <1>6, <1>10, <2>6
<1>11. CASE chunk # <<>> /\ CString(chunk) # chunk
  <2>1. stored \o CString(chunk) = CString(stored \o (chunk \o after))
    BY <1>11, StringOfChunks
  <2>2. output' = {CString(data)}
    BY <1>5, <1>9, <2>1, Zenon
  <2>. QED
    BY <1>5, <1>6, <1>11, <2>2
<1>12. CASE chunk # <<>> /\ CString(chunk) = chunk
  <2>1. chunk \in Seq(Chars)
    BY <1>12, StringOfChunks
  <2>2. stored \o chunk \in Seq(Chars)
    BY <2>1, ConcatProperties
  <2>3. PICK now \in Seq(Chars) : now = stored \o chunk
    BY <2>2
  <2>4. output' = {now} /\ now \o (bytes'[2] \o buf'[2]) = data
    BY <1>5, <1>6, <1>8, <1>9, <1>12, <2>3, Zenon
  <2>5. bytes'[2] \in Seq(Int) /\ buf'[2] \in Seq(Int)
    BY <1>6
  <2>6. Partly9(data)'
    BY <2>4, <2>5, Zenon DEF Partly9
  <2>. QED
    BY <1>5, <1>6, <1>12, <2>6
<1>. QED
  BY <1>10, <1>11, <1>12

(* Part 9: the second program sends a chunk, and the data is where it was.           *)
LEMMA FeedSends ==
  ASSUME Types, Inv9, Inv9', Fifo9, Fifo9', Sent9, part = 9, pc[2] = 6, Chan(2) = 2, Feed(2),
         NEW data \in Seq(Int), NEW string, OnItsWay9(data, string)
  PROVE  /\ OnItsWay9(data, string)'
         /\ pc'[2] = 6 \/ (pc'[2] = 7 /\ buf'[2] = <<>>)
<1>1. pc[1] \in 1..13 /\ 1 \in Procs /\ 2 \in Procs /\ 2 \in Chans
  BY DEF Inv9, Order9, Procs, Chans
<1>2. CASE buf[2] = <<>>
  <2>1. pc' = [pc EXCEPT ![2] = @ + 1] /\ UNCHANGED <<buf, bytes, output>>
    BY <1>2 DEF Feed, Advance, chans
  <2>2. pc'[1] = pc[1] /\ pc'[2] = 7
    BY <1>1, <2>1 DEF Types
  <2>3. /\ InFifo9(data) => InFifo9(data)'
        /\ Partly9(data) => Partly9(data)'
    BY <2>1 DEF InFifo9, Partly9
  <2>. QED
    BY <1>2, <2>1, <2>2, <2>3 DEF OnItsWay9
<1>3. CASE buf[2] # <<>> /\ ~HasReader(2)
  <2>1. Quit(2, "killed")
    BY <1>3 DEF Feed
  <2>2. pc' = pc /\ output' = output
    BY <2>1 DEF Quit
  <2>3. pc[1] >= 11
    <3>1. ended'[2] = "killed"
      BY <1>1, <2>1 DEF Quit, Types
    <3>. QED
      BY <2>2, <3>1 DEF Fifo9
  <2>. QED
    BY <1>1, <2>2, <2>3, SMTT(30) DEF OnItsWay9
<1>4. CASE buf[2] # <<>> /\ HasReader(2)
  <2>1. /\ bytes' = [bytes EXCEPT ![2] = @ \o First(CHUNK, buf[2])]
        /\ buf' = [buf EXCEPT ![2] = Rest(CHUNK, @)]
        /\ pc' = pc /\ output' = output
    BY <1>4 DEF Feed
  <2>2. bytes'[2] = bytes[2] \o First(CHUNK, buf[2]) /\ buf'[2] = Rest(CHUNK, buf[2])
    BY <1>1, <2>1 DEF Types
  <2>3. ASSUME bytes[2] \in Seq(Int), buf[2] \in Seq(Int)
        PROVE  /\ bytes'[2] \in Seq(Int) /\ buf'[2] \in Seq(Int)
               /\ bytes'[2] \o buf'[2] = bytes[2] \o buf[2]
    <3>1. PICK sent \in Seq(Int), hand \in Seq(Int) : sent = bytes[2] /\ hand = buf[2]
      BY <2>3
    <3>2. CHUNK \in Nat
      BY PipelineAssumption
    <3>3. PICK head \in Seq(Int), tail \in Seq(Int) :
                 head = First(CHUNK, hand) /\ tail = Rest(CHUNK, hand)
      BY <3>2, FirstAndRest
    <3>4. head \o tail = hand
      BY <3>2, <3>3, FirstAndRest
    <3>5. (sent \o head) \o tail = sent \o (head \o tail)
      BY InAnyGroups, ZenonT(60)
    <3>6. bytes'[2] = sent \o head /\ buf'[2] = tail
      BY <2>2, <3>1, <3>3, Zenon
    <3>7. sent \o head \in Seq(Int)
      BY ConcatProperties
    <3>8. bytes'[2] \o buf'[2] = bytes[2] \o buf[2]
      BY <3>1, <3>4, <3>5, <3>6, Zenon
    <3>9. bytes'[2] \in Seq(Int) /\ buf'[2] \in Seq(Int)
      BY <3>6, <3>7, Zenon
    <3>. QED
      BY <3>8, <3>9
  <2>4. InFifo9(data) => InFifo9(data)'
    BY <2>3, Zenon DEF InFifo9
  <2>5. Partly9(data) => Partly9(data)'
    <3>. SUFFICES ASSUME Partly9(data) PROVE Partly9(data)'
      OBVIOUS
    <3>1. PICK stored \in Seq(Chars) : output = {stored} /\ stored \o (bytes[2] \o buf[2]) = data
      BY DEF Partly9
    <3>2. /\ bytes'[2] \in Seq(Int) /\ buf'[2] \in Seq(Int)
          /\ bytes'[2] \o buf'[2] = bytes[2] \o buf[2]
      BY <2>3 DEF Partly9
    <3>3. output' = {stored} /\ stored \o (bytes'[2] \o buf'[2]) = data
      BY <2>1, <3>1, <3>2, Zenon
    <3>. QED
      BY <3>2, <3>3, Zenon DEF Partly9
  <2>. QED
    BY <2>1, <2>4, <2>5 DEF OnItsWay9
<1>. QED
  BY <1>2, <1>3, <1>4

(* Part 9: a step that does not touch the data.                                      *)
LEMMA NotTouched ==
  ASSUME UNCHANGED <<text, output>>, bytes'[2] = bytes[2], buf'[2] = buf[2],
         pc[1] \in Nat, pc'[1] \in Nat, pc'[2] = pc[2], pc[1] <= 8 <=> pc'[1] <= 8, pc[1] = 9 <=> pc'[1] = 9,
         Sent9
  PROVE  Sent9'
<1>1. ASSUME NEW data \in Seq(Int), NEW string, Cut9(data, string), OnItsWay9(data, string)
      PROVE  Cut9(data, string)' /\ OnItsWay9(data, string)'
  <2>1. Cut9(data, string)'
    BY <1>1 DEF Cut9
  <2>2. /\ InFifo9(data) => InFifo9(data)'
        /\ Partly9(data) => Partly9(data)'
    BY DEF InFifo9, Partly9
  <2>. QED
    BY <1>1, <2>1, <2>2 DEF OnItsWay9
<1>. QED
  BY <1>1 DEF Sent9

(* Part 9, the process that reads the file: it stores what was sent.                 *)
LEMMA Reader9Sent ==
  ASSUME Types, Types', Inv9, Inv9', Fifo9, Fifo9', Sent9, part = 9, text # NoFile, Step(1)
  PROVE  Sent9'
<1>1. /\ text' = text /\ buf'[2] = buf[2]
      /\ pc[1] \in 1..13 /\ pc[2] \in 1..8 /\ pc'[1] \in 1..13 /\ pc'[2] \in 1..8
      /\ 1 \in Procs /\ 2 \in Procs /\ 1 \in Chans /\ 2 \in Chans
  BY StepFrame DEF inputs, Inv9, Order9, Procs, Chans
<1>2. CASE pc[1] = 3 /\ Read(1)
  <2>1. pc' = [pc EXCEPT ![1] = @ + 1] /\ bytes' = bytes /\ output' = output
    BY <1>2 DEF Read, Advance, chans
  <2>2. pc'[1] = 4 /\ pc'[2] = pc[2]
    BY <1>1, <1>2, <2>1 DEF Types
  <2>. QED
    BY <1>1, <1>2, <2>1, <2>2, NotTouched
<1>3. CASE Ready(1) /\ pc[1] = 5 /\ Chan(1) = 1 /\ Feed(1)
  <2>1. /\ pc' = pc \/ pc' = [pc EXCEPT ![1] = @ + 1]
        /\ output' = output
        /\ bytes' = bytes \/ bytes' = [bytes EXCEPT ![1] = @ \o First(CHUNK, buf[1])]
    BY <1>3 DEF Feed, Advance, Quit, chans
  <2>2. pc'[1] \in {5, 6} /\ pc'[2] = pc[2] /\ bytes'[2] = bytes[2]
    BY <1>1, <1>3, <2>1 DEF Types
  <2>. QED
    BY <1>1, <1>3, <2>1, <2>2, NotTouched
<1>4. CASE Ready(1) /\ pc[1] = 8 /\ Creat(1)
  <2>1. pc' = [pc EXCEPT ![1] = @ + 1] /\ bytes' = bytes /\ output' = {<<>>}
    BY <1>4 DEF Creat, Advance, chans
  <2>2. pc'[1] = 9 /\ pc'[2] = pc[2]
    BY <1>1, <1>4, <2>1 DEF Types
  <2>3. ASSUME NEW data \in Seq(Int), NEW string, InFifo9(data), OnItsWay9(data, string), Cut9(data, string)
        PROVE  OnItsWay9(data, string)' /\ Cut9(data, string)'
    <3>1. <<>> \o data = data /\ <<>> \in Seq(Chars)
      BY ConcatEmptySeq
    <3>2. bytes[2] \o buf[2] = data
      BY <2>3 DEF InFifo9
    <3>3. <<>> \o (bytes'[2] \o buf'[2]) = data
      BY <1>1, <2>1, <3>1, <3>2, Zenon
    <3>4. bytes'[2] \in Seq(Int) /\ buf'[2] \in Seq(Int)
      BY <1>1, <2>1, <2>3 DEF InFifo9
    <3>5. Partly9(data)'
      BY <2>1, <3>1, <3>3, <3>4, Zenon DEF Partly9
    <3>6. Cut9(data, string)'
      BY <1>1, <2>3 DEF Cut9
    <3>. QED
      BY <2>2, <3>5, <3>6 DEF OnItsWay9
  <2>4. ASSUME NEW data \in Seq(Int), NEW string, OnItsWay9(data, string) PROVE InFifo9(data)
    BY <1>4, <2>4 DEF OnItsWay9
  <2>. QED
    BY <1>1, <2>1, <2>2, <2>3, <2>4 DEF Sent9
<1>5. CASE Ready(1) /\ pc[1] = 9 /\ Chan(1) = 2 /\ Drain(1)
  <2>1. pc[2] >= 6
    BY <1>1, <1>5 DEF Fifo9
  <2>2. PICK data \in Seq(Int), string \in Seq(Chars) :
               Cut9(data, string) /\ OnItsWay9(data, string)
    BY <1>1, <2>1 DEF Sent9
  <2>3. Partly9(data)
    BY <1>5, <2>2 DEF OnItsWay9
  <2>4. /\ pc'[2] = pc[2] /\ buf' = buf
        /\ \/ pc'[1] = 9 /\ Partly9(data)'
           \/ pc'[1] = 10 /\ output' = {CString(data)}
    BY <1>5, <2>3, DrainStores
  <2>5. CString(data) = string
    BY <2>2 DEF Cut9
  <2>6. OnItsWay9(data, string)'
    BY <2>4, <2>5 DEF OnItsWay9
  <2>7. Cut9(data, string)'
    BY <1>1, <2>2 DEF Cut9
  <2>. QED
    BY <1>1, <2>1, <2>4, <2>6, <2>7 DEF Sent9
<1>6. CASE pc[1] \in {1, 2, 4, 6, 7, 10, 11, 12} /\ Passes(1)
  <2>1. pc'[1] = pc[1] + 1 /\ pc'[2] = pc[2] /\ UNCHANGED <<buf, bytes, output>>
    BY <1>1, <1>6, PassesMoves
  <2>. QED
    BY <1>1, <1>6, <2>1, NotTouched
<1>7. CASE (pc[1] = 13 /\ Quit(1, "ok")) \/ (pc[1] <= 2 /\ Quit(1, "failed"))
  <2>1. pc' = pc /\ UNCHANGED <<bytes, output>>
    BY <1>7 DEF Quit
  <2>. QED
    BY <1>1, <2>1, NotTouched
<1>. QED
  BY <1>2, <1>3, <1>4, <1>5, <1>6, <1>7, Reader9Kinds DEF Inv9

(* Part 9, the process that counts: it sends the answer.                             *)
LEMMA Counter9Sent ==
  ASSUME Types, Types', Inv9, Inv9', Fifo9, Fifo9', Gathered9, Sent9, part = 9, text # NoFile, Step(2)
  PROVE  Sent9'
<1>1. /\ text' = text
      /\ pc[1] \in 1..13 /\ pc[2] \in 1..8 /\ pc'[1] \in 1..13 /\ pc'[2] \in 1..8
      /\ 1 \in Procs /\ 2 \in Procs /\ 1 \in Chans /\ 2 \in Chans
  BY StepFrame DEF inputs, Inv9, Order9, Procs, Chans
<1>2. ASSUME pc'[2] <= 4, bytes'[2] = bytes[2], pc[2] <= 5
      PROVE  Sent9'
  BY <1>1, <1>2 DEF Sent9
<1>3. CASE Quit(2, "failed") /\ pc[2] <= 2
  <2>1. pc' = pc /\ bytes' = bytes
    BY <1>3 DEF Quit
  <2>. QED
    BY <1>1, <1>2, <1>3, <2>1
<1>4. CASE Ready(2) /\ pc[2] = 2 /\ Chan(2) = 1 /\ Gather(2) /\ ~Quit(2, "failed")
  <2>1. /\ pc' = pc \/ pc' = [pc EXCEPT ![2] = @ + 1]
        /\ bytes' = [bytes EXCEPT ![1] = Rest(CHUNK, @)]
    BY <1>4 DEF Gather, Advance
  <2>2. pc'[2] \in {2, 3} /\ bytes'[2] = bytes[2]
    BY <1>1, <1>4, <2>1 DEF Types
  <2>. QED
    BY <1>2, <1>4, <2>2
<1>5. CASE pc[2] = 4 /\ AnswerOfLength(2)
  <2>1. /\ bytes' = bytes /\ pc' = [pc EXCEPT ![2] = @ + 1]
        /\ buf' = [buf EXCEPT ![2] = First(Len(@), MakeString(FindAllNumbers(CString(buf[2]))) \o Zeros(Len(@)))]
    BY <1>5 DEF AnswerOfLength, Advance, chans
  <2>2. /\ pc'[1] = pc[1] /\ pc'[2] = 5
        /\ buf'[2] = First(Len(buf[2]), Answer(CString(buf[2])) \o Zeros(Len(buf[2])))
    BY <1>1, <1>5, <2>1 DEF Types, Answer
  <2>3. pc[1] <= 8 /\ bytes[2] = <<>> /\ InHand9
    BY <1>1, <1>5 DEF Fifo9, Sent9, Gathered9
  <2>4. PICK data \in Seq(Int), string \in Seq(Chars) : Cut9(data, string)' /\ InFifo9(data)'
    <3>1. bytes'[2] = <<>>
      BY <2>1, <2>3
    <3>. QED
      BY <1>1, <2>2, <2>3, <3>1, AnswerCut
  <2>5. OnItsWay9(data, string)'
    BY <1>1, <2>2, <2>3, <2>4, SMTT(30) DEF OnItsWay9
  <2>. QED
    BY <1>1, <2>1, <2>2, <2>3, <2>4, <2>5 DEF Sent9
<1>6. CASE pc[2] = 6 /\ Chan(2) = 2 /\ Feed(2)
  <2>1. PICK data \in Seq(Int), string \in Seq(Chars) :
               Cut9(data, string) /\ OnItsWay9(data, string)
    BY <1>1, <1>6 DEF Sent9
  <2>2. /\ OnItsWay9(data, string)'
        /\ pc'[2] = 6 \/ (pc'[2] = 7 /\ buf'[2] = <<>>)
    BY <1>6, <2>1, FeedSends
  <2>3. Cut9(data, string)'
    BY <1>1, <2>1 DEF Cut9
  <2>. QED
    BY <1>1, <2>2, <2>3 DEF Sent9
<1>7. CASE pc[2] \in {1, 3, 5, 7} /\ Passes(2)
  <2>1. pc'[2] = pc[2] + 1 /\ pc'[1] = pc[1] /\ UNCHANGED <<buf, bytes, output>>
    BY <1>1, <1>7, PassesMoves
  <2>2. CASE pc[2] \in {1, 3}
    BY <1>2, <2>1, <2>2
  <2>3. CASE pc[2] \in {5, 7}
    <3>1. PICK data \in Seq(Int), string \in Seq(Chars) :
                 Cut9(data, string) /\ OnItsWay9(data, string)
      BY <2>3 DEF Sent9
    <3>2. Cut9(data, string)'
      BY <1>1, <3>1 DEF Cut9
    <3>3. /\ InFifo9(data) => InFifo9(data)'
          /\ Partly9(data) => Partly9(data)'
      BY <2>1 DEF InFifo9, Partly9
    <3>4. OnItsWay9(data, string)'
      BY <2>1, <3>1, <3>3 DEF OnItsWay9
    <3>5. pc'[2] \in {6, 8} /\ (pc'[2] = 8 => buf'[2] = <<>>)
      BY <2>1, <2>3 DEF Sent9
    <3>. QED
      BY <3>2, <3>4, <3>5 DEF Sent9
  <2>. QED
    BY <1>7, <2>2, <2>3
<1>8. CASE pc[2] = 8 /\ Quit(2, "ok")
  <2>1. pc' = pc /\ UNCHANGED <<bytes, output>> /\ buf'[2] = <<>>
    BY <1>1, <1>8 DEF Quit, Types
  <2>2. buf[2] = <<>>
    BY <1>8 DEF Sent9
  <2>3. bytes'[2] = bytes[2] /\ buf'[2] = buf[2] /\ pc'[1] = pc[1] /\ pc'[2] = pc[2]
    BY <2>1, <2>2
  <2>. QED
    BY <1>1, <2>1, <2>3, NotTouched
<1>. QED
  BY <1>3, <1>4, <1>5, <1>6, <1>7, <1>8, Counter9Kinds

(* Part 9: a first program that returns well has stored the answer, or as much of it *)
(* as the text is long.                                                              *)
LEMMA Answer9Tell ==
  ASSUME Types, Inv9, Fifo9, Sent9, part = 9, text # NoFile, ended[1] = "ok"
  PROVE  /\ \E cells \in output : IsPrefix(cells, Expected(text))
         /\ Len(Expected(text)) <= Len(text) => output = {Expected(text)}
<1>1. pc[1] = 13 /\ pc[2] \in 6..8
  BY DEF Inv9, Order9, Fifo9
<1>2. PICK data \in Seq(Int), string \in Seq(Chars) :
             Cut9(data, string) /\ OnItsWay9(data, string)
  BY <1>1 DEF Sent9
<1>3. PICK m \in Nat : m >= Len(text) /\ string = First(m, Answer(text))
  BY <1>2 DEF Cut9
<1>4. text \in Seq(Cells)
  BY PipelineAssumption DEF Types
<1>5. PICK answer \in Seq(Chars) : answer = Expected(text) /\ answer = Answer(text)
  BY <1>4, AnswerIs
<1>6. output = {string}
  BY <1>1, <1>2 DEF OnItsWay9
<1>7. string = First(m, answer)
  BY <1>3, <1>5
<1>8. string = IF m <= Len(answer) THEN SubSeq(answer, 1, m) ELSE answer
  BY <1>7, FirstAndRest
<1>9. IsPrefix(string, answer)
  <2>1. CASE m <= Len(answer)
    <3>1. Len(answer) \in Nat
      OBVIOUS
    <3>2. string = SubSeq(answer, 1, m) /\ Len(string) = m
      BY <1>8, <2>1, <3>1
    <3>3. SubSeq(string, 1, m) = string
      BY <3>2
    <3>. QED
      BY <2>1, <3>2, <3>3 DEF IsPrefix
  <2>2. CASE m > Len(answer)
    BY <1>8, <2>2 DEF IsPrefix
  <2>. QED
    BY <2>1, <2>2
<1>10. Len(answer) <= Len(text) => string = answer
  BY <1>3, <1>4, <1>8
<1>. QED
  BY <1>5, <1>6, <1>9, <1>10
--------------------------------------------------------------------------------
(* Part 10, an empty file: the second program never comes past its first message.    *)
Empty10 == pc[2] <= 3 /\ bytes[1] = <<>> /\ (pc[1] = 4 => buf[1] = <<>>)

(* Part 10, an empty file: every step leaves the second program where it waits.      *)
LEMMA Empty10Kept ==
  ASSUME Types, Inv10, part = 10, text = <<>>, NEW p \in {1, 2}, Step(p), Empty10
  PROVE  Empty10'
<1>1. text # NoFile
  BY DEF NoFile
<1>2. CASE p = 1
  <2>. USE DEF Types, Inv10, Empty10, Procs, Chans, chans, Advance
  <2>1. CASE pc[1] \in {1, 2} /\ Msgget(1)
    BY <2>1 DEF Msgget
  <2>2. CASE pc[1] = 3 /\ Read(1)
    BY <1>1, <2>2, ReadsOn DEF Read
  <2>3. CASE pc[1] = 4 /\ Chan(1) = 1 /\ Send(1)
    BY <2>3 DEF Send
  <2>4. CASE pc[1] = 5 /\ Creat(1)
    BY <2>4 DEF Creat
  <2>5. CASE pc[1] = 6 /\ Chan(1) = 2 /\ Receive(1)
    BY <2>5 DEF Receive
  <2>6. CASE pc[1] \in {7, 8} /\ Rmid(1)
    BY <2>6 DEF Rmid
  <2>7. CASE pc[1] = 9 /\ Exit(1)
    BY <2>7 DEF Exit, Quit
  <2>. QED
    BY <1>2, <2>1, <2>2, <2>3, <2>4, <2>5, <2>6, <2>7, Reader10Steps
<1>3. CASE p = 2
  <2>. USE DEF Types, Inv10, Empty10, Procs, Chans, chans, Advance
  <2>1. CASE pc[2] \in {1, 2} /\ Msgget(2)
    BY <2>1 DEF Msgget
  <2>2. ~(pc[2] = 3 /\ Chan(2) = 1 /\ Collect(2))
    BY DEF Collect
  <2>. QED
    BY <1>3, <2>1, <2>2, Counter10Steps
<1>. QED
  BY <1>2, <1>3

(* Part 10, a text that fills a message or more: the messages on their way are not   *)
(* empty, and the second program's struct is full of cells after the first of them.  *)
Chunks == {chunk \in Seq(Cells) : Len(chunk) \in 1..CHUNK}
First10 ==
  \/ bytes[1] = <<>> /\ (pc[1] <= 3 \/ (pc[1] = 4 /\ buf[1] = text))
  \/ bytes[1] # <<>> /\ Len(Head(bytes[1])) = CHUNK

Long10 ==
  /\ pc[2] <= 3
  /\ pc[1] = 4 => buf[1] \in Seq(Cells)
  /\ bytes[1] \in Seq(Chunks)
  /\ buf[2] \in Seq(Cells)
  /\ message = <<>> => First10
  /\ message # <<>> => message \in Seq(Cells) /\ Len(message) = CHUNK

(* No NUL is found in a full struct: its cells are put behind the others.            *)
LEMMA FullGrown ==
  ASSUME NEW data \in Seq(Cells), NEW full \in Seq(Cells), Len(full) = CHUNK, NEW r \in 1..CHUNK
  PROVE  /\ Nuls(Grown(data, full), r) = {}
         /\ Cut(Grown(data, full), r) = data \o full
<1>1. CHUNK \in Nat /\ CHUNK >= 1
  BY PipelineAssumption
<1>2. Grown(data, full) = data \o full
  <2>1. Zeros(CHUNK - Len(full)) = <<>>
    <3>1. CHUNK - Len(full) = 0
      BY <1>1
    <3>2. Zeros(0) \in Seq({NUL}) /\ Len(Zeros(0)) = 0
      BY ZerosAre
    <3>3. Zeros(0) = <<>>
      BY <3>2
    <3>. QED
      BY <3>1, <3>3, Zenon
  <2>2. PICK all \in Seq(Cells) : all = data \o full
    BY ConcatProperties
  <2>3. all \o <<>> = all
    BY ConcatEmptySeq
  <2>. QED
    BY <2>1, <2>2, <2>3, Zenon DEF Grown
<1>3. PICK all \in Seq(Cells) : all = data \o full /\ Len(all) = Len(data) + CHUNK
  BY ConcatProperties
<1>4. Nuls(all, r) = {}
  <2>1. NUL \notin Cells
    BY DEF Cells, Digits, SEP, NUL
  <2>2. ASSUME NEW i \in Nuls(all, r) PROVE FALSE
    <3>1. i \in Len(all) - r + 1 .. Len(all) /\ all[i] = NUL
      BY <2>2 DEF Nuls
    <3>2. i \in 1..Len(all)
      BY <1>1, <1>3, <3>1
    <3>. QED
      BY <2>1, <3>1, <3>2
  <2>. QED
    BY <2>2
<1>. QED
  BY <1>2, <1>3, <1>4, Zenon DEF Cut

(* The struct after a message: behind a chunk there is what an earlier one left.     *)
LEMMA FullStruct ==
  ASSUME NEW chunk \in Chunks, NEW struct \in Seq(Cells), Len(struct) = CHUNK
  PROVE  /\ chunk \o SubSeq(struct, Len(chunk) + 1, CHUNK) \in Seq(Cells)
         /\ Len(chunk \o SubSeq(struct, Len(chunk) + 1, CHUNK)) = CHUNK
<1>1. CHUNK \in Nat /\ chunk \in Seq(Cells) /\ Len(chunk) \in 1..CHUNK
  BY PipelineAssumption DEF Chunks
<1>2. PICK old \in Seq(Cells) : old = SubSeq(struct, Len(chunk) + 1, CHUNK) /\ Len(old) = CHUNK - Len(chunk)
  <2>1. PICK k \in 1..CHUNK : k = Len(chunk)
    BY <1>1
  <2>2. SubSeq(struct, k + 1, CHUNK) \in Seq(Cells) /\ Len(SubSeq(struct, k + 1, CHUNK)) = CHUNK - k
    BY <1>1, <2>1
  <2>. QED
    BY <2>1, <2>2
<1>3. chunk \o old \in Seq(Cells) /\ Len(chunk \o old) = Len(chunk) + Len(old)
  BY <1>1, ConcatProperties
<1>. QED
  BY <1>1, <1>2, <1>3

(* A chunk as long as a message is the struct by itself.                             *)
LEMMA WholeStruct ==
  ASSUME NEW chunk \in Seq(Cells), Len(chunk) = CHUNK, NEW before
  PROVE  chunk \o SubSeq(before, Len(chunk) + 1, CHUNK) = chunk
<1>1. CHUNK \in Nat
  BY PipelineAssumption
<1>2. SubSeq(before, Len(chunk) + 1, CHUNK) = <<>>
  BY <1>1
<1>3. chunk \o <<>> = chunk
  BY ConcatEmptySeq
<1>. QED
  BY <1>2, <1>3, Zenon

(* The chunk that is sent next, and the messages on their way with it.               *)
LEMMA SendsChunk ==
  ASSUME NEW queue \in Seq(Chunks), NEW cells \in Seq(Cells), cells # <<>>
  PROVE  /\ Append(queue, First(CHUNK, cells)) \in Seq(Chunks)
         /\ Append(queue, First(CHUNK, cells)) # <<>>
         /\ queue # <<>> => Head(Append(queue, First(CHUNK, cells))) = Head(queue)
         /\ queue = <<>> => Head(Append(queue, First(CHUNK, cells))) = First(CHUNK, cells)
         /\ Len(cells) >= CHUNK => Len(First(CHUNK, cells)) = CHUNK
         /\ Rest(CHUNK, cells) \in Seq(Cells)
<1>1. CHUNK \in Nat /\ CHUNK >= 1
  BY PipelineAssumption
<1>2. /\ First(CHUNK, cells) \in Seq(Cells) /\ Rest(CHUNK, cells) \in Seq(Cells)
      /\ Len(First(CHUNK, cells)) = IF CHUNK <= Len(cells) THEN CHUNK ELSE Len(cells)
  BY <1>1, FirstAndRest
<1>3. Len(cells) \in Nat /\ Len(cells) # 0
  OBVIOUS
<1>4. PICK chunk \in Chunks : chunk = First(CHUNK, cells)
  BY <1>1, <1>2, <1>3 DEF Chunks
<1>5. /\ Append(queue, chunk) \in Seq(Chunks) /\ Append(queue, chunk) # <<>>
      /\ queue # <<>> => Head(Append(queue, chunk)) = Head(queue)
      /\ queue = <<>> => Head(Append(queue, chunk)) = chunk
  <2>1. Append(queue, chunk) \in Seq(Chunks) /\ Append(queue, chunk) # <<>>
    BY AppendProperties
  <2>2. queue # <<>> => Head(Append(queue, chunk)) = Head(queue)
    BY AppendProperties
  <2>3. queue = <<>> => Head(Append(queue, chunk)) = chunk
    OBVIOUS
  <2>. QED
    BY <2>1, <2>2, <2>3
<1>. QED
  BY <1>1, <1>2, <1>3, <1>4, <1>5

(* Part 10, a long text: the first program sends a chunk of it.                      *)
LEMMA Long10Sends ==
  ASSUME Types, Inv10, Long10, part = 10, text \in Seq(Cells), Len(text) >= CHUNK,
         pc[1] = 4, Chan(1) = 1, Send(1)
  PROVE  Long10'
<1>1. 1 \in Procs /\ 2 \in Procs /\ 1 \in Chans /\ CHUNK \in Nat /\ CHUNK >= 1
  BY PipelineAssumption DEF Procs, Chans
<1>2. CASE buf[1] = <<>>
  <2>1. pc' = [pc EXCEPT ![1] = @ + 1] /\ UNCHANGED <<buf, bytes, message>>
    BY <1>2 DEF Send, Advance, chans
  <2>2. pc'[1] = 5 /\ pc'[2] = pc[2]
    BY <1>1, <2>1 DEF Types
  <2>3. text # <<>>
    BY <1>1
  <2>4. message = <<>> => First10'
    BY <1>2, <2>1, <2>3 DEF Long10, First10
  <2>. QED
    BY <2>1, <2>2, <2>4 DEF Long10
<1>3. CASE buf[1] # <<>>
  <2>1. /\ bytes' = [bytes EXCEPT ![1] = Append(@, First(CHUNK, buf[1]))]
        /\ buf' = [buf EXCEPT ![1] = Rest(CHUNK, @)]
        /\ pc' = pc /\ message' = message
    BY <1>3 DEF Send
  <2>2. /\ bytes'[1] = Append(bytes[1], First(CHUNK, buf[1]))
        /\ buf'[1] = Rest(CHUNK, buf[1]) /\ buf'[2] = buf[2]
    BY <1>1, <2>1 DEF Types
  <2>3. PICK queue \in Seq(Chunks), cells \in Seq(Cells) : queue = bytes[1] /\ cells = buf[1]
    BY DEF Long10
  <2>4. cells # <<>>
    BY <1>3, <2>3
  <2>5. /\ Append(queue, First(CHUNK, cells)) \in Seq(Chunks)
        /\ Append(queue, First(CHUNK, cells)) # <<>>
        /\ queue # <<>> => Head(Append(queue, First(CHUNK, cells))) = Head(queue)
        /\ queue = <<>> => Head(Append(queue, First(CHUNK, cells))) = First(CHUNK, cells)
        /\ Len(cells) >= CHUNK => Len(First(CHUNK, cells)) = CHUNK
        /\ Rest(CHUNK, cells) \in Seq(Cells)
    BY <2>4, SendsChunk
  <2>6. bytes'[1] = Append(queue, First(CHUNK, cells)) /\ buf'[1] = Rest(CHUNK, cells)
    BY <2>2, <2>3
  <2>7. bytes'[1] \in Seq(Chunks) /\ buf'[1] \in Seq(Cells)
    BY <2>5, <2>6, Zenon
  <2>8. message = <<>> => First10'
    <3>. SUFFICES ASSUME message = <<>> PROVE First10'
      OBVIOUS
    <3>1. First10
      BY DEF Long10
    <3>2. Len(Head(bytes'[1])) = CHUNK
      <4>1. CASE queue = <<>>
        <5>1. cells = text
          BY <2>3, <3>1, <4>1 DEF First10
        <5>2. Len(First(CHUNK, cells)) = CHUNK
          BY <2>5, <5>1
        <5>. QED
          BY <2>5, <2>6, <4>1, <5>2, Zenon
      <4>2. CASE queue # <<>>
        <5>1. Len(Head(queue)) = CHUNK
          BY <2>3, <3>1, <4>2 DEF First10
        <5>. QED
          BY <2>5, <2>6, <4>2, <5>1, Zenon
      <4>. QED
        BY <4>1, <4>2
    <3>. QED
      BY <2>5, <2>6, <3>2, Zenon DEF First10
  <2>. QED
    BY <2>1, <2>2, <2>7, <2>8 DEF Long10
<1>. QED
  BY <1>2, <1>3

(* Part 10, a long text: the second program finds no end of it in a message.         *)
LEMMA Long10Collects ==
  ASSUME Types, Inv10, Long10, part = 10, garbage = <<>>, pc[2] = 3, Chan(2) = 1, Collect(2)
  PROVE  Long10'
<1>1. 1 \in Procs /\ 2 \in Procs /\ 1 \in Chans /\ CHUNK \in Nat /\ CHUNK >= 1
  BY PipelineAssumption DEF Procs, Chans
<1>2. PICK queue \in Seq(Chunks), data \in Seq(Cells) : queue = bytes[1] /\ data = buf[2]
  BY DEF Long10
<1>3. queue # <<>>
  BY <1>2 DEF Collect
<1>4. PICK chunk \in Chunks, rest \in Seq(Chunks) : chunk = Head(queue) /\ rest = Tail(queue)
  <2>1. Head(queue) \in Chunks /\ Tail(queue) \in Seq(Chunks)
    BY <1>3, HeadTailProperties
  <2>. QED
    BY <2>1
<1>5. chunk \in Seq(Cells) /\ Len(chunk) \in 1..CHUNK
  BY DEF Chunks
<1>6. PICK before : before = IF message = <<>> THEN chunk \o garbage \o Zeros(CHUNK) ELSE message
  OBVIOUS
<1>7. PICK full : full = chunk \o SubSeq(before, Len(chunk) + 1, CHUNK)
  OBVIOUS
<1>8. full \in Seq(Cells) /\ Len(full) = CHUNK
  <2>1. CASE message = <<>>
    <3>1. Len(chunk) = CHUNK
      BY <1>2, <1>3, <1>4, <2>1 DEF Long10, First10
    <3>2. full = chunk
      BY <1>5, <1>7, <3>1, WholeStruct
    <3>. QED
      BY <1>5, <3>1, <3>2
  <2>2. CASE message # <<>>
    <3>1. before \in Seq(Cells) /\ Len(before) = CHUNK
      BY <1>6, <2>2 DEF Long10
    <3>. QED
      BY <1>7, <3>1, FullStruct
  <2>. QED
    BY <2>1, <2>2
<1>9. CString(full) = full
  <2>1. Cells \subseteq Chars
    BY DEF Cells, Digits, SEP, Chars, NUL
  <2>2. full \in Seq(Chars)
    BY <1>8, <2>1, SeqMonotonic
  <2>. QED
    BY <2>2, CharsAreString
<1>10. /\ Nuls(Grown(data, full), Len(chunk)) = {}
       /\ Cut(Grown(data, full), Len(chunk)) = data \o full
  BY <1>5, <1>8, FullGrown
<1>11. /\ message' = full
       /\ bytes' = [bytes EXCEPT ![1] = Tail(@)]
       /\ buf' = [buf EXCEPT ![2] = Cut(Grown(data, CString(full)), Len(chunk))]
       /\ pc' = IF Nuls(Grown(data, CString(full)), Len(chunk)) # {} THEN [pc EXCEPT ![2] = @ + 1] ELSE pc
  BY <1>2, <1>4, <1>6, <1>7 DEF Collect, Advance
<1>12. buf' = [buf EXCEPT ![2] = data \o full] /\ pc' = pc
  BY <1>9, <1>10, <1>11
<1>13. bytes'[1] = rest /\ buf'[2] = data \o full /\ buf'[1] = buf[1]
  BY <1>1, <1>2, <1>4, <1>11, <1>12 DEF Types
<1>14. buf'[2] \in Seq(Cells)
  <2>1. data \o full \in Seq(Cells)
    BY <1>8, ConcatProperties
  <2>. QED
    BY <1>13, <2>1
<1>15. full # <<>>
  BY <1>1, <1>8
<1>. QED
  BY <1>8, <1>11, <1>12, <1>13, <1>14, <1>15 DEF Long10

(* Part 10, a long text: no step brings the second program past its messages.        *)
LEMMA Long10Kept ==
  ASSUME Types, Inv10, part = 10, text \in Seq(Cells), text # NoFile, Len(text) >= CHUNK,
         garbage = <<>>, NEW p \in {1, 2}, Step(p), Long10
  PROVE  Long10'
<1>1. 1 \in Procs /\ 2 \in Procs /\ 1 \in Chans /\ 2 \in Chans /\ text' = text
  BY StepFrame DEF Procs, Chans, inputs
<1>2. ASSUME UNCHANGED <<bytes, message, text>>, buf'[2] = buf[2], pc'[2] <= 3,
             First10 => First10', pc'[1] = 4 => buf'[1] \in Seq(Cells)
      PROVE  Long10'
  BY <1>2 DEF Long10
<1>3. CASE p = 1
  <2>1. CASE pc[1] \in {1, 2} /\ Msgget(1)
    <3>1. pc' = [pc EXCEPT ![1] = @ + 1] /\ UNCHANGED <<buf, bytes, message>>
      BY <2>1 DEF Msgget, Advance
    <3>2. pc'[1] \in {2, 3} /\ pc'[2] = pc[2]
      BY <1>1, <2>1, <3>1 DEF Types
    <3>3. First10 => First10'
      BY <1>1, <2>1, <3>1, <3>2 DEF First10
    <3>. QED
      BY <1>1, <1>2, <3>1, <3>2, <3>3 DEF Long10
  <2>2. CASE pc[1] = 3 /\ Read(1)
    <3>1. /\ buf' = [buf EXCEPT ![1] = text] /\ pc' = [pc EXCEPT ![1] = @ + 1]
          /\ UNCHANGED <<bytes, message>>
      BY <2>2, ReadsOn DEF Read, Advance, chans
    <3>2. pc'[1] = 4 /\ pc'[2] = pc[2] /\ buf'[1] = text /\ buf'[2] = buf[2]
      BY <1>1, <2>2, <3>1 DEF Types
    <3>3. First10 => First10'
      BY <1>1, <2>2, <3>1, <3>2 DEF First10
    <3>. QED
      BY <1>1, <1>2, <3>1, <3>2, <3>3 DEF Long10
  <2>3. CASE pc[1] = 4 /\ Chan(1) = 1 /\ Send(1)
    BY <2>3, Long10Sends
  <2>4. CASE pc[1] = 5 /\ Creat(1)
    <3>1. pc' = [pc EXCEPT ![1] = @ + 1] /\ UNCHANGED <<buf, bytes, message>>
      BY <2>4 DEF Creat, Advance, chans
    <3>2. pc'[1] = 6 /\ pc'[2] = pc[2]
      BY <1>1, <2>4, <3>1 DEF Types
    <3>3. First10 => First10'
      BY <1>1, <2>4, <3>1, <3>2 DEF First10
    <3>. QED
      BY <1>1, <1>2, <3>1, <3>2, <3>3 DEF Long10
  <2>5. CASE pc[1] = 6 /\ Chan(1) = 2 /\ Receive(1)
    <3>1. bytes[2] = <<>>
      BY DEF Inv10, Long10
    <3>. QED
      BY <2>5, <3>1 DEF Receive
  <2>6. CASE pc[1] \in {7, 8} /\ Rmid(1)
    BY <2>6 DEF Inv10, Long10
  <2>7. CASE pc[1] = 9 /\ Exit(1)
    BY <2>7 DEF Inv10, Long10
  <2>. QED
    BY <1>3, <2>1, <2>2, <2>3, <2>4, <2>5, <2>6, <2>7, Reader10Steps DEF Types
<1>4. CASE p = 2
  <2>1. CASE pc[2] \in {1, 2} /\ Msgget(2)
    <3>1. pc' = [pc EXCEPT ![2] = @ + 1] /\ UNCHANGED <<buf, bytes, message>>
      BY <2>1 DEF Msgget, Advance
    <3>2. pc'[2] \in {2, 3} /\ pc'[1] = pc[1]
      BY <1>1, <2>1, <3>1 DEF Types
    <3>3. First10 => First10'
      BY <1>1, <2>1, <3>1, <3>2 DEF First10
    <3>. QED
      BY <1>1, <1>2, <3>1, <3>2, <3>3 DEF Long10
  <2>2. CASE pc[2] = 3 /\ Chan(2) = 1 /\ Collect(2)
    BY <2>2, Long10Collects
  <2>. QED
    BY <1>4, <2>1, <2>2, Counter10Steps DEF Types, Long10
<1>. QED
  BY <1>3, <1>4

(* Part 10, a text and an answer that fit one message: it is gathered, counted and   *)
(* answered whole, and every message of the reply is the same.                       *)
TheReply == First(CHUNK, Answer(text) \o Zeros(CHUNK))
Unsent == pc[1] <= 3 \/ (pc[1] = 4 /\ buf[1] # <<>>)

Short10 ==
  /\ Len(Answer(text)) < CHUNK
  /\ pc[1] = 4 => buf[1] = text \/ buf[1] = <<>>
  /\ Unsent => pc[2] <= 3
  /\ pc[2] <= 3 => buf[2] = <<>> /\ message = <<>>
  /\ pc[2] <= 3 => bytes[1] = IF Unsent THEN <<>> ELSE <<text>>
  /\ pc[2] = 4 => InHand9
  /\ pc[2] = 5 /\ ended[2] = "no" => buf[2] = Answer(text)
  /\ bytes[2] \in Seq({TheReply})
  /\ pc[1] = 6 => output = {<<>>}
  /\ pc[1] >= 7 => output = {Answer(text)}

(* The struct after the only message: the text, then cells nobody wrote.             *)
LEMMA StructOfText ==
  ASSUME NEW string \in Seq(Cells), Len(string) < CHUNK
  PROVE  CString(string \o SubSeq(string \o <<>> \o Zeros(CHUNK), Len(string) + 1, CHUNK)) = string
<1>1. PICK k \in 0..CHUNK - 1 : k = Len(string) /\ CHUNK \in Nat
  BY PipelineAssumption
<1>2. Cells \subseteq Chars /\ Cells \subseteq Int /\ string \in Seq(Chars) /\ string \in Seq(Int)
  <2>1. Cells \subseteq Chars /\ Cells \subseteq Int
    BY DEF Cells, Digits, SEP, Chars, NUL
  <2>. QED
    BY <2>1, SeqMonotonic
<1>3. PICK zeros \in Seq(Int) : zeros = Zeros(CHUNK) /\ Len(zeros) = CHUNK /\ \A i \in 1..CHUNK : zeros[i] = NUL
  <2>1. {NUL} \subseteq Int
    BY DEF NUL
  <2>. QED
    BY <1>1, <2>1, ZerosAre, SeqMonotonic
<1>4. PICK before \in Seq(Int) : /\ before = string \o zeros
                                 /\ Len(before) = k + CHUNK
                                 /\ before[k + 1] = NUL
  <2>1. string \o zeros \in Seq(Int) /\ Len(string \o zeros) = k + CHUNK
    BY <1>1, <1>2, <1>3, ConcatProperties
  <2>2. (string \o zeros)[k + 1] = zeros[1]
    BY <1>1, <1>2, <1>3
  <2>3. 1 \in 1..CHUNK
    BY <1>1
  <2>. QED
    BY <1>3, <2>1, <2>2, <2>3
<1>5. PICK tail \in Seq(Int) : /\ tail = SubSeq(before, k + 1, CHUNK)
                               /\ Len(tail) = CHUNK - k /\ tail[1] = NUL
  <2>1. CHUNK \in Nat /\ k + 1 \in 1..CHUNK /\ CHUNK <= Len(before)
    BY <1>1, <1>4
  <2>2. SubSeq(before, k + 1, CHUNK) \in Seq(Int) /\ Len(SubSeq(before, k + 1, CHUNK)) = CHUNK - k
    BY <2>1
  <2>3. SubSeq(before, k + 1, CHUNK)[1] = before[k + 1]
    BY <2>1
  <2>. QED
    BY <1>4, <2>2, <2>3
<1>6. PICK whole \in Seq(Int) : /\ whole = string \o tail
                                /\ Len(whole) = CHUNK
                                /\ whole[k + 1] = NUL
                                /\ \A i \in 1..k : whole[i] = string[i]
  <2>1. string \o tail \in Seq(Int) /\ Len(string \o tail) = CHUNK
    BY <1>1, <1>2, <1>5, ConcatProperties
  <2>2. (string \o tail)[k + 1] = tail[1]
    BY <1>1, <1>2, <1>5
  <2>3. \A i \in 1..k : (string \o tail)[i] = string[i]
    BY <1>1, <1>2, <1>5
  <2>. QED
    BY <1>5, <2>1, <2>2, <2>3
<1>7. IsString(whole, string)
  BY <1>1, <1>6 DEF IsString
<1>8. CString(whole) = string
  BY <1>2, <1>7, CStringIs
<1>9. string \o <<>> = string
  BY ConcatEmptySeq
<1>. QED
  BY <1>1, <1>3, <1>4, <1>5, <1>6, <1>8, <1>9, Zenon

(* What the first program makes of a message of the reply.                           *)
LEMMA ReplyIs ==
  ASSUME Answer(text) \in Seq(Chars), Len(Answer(text)) < CHUNK
  PROVE  CString(TheReply) = Answer(text) /\ TheReply # Answer(text)
<1>1. PICK answer \in Seq(Chars) : answer = Answer(text) /\ Len(answer) < CHUNK
  OBVIOUS
<1>2. CHUNK \in Nat /\ TheReply = First(CHUNK, answer \o Zeros(CHUNK))
  BY <1>1, PipelineAssumption DEF TheReply
<1>3. PICK reply : reply = First(CHUNK, answer \o Zeros(CHUNK))
  OBVIOUS
<1>4. First(CHUNK, answer) = answer
  BY <1>1, <1>2, FirstAndRest
<1>5. reply \in Seq(Int) /\ Len(reply) = CHUNK /\ IsString(reply, answer)
  BY <1>2, <1>3, <1>4, FirstOfString
<1>6. CString(reply) = answer
  BY <1>5, CStringIs
<1>7. reply # answer
  BY <1>1, <1>5
<1>. QED
  BY <1>1, <1>2, <1>3, <1>6, <1>7

(* Part 10, a text that fits one message: the first program sends it.                *)
LEMMA Short10Sends ==
  ASSUME Types, Inv10, Short10, part = 10, text \in Seq(Cells), Len(text) < CHUNK,
         pc[1] = 4, Chan(1) = 1, Send(1)
  PROVE  Short10'
<1>1. 1 \in Procs /\ 2 \in Procs /\ 1 \in Chans /\ 2 \in Chans /\ pc[2] \in 1..5 /\ CHUNK \in Nat /\ CHUNK # 0
  BY PipelineAssumption DEF Procs, Chans, Inv10
<1>2. text' = text /\ UNCHANGED <<message, ended, output>>
  BY DEF Send, inputs
<1>3. TheReply' = TheReply /\ Answer(text') = Answer(text)
  BY <1>2 DEF TheReply
<1>4. buf'[2] = buf[2] /\ bytes'[2] = bytes[2]
  BY <1>1 DEF Send, chans, Types
<1>5. InHand9 => InHand9'
  BY <1>2, <1>4 DEF InHand9, IsString
<1>6. CASE buf[1] = <<>>
  <2>1. pc' = [pc EXCEPT ![1] = @ + 1] /\ UNCHANGED <<buf, bytes>>
    BY <1>6 DEF Send, Advance, chans
  <2>2. pc'[1] = 5 /\ pc'[2] = pc[2]
    BY <1>1, <2>1 DEF Types
  <2>3. ~Unsent /\ ~Unsent'
    BY <1>6, <2>2 DEF Unsent
  <2>. QED
    BY <1>1, <1>2, <1>3, <1>4, <1>5, <2>1, <2>2, <2>3 DEF Short10
<1>7. CASE buf[1] # <<>>
  <2>1. /\ bytes' = [bytes EXCEPT ![1] = Append(@, First(CHUNK, buf[1]))]
        /\ buf' = [buf EXCEPT ![1] = Rest(CHUNK, @)]
        /\ pc' = pc
    BY <1>7 DEF Send
  <2>2. /\ bytes'[1] = Append(bytes[1], First(CHUNK, buf[1]))
        /\ buf'[1] = Rest(CHUNK, buf[1])
    BY <1>1, <2>1 DEF Types
  <2>3. Unsent /\ pc[2] <= 3 /\ buf[1] = text /\ bytes[1] = <<>>
    BY <1>1, <1>7 DEF Short10, Unsent
  <2>4. First(CHUNK, text) = text /\ Rest(CHUNK, text) = <<>>
    BY <1>1, FirstIs, RestIs
  <2>5. bytes'[1] = <<text>> /\ buf'[1] = <<>>
    BY <2>2, <2>3, <2>4
  <2>6. ~Unsent'
    BY <2>1, <2>5 DEF Unsent
  <2>. QED
    BY <1>1, <1>2, <1>3, <1>4, <2>1, <2>3, <2>5, <2>6 DEF Short10
<1>. QED
  BY <1>6, <1>7

(* Part 10, a text that fits one message: the second program has all of it.          *)
LEMMA Short10Collects ==
  ASSUME Types, Inv10, Short10, part = 10, garbage = <<>>, text \in Seq(Cells), text # <<>>,
         Len(text) < CHUNK, pc[2] = 3, Chan(2) = 1, Collect(2)
  PROVE  Short10'
<1>1. 1 \in Procs /\ 2 \in Procs /\ 1 \in Chans /\ 2 \in Chans /\ pc[1] \in 1..9 /\ CHUNK \in Nat
  BY PipelineAssumption DEF Procs, Chans, Inv10
<1>2. text' = text /\ UNCHANGED <<ended, output>>
  BY DEF Collect, inputs
<1>3. TheReply' = TheReply /\ Answer(text') = Answer(text)
  BY <1>2 DEF TheReply
<1>4. bytes[1] = <<text>> /\ ~Unsent /\ buf[2] = <<>> /\ message = <<>>
  BY DEF Short10, Collect
<1>5. PICK full : full = text \o SubSeq(text \o <<>> \o Zeros(CHUNK), Len(text) + 1, CHUNK)
  OBVIOUS
<1>6. CString(full) = text
  BY <1>5, StructOfText
<1>7. Head(bytes[1]) = text
  BY <1>4
<1>8. /\ bytes' = [bytes EXCEPT ![1] = Tail(@)]
      /\ buf' = [buf EXCEPT ![2] = Cut(Grown(<<>>, text), Len(text))]
      /\ pc' = IF Nuls(Grown(<<>>, text), Len(text)) # {} THEN [pc EXCEPT ![2] = @ + 1] ELSE pc
  <2>1. /\ bytes' = [bytes EXCEPT ![1] = Tail(@)]
        /\ buf' = [buf EXCEPT ![2] = Cut(Grown(buf[2], CString(full)), Len(text))]
        /\ pc' = IF Nuls(Grown(buf[2], CString(full)), Len(text)) # {} THEN [pc EXCEPT ![2] = @ + 1] ELSE pc
    BY <1>4, <1>5, <1>7 DEF Collect, Advance
  <2>. QED
    BY <1>4, <1>6, <2>1
<1>9. Len(text) \in 1..CHUNK - 1 /\ Len(text) \in 1..CHUNK /\ <<>> \in Seq(Cells)
  BY <1>1
<1>10. /\ Nuls(Grown(<<>>, text), Len(text)) # {}
       /\ Cut(Grown(<<>>, text), Len(text)) \in Seq(Int)
       /\ IsString(Cut(Grown(<<>>, text), Len(text)), <<>> \o text)
  BY <1>9, GrownIs, CutIs
<1>11. <<>> \o text = text
  BY ConcatEmptySeq
<1>12. /\ pc'[2] = 4 /\ pc'[1] = pc[1] /\ buf'[1] = buf[1] /\ bytes'[2] = bytes[2]
       /\ buf'[2] = Cut(Grown(<<>>, text), Len(text))
  BY <1>1, <1>8, <1>10 DEF Types
<1>13. buf'[2] \in Seq(Int) /\ IsString(buf'[2], text')
  BY <1>2, <1>10, <1>11, <1>12, Zenon
<1>14. InHand9'
  BY <1>13 DEF InHand9, IsString
<1>15. ~Unsent'
  BY <1>4, <1>12 DEF Unsent
<1>. QED
  BY <1>1, <1>2, <1>3, <1>12, <1>14, <1>15 DEF Short10

(* Part 10, a text and an answer that fit one message: the calls of the process that *)
(* reads the file.                                                                   *)
LEMMA Short10Reader ==
  ASSUME Types, Inv10, Inv10', Short10, part = 10, garbage = <<>>, text \in Seq(Cells),
         text # NoFile, text # <<>>, Len(text) < CHUNK, Step(1)
  PROVE  Short10'
<1>1. 1 \in Procs /\ 2 \in Procs /\ 1 \in Chans /\ 2 \in Chans /\ pc[1] \in 1..9 /\ pc[2] \in 1..5
  BY DEF Procs, Chans, Inv10
<1>2. text' = text /\ TheReply' = TheReply /\ Answer(text') = Answer(text)
  BY <1>1, StepFrame DEF inputs, TheReply
<1>3. ASSUME pc'[2] = pc[2], buf'[2] = buf[2], message' = message, ended'[2] = ended[2],
             UNCHANGED <<bytes, text>>, Unsent' <=> Unsent, pc'[1] \in Nat,
             pc'[1] = 4 => buf'[1] = text \/ buf'[1] = <<>>,
             pc'[1] = 6 => output' = {<<>>}, pc'[1] >= 7 => output' = {Answer(text)}
      PROVE  Short10'
  <2>1. InHand9' <=> InHand9
    BY <1>3 DEF InHand9, IsString
  <2>. QED
    BY <1>1, <1>2, <1>3, <2>1 DEF Short10
<1>4. CASE pc[1] \in {1, 2} /\ Msgget(1)
  <2>1. pc' = [pc EXCEPT ![1] = @ + 1] /\ UNCHANGED <<buf, bytes, message, ended, output>>
    BY <1>4 DEF Msgget, Advance
  <2>2. pc'[1] \in {2, 3} /\ pc'[2] = pc[2]
    BY <1>1, <1>4, <2>1 DEF Types
  <2>3. Unsent' <=> Unsent
    BY <1>4, <2>2 DEF Unsent
  <2>. QED
    BY <1>2, <1>3, <2>1, <2>2, <2>3
<1>5. CASE pc[1] = 3 /\ Read(1)
  <2>1. /\ buf' = [buf EXCEPT ![1] = text] /\ pc' = [pc EXCEPT ![1] = @ + 1]
        /\ UNCHANGED <<bytes, message, ended, output>>
    BY <1>5, ReadsOn DEF Read, Advance, chans
  <2>2. pc'[1] = 4 /\ pc'[2] = pc[2] /\ buf'[1] = text /\ buf'[2] = buf[2]
    BY <1>1, <1>5, <2>1 DEF Types
  <2>3. Unsent' <=> Unsent
    BY <1>5, <2>2 DEF Unsent
  <2>. QED
    BY <1>2, <1>3, <2>1, <2>2, <2>3
<1>6. CASE pc[1] = 4 /\ Chan(1) = 1 /\ Send(1)
  BY <1>6, Short10Sends
<1>7. CASE pc[1] = 5 /\ Creat(1)
  <2>1. /\ pc' = [pc EXCEPT ![1] = @ + 1] /\ output' = {<<>>}
        /\ UNCHANGED <<buf, bytes, message, ended>>
    BY <1>7 DEF Creat, Advance, chans
  <2>2. pc'[1] = 6 /\ pc'[2] = pc[2]
    BY <1>1, <1>7, <2>1 DEF Types
  <2>3. Unsent' <=> Unsent
    BY <1>7, <2>2 DEF Unsent
  <2>. QED
    BY <1>2, <1>3, <2>1, <2>2, <2>3
<1>8. CASE pc[1] = 6 /\ Chan(1) = 2 /\ Receive(1)
  <2>1. bytes[2] # <<>> /\ bytes[2] \in Seq({TheReply}) /\ output = {<<>>}
    BY <1>8 DEF Receive, Short10
  <2>2. Head(bytes[2]) = TheReply /\ Tail(bytes[2]) \in Seq({TheReply})
    <3>1. Head(bytes[2]) \in {TheReply} /\ Tail(bytes[2]) \in Seq({TheReply})
      BY <2>1, HeadTailProperties
    <3>. QED
      BY <3>1
  <2>3. Answer(text) \in Seq(Chars)
    BY AnswerIs
  <2>4. CString(TheReply) = Answer(text) /\ TheReply # Answer(text)
    BY <2>3, ReplyIs DEF Short10
  <2>5. /\ output' = {cells \o CString(Head(bytes[2])) : cells \in output}
        /\ bytes' = [bytes EXCEPT ![2] = Tail(@)]
        /\ pc' = IF CString(Head(bytes[2])) # Head(bytes[2]) THEN [pc EXCEPT ![1] = @ + 1] ELSE pc
        /\ UNCHANGED <<buf, message, ended>>
    BY <1>8 DEF Receive, Advance
  <2>6. pc'[1] = 7 /\ pc'[2] = pc[2]
    BY <1>1, <1>8, <2>2, <2>4, <2>5 DEF Types
  <2>7. bytes'[1] = bytes[1] /\ bytes'[2] = Tail(bytes[2])
    BY <1>1, <2>5 DEF Types
  <2>8. output' = {Answer(text)}
    <3>1. <<>> \o Answer(text) = Answer(text)
      BY <2>3, ConcatEmptySeq
    <3>2. output' = {<<>> \o Answer(text)}
      BY <2>1, <2>2, <2>4, <2>5
    <3>. QED
      BY <3>1, <3>2
  <2>9. bytes'[2] \in Seq({TheReply'})
    BY <1>2, <2>2, <2>7
  <2>10. ~Unsent /\ ~Unsent'
    BY <1>8, <2>6 DEF Unsent
  <2>11. pc'[2] = 5 /\ pc[2] = 5 /\ buf'[2] = buf[2] /\ ended'[2] = ended[2]
    BY <1>1, <2>5, <2>6 DEF Inv10
  <2>12. Len(Answer(text')) < CHUNK /\ (ended'[2] = "no" => buf'[2] = Answer(text'))
    BY <1>2, <2>11 DEF Short10
  <2>. QED
    BY <1>2, <2>6, <2>8, <2>9, <2>10, <2>11, <2>12 DEF Short10
<1>9. CASE \E c \in Chans : pc[1] = c + 6 /\ Chan(1) = c /\ Rmid(1)
  <2>1. PICK c \in Chans : pc[1] = c + 6 /\ Chan(1) = c /\ Rmid(1)
    BY <1>9
  <2>2. /\ pc' = [pc EXCEPT ![1] = @ + 1] /\ bytes' = [bytes EXCEPT ![c] = <<>>]
        /\ UNCHANGED <<buf, message, ended, output>>
    BY <2>1 DEF Rmid, Advance
  <2>3. pc'[1] >= 7 /\ pc'[2] = pc[2] /\ pc'[1] \in Nat /\ pc[1] >= 7 /\ pc[2] = 5
    BY <1>1, <2>1, <2>2 DEF Types, Chans, Inv10
  <2>4. bytes'[2] \in {bytes[2], <<>>}
    BY <1>1, <2>2 DEF Types
  <2>5. bytes'[2] \in Seq({TheReply'})
    <3>1. bytes[2] \in Seq({TheReply}) /\ <<>> \in Seq({TheReply})
      BY EmptySeq DEF Short10
    <3>. QED
      BY <1>2, <2>4, <3>1
  <2>6. output' = {Answer(text')} /\ buf'[2] = buf[2]
    BY <1>2, <2>2, <2>3 DEF Short10
  <2>7. ~Unsent'
    BY <2>3 DEF Unsent
  <2>. QED
    BY <1>2, <2>2, <2>3, <2>5, <2>6, <2>7 DEF Short10
<1>10. CASE pc[1] = 9 /\ Exit(1)
  <2>1. ended' = [ended EXCEPT ![1] = "ok"] /\ buf' = [buf EXCEPT ![1] = <<>>]
        /\ UNCHANGED <<pc, bytes, message, output>>
    BY <1>10 DEF Exit, Quit
  <2>2. buf'[2] = buf[2] /\ ended'[2] = ended[2]
    BY <1>1, <2>1 DEF Types
  <2>3. Unsent' <=> Unsent
    BY <1>10, <2>1 DEF Unsent
  <2>. QED
    BY <1>2, <1>3, <1>10, <2>1, <2>2, <2>3 DEF Short10
<1>11. ASSUME NEW c \in Chans, pc[1] = c + 6, Chan(1) = c, Rmid(1)
       PROVE  Short10'
  BY <1>9, <1>11
<1>12. CASE pc[1] = 7 /\ Chan(1) = 1 /\ Rmid(1)
  <2>1. pc[1] = 1 + 6
    BY <1>12
  <2>. QED
    BY <1>1, <1>11, <1>12, <2>1
<1>13. CASE pc[1] = 8 /\ Chan(1) = 2 /\ Rmid(1)
  <2>1. pc[1] = 2 + 6
    BY <1>13
  <2>. QED
    BY <1>1, <1>11, <1>13, <2>1
<1>. QED
  BY <1>4, <1>5, <1>6, <1>7, <1>8, <1>10, <1>12, <1>13, Reader10Steps DEF Types

(* Part 10, a text and an answer that fit one message: the calls of the process that *)
(* counts.                                                                           *)
LEMMA Short10Counter ==
  ASSUME Types, Inv10, Inv10', Short10, part = 10, garbage = <<>>, text \in Seq(Cells),
         text # NoFile, text # <<>>, Len(text) < CHUNK, Step(2)
  PROVE  Short10'
<1>1. 1 \in Procs /\ 2 \in Procs /\ 1 \in Chans /\ 2 \in Chans /\ pc[1] \in 1..9 /\ pc[2] \in 1..5
  BY DEF Procs, Chans, Inv10
<1>2. text' = text /\ TheReply' = TheReply /\ Answer(text') = Answer(text)
  BY <1>1, StepFrame DEF inputs, TheReply
<1>3. Answer(text) \in Seq(Chars) /\ text \in Seq(Chars)
  BY AnswerIs
<1>4. CASE pc[2] \in {1, 2} /\ Msgget(2)
  <2>1. pc' = [pc EXCEPT ![2] = @ + 1] /\ UNCHANGED <<buf, bytes, message, ended, output>>
    BY <1>4 DEF Msgget, Advance
  <2>2. pc'[2] \in {2, 3} /\ pc'[1] = pc[1]
    BY <1>1, <1>4, <2>1 DEF Types
  <2>3. Unsent' <=> Unsent
    BY <2>1, <2>2 DEF Unsent
  <2>. QED
    BY <1>1, <1>2, <1>4, <2>1, <2>2, <2>3 DEF Short10
<1>5. CASE pc[2] = 3 /\ Chan(2) = 1 /\ Collect(2)
  BY <1>5, Short10Collects
<1>6. CASE pc[2] = 4 /\ Count(2)
  <2>1. /\ pc' = [pc EXCEPT ![2] = @ + 1]
        /\ buf' = [buf EXCEPT ![2] = Answer(CString(buf[2] \o garbage))]
        /\ UNCHANGED <<bytes, message, ended, output>>
    BY <1>6 DEF Count, Advance, chans, Answer
  <2>2. pc'[2] = 5 /\ pc'[1] = pc[1] /\ buf'[1] = buf[1]
    BY <1>1, <1>6, <2>1 DEF Types
  <2>3. buf'[2] = Answer(CString(buf[2] \o garbage))
    BY <1>1, <2>1 DEF Types
  <2>4. buf[2] \in Seq(Int) /\ IsString(buf[2], text)
    BY <1>6 DEF Short10, InHand9
  <2>5. CString(buf[2]) = text
    BY <1>3, <2>4, CStringIs
  <2>6. buf[2] \o garbage = buf[2]
    BY <2>4, ConcatEmptySeq
  <2>7. buf'[2] = Answer(text)
    BY <2>3, <2>5, <2>6
  <2>8. ~Unsent /\ ~Unsent'
    BY <1>6, <2>1, <2>2 DEF Short10, Unsent
  <2>. QED
    BY <1>1, <1>2, <2>1, <2>2, <2>7, <2>8 DEF Short10
<1>7. CASE pc[2] = 5 /\ Chan(2) = 2 /\ Reply(2) /\ Ready(2)
  <2>1. CASE Quit(2, "failed")
    <3>1. /\ ended' = [ended EXCEPT ![2] = "failed"] /\ buf' = [buf EXCEPT ![2] = <<>>]
          /\ UNCHANGED <<pc, bytes, message, output>>
      BY <2>1 DEF Quit
    <3>2. ended'[2] = "failed" /\ buf'[1] = buf[1]
      BY <1>1, <3>1 DEF Types
    <3>3. Unsent' <=> Unsent
      BY <3>1, <3>2 DEF Unsent
    <3>. QED
      BY <1>1, <1>2, <1>7, <3>1, <3>2, <3>3 DEF Short10
  <2>2. CASE ~Quit(2, "failed")
    <3>1. /\ bytes' = [bytes EXCEPT ![2] = Append(@, First(CHUNK, CString(buf[2]) \o Zeros(CHUNK)))]
          /\ UNCHANGED <<pc, ended, buf, message, output>>
      BY <1>7, <2>2 DEF Reply
    <3>2. buf[2] = Answer(text)
      BY <1>7 DEF Short10, Ready
    <3>3. CString(Answer(text)) = Answer(text)
      BY <1>3, CharsAreString
    <3>4. First(CHUNK, CString(buf[2]) \o Zeros(CHUNK)) = TheReply
      BY <3>2, <3>3 DEF TheReply
    <3>5. bytes'[1] = bytes[1] /\ bytes'[2] = Append(bytes[2], TheReply)
      BY <1>1, <3>1, <3>4 DEF Types
    <3>6. Append(bytes[2], TheReply) \in Seq({TheReply})
      BY AppendProperties DEF Short10
    <3>7. bytes'[2] \in Seq({TheReply'})
      BY <1>2, <3>5, <3>6
    <3>8. Unsent' <=> Unsent
      BY <3>1 DEF Unsent
    <3>. QED
      BY <1>1, <1>2, <1>7, <3>1, <3>5, <3>7, <3>8 DEF Short10
  <2>. QED
    BY <2>1, <2>2
<1>. QED
  BY <1>1, <1>4, <1>5, <1>6, <1>7, Counter10Steps DEF Types
--------------------------------------------------------------------------------
(* In every part, for every text, where the text and the answer are.                 *)
Answer9 == Fifo9 /\ Gathered9 /\ Sent9

Answer10 ==
  /\ text = <<>> => Empty10
  /\ Len(text) >= CHUNK => Long10
  /\ text # <<>> /\ Len(text) < CHUNK => Short10

AnswerInv ==
  /\ Inv
  /\ garbage = <<>> /\ text = NoFile => Unread
  /\ garbage = <<>> /\ text # NoFile =>
       /\ Answers4to8
       /\ part = 9 => Answer9
       /\ part = 10 => Answer10

(* Part 9: nothing is on its way at the start.                                       *)
LEMMA Answer9Init ==
  ASSUME Init, part = 9, text # NoFile
  PROVE  Answer9
<1>1. /\ pc[1] = 1 /\ pc[2] = 1 /\ ended[2] = "no" /\ ends = {} /\ opening = {}
      /\ bytes[2] = <<>> /\ buf[2] = <<>>
  BY DEF Init, Procs, Chans, TwoPrograms
<1>2. Fifo9
  BY <1>1 DEF Fifo9, Holds, Waits
<1>3. Gathered9 /\ Sent9
  BY <1>1 DEF Gathered9, Sent9
<1>. QED
  BY <1>2, <1>3 DEF Answer9

(* Part 10: nothing is on its way at the start.                                      *)
LEMMA Answer10Init ==
  ASSUME Init, part = 10, text # NoFile, garbage = <<>>
  PROVE  Answer10
<1>1. /\ pc[1] = 1 /\ pc[2] = 1 /\ message = <<>> /\ output = {}
      /\ bytes[1] = <<>> /\ bytes[2] = <<>> /\ buf[2] = <<>>
  BY DEF Init, Procs, Chans, TwoPrograms
<1>2. Empty10
  BY <1>1 DEF Empty10
<1>3. Long10
  BY <1>1, EmptySeq DEF Long10, First10
<1>4. ASSUME Len(text) < CHUNK PROVE Short10
  <2>1. Len(Answer(text \o garbage)) < CHUNK
    BY <1>4 DEF Init
  <2>2. text \in Seq(Cells)
    BY PipelineAssumption DEF Init
  <2>3. text \o garbage = text
    BY <2>2, ConcatEmptySeq
  <2>4. Len(Answer(text)) < CHUNK
    BY <2>1, <2>3
  <2>5. Unsent /\ <<>> \in Seq({TheReply})
    BY <1>1, EmptySeq DEF Unsent
  <2>. QED
    BY <1>1, <2>4, <2>5 DEF Short10
<1>. QED
  BY <1>2, <1>3, <1>4 DEF Answer10

(* Part 9: every step keeps the text and the answer on their way.                    *)
LEMMA Answer9Kept ==
  ASSUME Types, Types', Inv9, Inv9', Answer9, part = 9, text # NoFile, NEW p \in Procs, Step(p)
  PROVE  Answer9'
<1>1. CASE p = 1
  <2>1. Fifo9'
    BY <1>1, Reader9Fifo DEF Answer9
  <2>2. Gathered9'
    BY <1>1, Reader9Gathered DEF Answer9
  <2>3. Sent9'
    BY <1>1, <2>1, Reader9Sent DEF Answer9
  <2>. QED
    BY <2>1, <2>2, <2>3 DEF Answer9
<1>2. CASE p = 2
  <2>1. Fifo9'
    BY <1>2, Counter9Fifo DEF Answer9
  <2>2. Gathered9'
    BY <1>2, <2>1, Counter9Gathered DEF Answer9
  <2>3. Sent9'
    BY <1>2, <2>1, Counter9Sent DEF Answer9
  <2>. QED
    BY <2>1, <2>2, <2>3 DEF Answer9
<1>3. p # 3
  BY NoThirdProcess DEF Inv9, Order9
<1>. QED
  BY <1>1, <1>2, <1>3 DEF Procs

(* Part 10: every step keeps the text and the answer on their way.                   *)
LEMMA Answer10Kept ==
  ASSUME Types, Inv10, Inv10', Answer10, part = 10, text # NoFile, garbage = <<>>,
         NEW p \in Procs, Step(p)
  PROVE  Answer10'
<1>1. text' = text /\ text \in Seq(Cells)
  BY StepFrame, PipelineAssumption DEF Types, inputs
<1>2. p \in {1, 2}
  <2>1. p # 3
    BY NoThirdProcess DEF Inv10
  <2>. QED
    BY <2>1 DEF Procs
<1>3. text = <<>> => Empty10'
  BY <1>2, Empty10Kept DEF Answer10
<1>4. Len(text) >= CHUNK => Long10'
  BY <1>1, <1>2, Long10Kept DEF Answer10
<1>5. text # <<>> /\ Len(text) < CHUNK => Short10'
  BY <1>1, <1>2, Short10Reader, Short10Counter DEF Answer10
<1>. QED
  BY <1>1, <1>3, <1>4, <1>5 DEF Answer10

(* Part 10: a first program that returns well has stored the answer.                 *)
LEMMA Answer10Tell ==
  ASSUME Types, Inv10, Answer10, part = 10, text # NoFile, ended[1] = "ok"
  PROVE  output = {Expected(text)}
<1>1. pc[1] = 9 /\ pc[2] >= 5 /\ pc[2] \in 1..5
  BY DEF Inv10
<1>2. text \in Seq(Cells) /\ CHUNK \in Nat
  BY PipelineAssumption DEF Types
<1>3. text # <<>> /\ Len(text) < CHUNK
  BY <1>1, <1>2 DEF Answer10, Empty10, Long10
<1>4. output = {Answer(text)}
  BY <1>1, <1>3 DEF Answer10, Short10
<1>. QED
  BY <1>2, <1>4, AnswerIs

(* When nothing happens, everything stays where it is.                               *)
LEMMA AnswerStutters ==
  ASSUME AnswerInv, UNCHANGED vars
  PROVE  AnswerInv'
<1>1. Inv'
  BY InvNext DEF AnswerInv
<1>2. /\ text' = text /\ part' = part /\ garbage' = garbage /\ pc' = pc /\ ended' = ended
      /\ buf' = buf /\ message' = message /\ bytes' = bytes /\ ends' = ends
      /\ opening' = opening /\ output' = output
  BY DEF vars, inputs, chans
<1>3. Unread => Unread'
  BY <1>2 DEF Unread, Unread4, Unread5, Holds, Waits
<1>4. Answers4to8 => Answers4to8'
  BY <1>2 DEF Answers4to8, Carried, TheText, TheAnswer
<1>5. Answer9 => Answer9'
  <2>1. Fifo9 => Fifo9'
    BY <1>2 DEF Fifo9, Holds, Waits
  <2>2. Gathered9 => Gathered9'
    BY <1>2 DEF Gathered9, Underway9, Written9, InHand9, IsString
  <2>3. Sent9 => Sent9'
    BY <1>2 DEF Sent9, Cut9, OnItsWay9, InFifo9, Partly9
  <2>. QED
    BY <2>1, <2>2, <2>3 DEF Answer9
<1>6. Answer10 => Answer10'
  <2>1. Empty10 => Empty10'
    BY <1>2 DEF Empty10
  <2>2. Long10 => Long10'
    BY <1>2 DEF Long10, First10
  <2>3. Short10 => Short10'
    BY <1>2 DEF Short10, Unsent, TheReply, InHand9, IsString
  <2>. QED
    BY <1>2, <2>1, <2>2, <2>3 DEF Answer10
<1>. QED
  BY <1>1, <1>2, <1>3, <1>4, <1>5, <1>6 DEF AnswerInv

(* Every step keeps the text and the answer where they should be.                    *)
LEMMA AnswerStep ==
  ASSUME AnswerInv, NEW p \in Procs, Step(p)
  PROVE  AnswerInv'
<1>1. Inv' /\ Inv /\ Types /\ Types'
  <2>1. Next
    BY DEF Next
  <2>. QED
    BY <2>1, InvNext DEF AnswerInv, Inv
<1>2. text' = text /\ part' = part /\ garbage' = garbage
  BY <1>1, StepFrame DEF inputs
<1>3. CASE garbage = <<>> /\ text = NoFile
  <2>1. Unread
    BY <1>3 DEF AnswerInv
  <2>2. part = 4 => Unread4'
    BY <1>1, <1>3, <2>1, Unread4Kept DEF Unread
  <2>3. part = 5 => Unread5'
    BY <1>1, <1>3, <2>1, Unread5Kept DEF Unread
  <2>. QED
    BY <1>1, <1>2, <1>3, <2>2, <2>3 DEF AnswerInv, Unread
<1>4. CASE garbage = <<>> /\ text # NoFile
  <2>1. /\ Answers4to8 /\ (part = 9 => Answer9) /\ (part = 10 => Answer10)
        /\ (part = 9 => Inv9 /\ Inv9') /\ (part = 10 => Inv10 /\ Inv10')
    BY <1>1, <1>2, <1>4 DEF AnswerInv, Inv
  <2>2. Answers4to8'
    BY <1>1, <1>4, <2>1, Answers4to8Kept
  <2>3. part = 9 => Answer9'
    BY <1>1, <1>4, <2>1, Answer9Kept
  <2>4. part = 10 => Answer10'
    BY <1>1, <1>4, <2>1, Answer10Kept
  <2>. QED
    BY <1>1, <1>2, <1>4, <2>2, <2>3, <2>4 DEF AnswerInv
<1>5. CASE garbage # <<>>
  BY <1>1, <1>2, <1>5 DEF AnswerInv
<1>. QED
  BY <1>3, <1>4, <1>5

(* What a process that stores has stored.                                            *)
LEMMA AnswerTells ==
  ASSUME AnswerInv
  PROVE  OutputIsAnswer
<1>. SUFFICES ASSUME Stored, garbage = <<>>
              PROVE  IF part = 9
                       THEN /\ \E cells \in output : IsPrefix(cells, Expected(text))
                            /\ Len(Expected(text)) <= Len(text) => output = {Expected(text)}
                     ELSE IF part = 10 THEN output = {Expected(text)}
                     ELSE output = {First(BUF, Expected(First(BUF, text)))}
  BY DEF OutputIsAnswer
<1>1. text # NoFile
  BY UnreadTells DEF AnswerInv
<1>2. Inv /\ Types /\ Answers4to8 /\ (part = 9 => Inv9 /\ Answer9) /\ (part = 10 => Inv10 /\ Answer10)
  BY <1>1 DEF AnswerInv, Inv
<1>3. CASE part \in 4..8
  BY <1>1, <1>2, <1>3, Answers4to8Tell
<1>4. CASE part = 9
  BY <1>1, <1>2, <1>4, Answer9Tell DEF Answer9, Stored
<1>5. CASE part = 10
  BY <1>1, <1>2, <1>5, Answer10Tell DEF Stored
<1>. QED
  BY <1>2, <1>3, <1>4, <1>5 DEF Types, Parts

(* In every part, for every text and every size of the buffers, what is stored is the *)
(* number of numbers in the text and the numbers, or what the part's buffers have room *)
(* for (find_all_numbers, make_string and the way of the text and the answer through   *)
(* the channels).                                                                      *)
THEOREM PipelineOutput == Spec => []OutputIsAnswer
<1>1. Init => AnswerInv
  <2>. SUFFICES ASSUME Init PROVE AnswerInv
    OBVIOUS
  <2>1. Inv /\ Unread /\ Answers4to8
    BY InvInit, UnreadInit, Answers4to8Init
  <2>. QED
    BY <2>1, Answer9Init, Answer10Init DEF AnswerInv
<1>2. AnswerInv /\ [Next]_vars => AnswerInv'
  BY AnswerStutters, AnswerStep DEF Next
<1>3. AnswerInv => OutputIsAnswer
  BY AnswerTells
<1>. QED
  BY <1>1, <1>2, <1>3, PTL DEF Spec
================================================================================
