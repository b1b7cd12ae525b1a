-------------------------------- MODULE Pipeline --------------------------------
(***************************************************************************)
(* The seven versions of the number pipeline ("idz os 1", parts 4 to 10).  *)
(* A first process reads a file and sends the text on, a second one finds  *)
(* the numbers in it and sends the answer on, and a third, or the first    *)
(* again, stores it.  Parts 4 and 6 use pipes, parts 5, 7, 8 and 9 FIFOs,  *)
(* part 10 System V message queues; parts 8 to 10 are two programs that    *)
(* the user starts.                                                        *)
(*                                                                         *)
(* The program of each process is the sequence of its system calls; the    *)
(* actions say what a call does.  A loop of parts 9 and 10 is one call     *)
(* that is repeated, once for each chunk.  A call that returns an error    *)
(* ends the process.  Variables that never change say which part runs, on  *)
(* what file, and what the stack holds behind a buffer.                    *)
(***************************************************************************)
EXTENDS PipelineText, SequencesExt

CONSTANTS Texts,         \* the contents a file may have
          Garbage,       \* what may be left on the stack, up to the first NUL
          BUF,           \* 5000 in parts 4 to 8: a text is read in one call
          CHUNK,         \* 128 in parts 9 and 10
          QUEUE_LIMIT    \* messages a queue holds; 128 of them are 16384 bytes

(* A text has no NUL in it, and every buffer and queue has room for something. *)
ASSUME PipelineAssumption ==
  /\ \A cells \in Texts \cup Garbage : cells \in Seq(Cells)
  /\ {BUF, CHUNK, QUEUE_LIMIT} \subseteq Nat \ {0}

NoFile == <<-4>>         \* what no file contains
Parts == 4..10
Procs == 1..3
Chans == {1, 2}          \* read_chan and write_chan
Fifos == {5, 7, 8, 9}
TwoPrograms == {8, 9, 10}

VARIABLES
  part, text, garbage,   \* which program, on what file and stack
  pc,          \* the call each process makes next, 0 before it is started
  ended,       \* of each process: "no", "ok", "failed" or "killed"
  buf,         \* the data each process has in hand
  message,     \* part 10: the second program's struct, which is never cleared
  bytes,       \* what has been written to each channel and not been read
  ends,        \* the open ends <<process, channel, "r" or "w">>
  opening,     \* those of a FIFO whose open still waits for the other side
  names,       \* the FIFOs and queues that exist
  output       \* what is in the file written, {} before there is one

inputs == <<part, text, garbage>>
chans == <<bytes, ends, opening, names>>
vars == <<inputs, pc, ended, buf, message, chans, output>>
----------------------------------------------------------------------------
(* Part 4: the second and the third process inherit both ends of both pipes.   *)
Reader4 == << <<"pipe", 1>>, <<"pipe", 2>>, <<"fork", 2>>, <<"load">>,
              <<"close", 1, "r">>, <<"put", 1>>, <<"close", 1, "w">> >>
Counter4 == << <<"fork", 3>>, <<"close", 1, "w">>, <<"get", 1>>, <<"close", 1, "r">>, <<"count">>,
               <<"close", 2, "r">>, <<"put", 2>>, <<"close", 2, "w">> >>
Writer4 == << <<"close", 2, "w">>, <<"get", 2>>, <<"close", 2, "r">>, <<"store">> >>

(* Mutant: the first process does not wait for the others. *)
HastyReader5 == << <<"mkfifo", 1>>, <<"mkfifo", 2>>, <<"fork", 2>>, <<"load">>, <<"open", 1, "w">>,
                   <<"put", 1>>, <<"close", 1, "w">>, <<"unlink", 1>>, <<"unlink", 2>> >>

(* Part 5: each process waits for its child, the first one removes the FIFOs.  *)
Cleanup5 == << <<"wait", 2>>, <<"unlink", 1>>, <<"unlink", 2>> >>
Reader5 == << <<"mkfifo", 1>>, <<"mkfifo", 2>>, <<"fork", 2>>, <<"load">>, <<"open", 1, "w">>,
              <<"put", 1>>, <<"close", 1, "w">> >> \o Cleanup5
Counter5 == << <<"fork", 3>>, <<"open", 1, "r">>, <<"get", 1>>, <<"close", 1, "r">>, <<"count">>,
               <<"open", 2, "w">>, <<"put", 2>>, <<"close", 2, "w">>, <<"wait", 3>> >>
Writer5 == << <<"open", 2, "r">>, <<"get", 2>>, <<"close", 2, "r">>, <<"store">> >>

(* Mutant: the first process gives its end of the answers back too early. *)
ClosesAnswers6 == << <<"pipe", 1>>, <<"pipe", 2>>, <<"fork", 2>>, <<"load">>, <<"close", 1, "r">>,
                     <<"put", 1>>, <<"close", 1, "w">>, <<"close", 2, "r">>, <<"wait", 2>>,
                     <<"close", 2, "w">>, <<"get", 2>>, <<"store">> >>

(* Part 6: two processes; the first waits for the second to end and stores.    *)
Reader6 == << <<"pipe", 1>>, <<"pipe", 2>>, <<"fork", 2>>, <<"load">>, <<"close", 1, "r">>,
              <<"put", 1>>, <<"close", 1, "w">>, <<"wait", 2>>, <<"close", 2, "w">>,
              <<"get", 2>>, <<"close", 2, "r">>, <<"store">> >>
Counter6 == << <<"close", 1, "w">>, <<"get", 1>>, <<"close", 1, "r">>, <<"count">>,
               <<"close", 2, "r">>, <<"put", 2>>, <<"close", 2, "w">> >>

(* Part 7: waitpid(WNOHANG) returns at once, and the FIFO does the waiting.    *)
Cleanup7 == << <<"unlink", 1>>, <<"unlink", 2>> >>
Reader7 == << <<"mkfifo", 1>>, <<"mkfifo", 2>>, <<"fork", 2>>, <<"load">>, <<"open", 1, "w">>,
              <<"put", 1>>, <<"close", 1, "w">>, <<"open", 2, "r">>, <<"get", 2>>,
              <<"close", 2, "r">>, <<"store">> >> \o Cleanup7

(* Mutant: both FIFOs are opened before the first is read. *)
OpensBoth7 == << <<"open", 2, "w">>, <<"open", 1, "r">>, <<"get", 1>>, <<"close", 1, "r">>,
                 <<"count">>, <<"put", 2>>, <<"close", 2, "w">> >>

Counter7 == << <<"open", 1, "r">>, <<"get", 1>>, <<"close", 1, "r">>, <<"count">>,
               <<"open", 2, "w">>, <<"put", 2>>, <<"close", 2, "w">> >>

(* Part 8: the same as two programs. *)
Reader8 == << <<"mkfifo", 1>>, <<"mkfifo", 2>>, <<"load">>, <<"open", 1, "w">>,
              <<"put", 1>>, <<"close", 1, "w">>, <<"open", 2, "r">>, <<"get", 2>>,
              <<"close", 2, "r">>, <<"store">>, <<"unlink", 1>>, <<"unlink", 2>> >>
Counter8 == << <<"open", 1, "r">>, <<"get", 1>>, <<"close", 1, "r">>, <<"count">>,
               <<"open", 2, "w">>, <<"put", 2>>, <<"close", 2, "w">> >>

(* Part 9: text and answer go through the FIFOs in chunks. *)
Reader9 == << <<"mkfifo", 1>>, <<"mkfifo", 2>>, <<"source">>, <<"open", 1, "w">>, <<"feed", 1>>,
              <<"close", 1, "w">>, <<"open", 2, "r">>, <<"creat">>, <<"drain", 2>>,
              <<"close", 2, "r">>, <<"unlink", 1>>, <<"unlink", 2>> >>
Counter9 == << <<"open", 1, "r">>, <<"gather", 1>>, <<"close", 1, "r">>, <<"answer">>,
               <<"open", 2, "w">>, <<"feed", 2>>, <<"close", 2, "w">> >>

(* Part 10: the same through message queues, which the first program removes.  *)
Reader10 == << <<"msgget", 1>>, <<"msgget", 2>>, <<"source">>, <<"send", 1>>, <<"creat">>,
               <<"receive", 2>>, <<"rmid", 1>>, <<"rmid", 2>> >>
Counter10 == << <<"msgget", 1>>, <<"msgget", 2>>, <<"collect", 1>>, <<"count">>, <<"reply", 2>> >>

Programs ==
  [p \in Parts |-> << <<Reader4, Counter4, Writer4>>, <<Reader5, Counter5, Writer5>>,
                      <<Reader6, Counter6, <<>>>>, <<Reader7, Counter7, <<>>>>,
                      <<Reader8, Counter8, <<>>>>, <<Reader9, Counter9, <<>>>>,
                      <<Reader10, Counter10, <<>>>> >>[p - 3]]

Answer(string) == MakeString(FindAllNumbers(string))

(* A FIFO of an earlier run may be left; of the second programs, one started   *)
(* before its FIFOs exist fails.  In part 10 an answer of CHUNK cells or more  *)
(* overruns the message and is left out.                                       *)
Init ==
  /\ part \in Parts /\ text \in Texts \cup {NoFile}
  /\ garbage \in IF part = 9 THEN {<<>>} ELSE Garbage
  /\ part = 10 /\ text # NoFile /\ Len(text) < CHUNK => Len(Answer(text \o garbage)) < CHUNK
  /\ pc = [p \in Procs |-> IF p = 1 \/ (p = 2 /\ part \in TwoPrograms) THEN 1 ELSE 0]
  /\ ended = [p \in Procs |-> "no"] /\ buf = [p \in Procs |-> <<>>] /\ message = <<>>
  /\ bytes = [c \in Chans |-> <<>>] /\ ends = {} /\ opening = {}
  /\ names \in IF part \in Fifos THEN SUBSET Chans ELSE {{}}
  /\ output = {}
----------------------------------------------------------------------------
(* Process p is about to make a call, which has these arguments. *)
Calls(p, call) ==
  /\ ended[p] = "no" /\ pc[p] \in DOMAIN Programs[part][p]
  /\ ~\E e \in opening : e[1] = p
  /\ Programs[part][p][pc[p]][1] = call

Chan(p) == Programs[part][p][pc[p]][2]
Mode(p) == Programs[part][p][pc[p]][3]

Advance(p) == pc' = [pc EXCEPT ![p] = @ + 1]
Quit(p, how) ==
  /\ ended' = [ended EXCEPT ![p] = how]
  /\ ends' = {e \in ends : e[1] # p}
  /\ buf' = [buf EXCEPT ![p] = <<>>]
  /\ UNCHANGED <<inputs, pc, message, bytes, opening, names, output>>

(* The third process of parts 6 to 10 is never started. *)
Exit(p) ==
  /\ ended[p] = "no" /\ pc[p] # 0
  /\ pc[p] = Len(Programs[part][p]) + 1
  /\ Quit(p, "ok")

HasReader(c) == \E e \in ends : e[2] = c /\ e[3] = "r"
HasWriter(c) == \E e \in ends : e[2] = c /\ e[3] = "w"

Pipe(p) ==
  /\ Calls(p, "pipe") /\ Advance(p)
  /\ ends' = ends \cup {<<p, Chan(p), "r">>, <<p, Chan(p), "w">>}
  /\ UNCHANGED <<inputs, ended, buf, message, bytes, opening, names, output>>

Mkfifo(p) ==
  /\ Calls(p, "mkfifo")
  /\ IF Chan(p) \in names THEN Quit(p, "failed")
     ELSE /\ names' = names \cup {Chan(p)} /\ Advance(p)
          /\ UNCHANGED <<inputs, ended, buf, message, bytes, ends, opening, output>>

(* The child holds what its parent holds. *)
Fork(p) ==
  /\ Calls(p, "fork")
  /\ pc' = [pc EXCEPT ![p] = @ + 1, ![Chan(p)] = 1]
  /\ ends' = ends \cup {<<Chan(p), e[2], e[3]>> : e \in {f \in ends : f[1] = p}}
  /\ UNCHANGED <<inputs, ended, buf, message, bytes, opening, names, output>>

Wait(p) ==
  /\ Calls(p, "wait") /\ ended[Chan(p)] # "no" /\ Advance(p)
  /\ UNCHANGED <<inputs, ended, buf, message, chans, output>>

(* An end of a FIFO counts from the call on; the call returns when the other   *)
(* side has been opened.                                                       *)
Open(p) ==
  /\ Calls(p, "open")
  /\ LET Meets(e) == e[2] = Chan(p) /\ e[3] # Mode(p)
     IN  IF Chan(p) \notin names THEN Quit(p, "failed")
         ELSE /\ ends' = ends \cup {<<p, Chan(p), Mode(p)>>}
              /\ opening' = {e \in opening : ~Meets(e)} \cup
                   IF \E e \in ends : Meets(e) THEN {} ELSE {<<p, Chan(p), Mode(p)>>}
              /\ Advance(p)
              /\ UNCHANGED <<inputs, ended, buf, message, bytes, names, output>>

Close(p) ==
  /\ Calls(p, "close") /\ Advance(p)
  /\ ends' = ends \ {<<p, Chan(p), Mode(p)>>}
  /\ UNCHANGED <<inputs, ended, buf, message, bytes, opening, names, output>>

Unlink(p) ==
  /\ Calls(p, "unlink") /\ Advance(p)
  /\ names' = names \ {Chan(p)}
  /\ UNCHANGED <<inputs, ended, buf, message, bytes, ends, opening, output>>

(* open, read and close of the input: at most BUF cells, or to be read on.     *)
Read(p) ==
  /\ Calls(p, "load") \/ Calls(p, "source")
  /\ IF text = NoFile THEN Quit(p, "failed")
     ELSE /\ buf' = [buf EXCEPT ![p] = IF Calls(p, "load") THEN First(BUF, text) ELSE text]
          /\ Advance(p)
          /\ UNCHANGED <<inputs, ended, message, chans, output>>

(* A write fits the channel.  Without a reader it raises SIGPIPE, unless it    *)
(* writes nothing.                                                             *)
Put(p) ==
  /\ Calls(p, "put")
  /\ IF buf[p] # <<>> /\ ~HasReader(Chan(p)) THEN Quit(p, "killed")
     ELSE /\ bytes' = [bytes EXCEPT ![Chan(p)] = @ \o buf[p]]
          /\ buf' = [buf EXCEPT ![p] = <<>>] /\ Advance(p)
          /\ UNCHANGED <<inputs, ended, message, ends, opening, names, output>>

(* A read blocks while the channel is empty and somebody may write to it. *)
Get(p) ==
  /\ Calls(p, "get") /\ (bytes[Chan(p)] # <<>> \/ ~HasWriter(Chan(p)))
  /\ buf' = [buf EXCEPT ![p] = First(BUF, bytes[Chan(p)])]
  /\ bytes' = [bytes EXCEPT ![Chan(p)] = Rest(BUF, @)]
  /\ Advance(p)
  /\ UNCHANGED <<inputs, ended, message, ends, opening, names, output>>

(* The buffer has no NUL of its own: the string goes on into the stack. *)
Count(p) ==
  /\ Calls(p, "count") /\ Advance(p)
  /\ \E string \in {CString(buf[p] \o garbage)} : \E numbers \in {FindAllNumbers(string)} :
       buf' = [buf EXCEPT ![p] = MakeString(numbers)]
  /\ UNCHANGED <<inputs, ended, message, chans, output>>

Store(p) ==
  /\ Calls(p, "store") /\ Advance(p)
  /\ output' = {buf[p]} /\ buf' = [buf EXCEPT ![p] = <<>>]
  /\ UNCHANGED <<inputs, ended, message, chans>>

Creat(p) ==
  /\ Calls(p, "creat") /\ Advance(p) /\ output' = {<<>>}
  /\ UNCHANGED <<inputs, ended, buf, message, chans>>
----------------------------------------------------------------------------
(* Part 9: one turn of a loop that writes what is in hand. *)
Feed(p) ==
  /\ Calls(p, "feed")
  /\ IF buf[p] = <<>>
       THEN Advance(p) /\ UNCHANGED <<inputs, ended, buf, message, chans, output>>
     ELSE IF ~HasReader(Chan(p)) THEN Quit(p, "killed")
     ELSE /\ bytes' = [bytes EXCEPT ![Chan(p)] = @ \o First(CHUNK, buf[p])]
          /\ buf' = [buf EXCEPT ![p] = Rest(CHUNK, @)]
          /\ UNCHANGED <<inputs, pc, ended, message, ends, opening, names, output>>

(* The second program's data after a chunk was put at its end: length grows by  *)
(* CHUNK, and a NUL is looked for in the last r cells before it, as many as the *)
(* chunk has, though the chunk lies at the beginning.                           *)
Grown(data, chunk) == data \o chunk \o Zeros(CHUNK - Len(chunk))
Nuls(grown, r) == {i \in Len(grown) - r + 1 .. Len(grown) : grown[i] = NUL}
Cut(grown, r) == IF Nuls(grown, r) = {} THEN grown ELSE First(Min(Nuls(grown, r)), grown)

(* One turn of the second program's reading loop.  The heap is fresh: cells    *)
(* nobody wrote are NUL.  A file that was empty ends it before it opens the    *)
(* second FIFO.                                                                *)
Gather(p) ==
  /\ Calls(p, "gather") /\ (bytes[Chan(p)] # <<>> \/ ~HasWriter(Chan(p)))
  /\ LET chunk == First(CHUNK, bytes[Chan(p)])
         grown == Grown(buf[p], chunk)
     IN  IF chunk = <<>> /\ buf[p] = <<>> THEN Quit(p, "failed")
         ELSE /\ bytes' = [bytes EXCEPT ![Chan(p)] = Rest(CHUNK, @)]
              /\ buf' = IF chunk = <<>> THEN buf ELSE [buf EXCEPT ![p] = Cut(grown, Len(chunk))]
              /\ IF chunk = <<>> \/ Nuls(grown, Len(chunk)) # {} THEN Advance(p) ELSE UNCHANGED pc
              /\ UNCHANGED <<inputs, ended, message, ends, opening, names, output>>

(* Part 9: as many cells of the answer, or of what lies behind it, will be     *)
(* sent as the data has.                                                       *)
AnswerOfLength(p) ==
  /\ Calls(p, "answer") /\ Advance(p)
  /\ \E string \in {CString(buf[p])} : \E numbers \in {FindAllNumbers(string)} :
       buf' = [buf EXCEPT ![p] = First(Len(@), MakeString(numbers) \o Zeros(Len(@)))]
  /\ UNCHANGED <<inputs, ended, message, chans, output>>

(* One turn of the first program's second loop, which a NUL ends. *)
Drain(p) ==
  /\ Calls(p, "drain") /\ (bytes[Chan(p)] # <<>> \/ ~HasWriter(Chan(p)))
  /\ LET chunk == First(CHUNK, bytes[Chan(p)])
     IN  /\ output' = {cells \o CString(chunk) : cells \in output}
         /\ bytes' = [bytes EXCEPT ![Chan(p)] = Rest(CHUNK, @)]
         /\ IF chunk = <<>> \/ CString(chunk) # chunk THEN Advance(p) ELSE UNCHANGED pc
  /\ UNCHANGED <<inputs, ended, buf, message, ends, opening, names>>
----------------------------------------------------------------------------
(* Part 10: both programs create the queues or find them. *)
Msgget(p) ==
  /\ Calls(p, "msgget") /\ Advance(p)
  /\ names' = names \cup {Chan(p)}
  /\ UNCHANGED <<inputs, ended, buf, message, bytes, ends, opening, output>>

(* msgsnd waits for room. *)
Send(p) ==
  /\ Calls(p, "send")
  /\ IF buf[p] = <<>>
       THEN Advance(p) /\ UNCHANGED <<inputs, ended, buf, message, chans, output>>
       ELSE /\ Len(bytes[Chan(p)]) < QUEUE_LIMIT
            /\ bytes' = [bytes EXCEPT ![Chan(p)] = Append(@, First(CHUNK, buf[p]))]
            /\ buf' = [buf EXCEPT ![p] = Rest(CHUNK, @)]
            /\ UNCHANGED <<inputs, pc, ended, message, ends, opening, names, output>>

(* The message is copied as a string, with whatever an earlier message or the  *)
(* stack left behind its text.                                                 *)
Collect(p) ==
  /\ Calls(p, "collect") /\ bytes[Chan(p)] # <<>>
  /\ LET chunk == Head(bytes[Chan(p)])
         before == IF message = <<>> THEN chunk \o garbage \o Zeros(CHUNK) ELSE message
         filled == chunk \o SubSeq(before, Len(chunk) + 1, CHUNK)
         grown == Grown(buf[p], CString(filled))
     IN  /\ message' = filled
         /\ bytes' = [bytes EXCEPT ![Chan(p)] = Tail(@)]
         /\ buf' = [buf EXCEPT ![p] = Cut(grown, Len(chunk))]
         /\ IF Nuls(grown, Len(chunk)) # {} THEN Advance(p) ELSE UNCHANGED pc
  /\ UNCHANGED <<inputs, ended, ends, opening, names, output>>

(* msgsnd returns 0, by which offset grows: the first chunk of the answer is   *)
(* sent until the queue is removed.                                            *)
Reply(p) ==
  /\ Calls(p, "reply")
  /\ IF Chan(p) \notin names THEN Quit(p, "failed")
     ELSE /\ Len(bytes[Chan(p)]) < QUEUE_LIMIT
          /\ bytes' = [bytes EXCEPT ![Chan(p)] =
               Append(@, First(CHUNK, CString(buf[p]) \o Zeros(CHUNK)))]
          /\ UNCHANGED <<inputs, pc, ended, buf, message, ends, opening, names, output>>

Receive(p) ==
  /\ Calls(p, "receive") /\ bytes[Chan(p)] # <<>>
  /\ LET chunk == Head(bytes[Chan(p)])
     IN  /\ output' = {cells \o CString(chunk) : cells \in output}
         /\ IF CString(chunk) # chunk THEN Advance(p) ELSE UNCHANGED pc
  /\ bytes' = [bytes EXCEPT ![Chan(p)] = Tail(@)]
  /\ UNCHANGED <<inputs, ended, buf, message, ends, opening, names>>

Rmid(p) ==
  /\ Calls(p, "rmid") /\ Advance(p)
  /\ names' = names \ {Chan(p)} /\ bytes' = [bytes EXCEPT ![Chan(p)] = <<>>]
  /\ UNCHANGED <<inputs, ended, buf, message, ends, opening, output>>
----------------------------------------------------------------------------
Step(p) ==
  \/ Pipe(p) \/ Mkfifo(p) \/ Fork(p) \/ Wait(p) \/ Open(p) \/ Close(p) \/ Unlink(p) \/ Exit(p)
  \/ Read(p) \/ Put(p) \/ Get(p) \/ Count(p) \/ Store(p) \/ Creat(p)
  \/ Feed(p) \/ Gather(p) \/ AnswerOfLength(p) \/ Drain(p)
  \/ Msgget(p) \/ Send(p) \/ Collect(p) \/ Reply(p) \/ Receive(p) \/ Rmid(p)

Next == \E p \in Procs : Step(p)

(* Every process is scheduled, and the user starts both programs. *)
Spec == Init /\ [][Next]_vars /\ \A p \in Procs : WF_vars(Step(p))
----------------------------------------------------------------------------
Stored == ended[IF part \in {4, 5} THEN 3 ELSE 1] = "ok"
Expected(string) == MakeString(NumbersOf(string))

(* README.md of "idz os 1": the output has the number of integers in the file  *)
(* and the integers, and a long text counts up to its 5000th character (the    *)
(* scan find_all_numbers and the way of text and answer through every part).   *)
(* Where the code does not keep this, the condition says so: digits on the     *)
(* stack behind the buffer are read as well; parts 4 to 8 carry the answer in  *)
(* one call and cut it, like the text, at the buffer's size; part 9 cuts an    *)
(* answer that is longer than the text; and part 10 manages one message only.  *)
OutputIsAnswer ==
  Stored /\ garbage = <<>> =>
    IF part = 9 THEN /\ \E cells \in output : IsPrefix(cells, Expected(text))
                     /\ Len(Expected(text)) <= Len(text) => output = {Expected(text)}
    ELSE IF part = 10 THEN output = {Expected(text)}
    ELSE output = {First(BUF, Expected(First(BUF, text)))}

(* When the program the user started has ended well, the output is there and   *)
(* the FIFOs and queues are gone, so that the next run can begin (the waits    *)
(* of parts 5 and 6, and the FIFOs and queues that do the waiting in parts 7   *)
(* to 10).  Part 4 waits for nobody.                                           *)
DoneWhenItReturns ==
  part # 4 /\ ended[1] = "ok" => Stored /\ output # {} /\ names = {}

(* A file that exists is never lost to SIGPIPE: every reader stays until its   *)
(* writer has written (the order of close, open and write in parts 4 to 8).    *)
(* In part 9 the second program may go on writing behind the answer's end.     *)
NoBrokenPipe ==
  text # NoFile => /\ ended[1] # "killed"
                   /\ part # 9 => ended[2] # "killed"

AllEnded == \A p \in Procs : pc[p] = 0 \/ ended[p] # "no"
Refused == part # 10 /\ \E p \in Procs : ended[p] = "failed"

(* Nobody waits for ever for the other side of a pipe, a FIFO or a queue: a    *)
(* run on a file that exists ends, unless a call of it is refused, since a     *)
(* FIFO is already or not yet there.  In part 4 every process keeps ends that  *)
(* the others need closed, so that an empty file, which is no data, leaves     *)
(* two of them waiting; in parts 9 and 10 an empty file ends or blocks the     *)
(* second program, and part 10 waits for more after a full message.            *)
EveryRunEnds ==
  /\ text # NoFile
  /\ part \in {4, 9, 10} => text # <<>>
  /\ part = 10 => Len(text \o garbage) < CHUNK
  => <>(AllEnded \/ Refused)
=============================================================================
