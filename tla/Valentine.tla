------------------------------- MODULE Valentine -------------------------------
(***************************************************************************)
(* The attractive student of "idz os 4": a UDP server collects num_clients *)
(* proposals, agrees to the longest and rejects the others.  Parts 4-5 to  *)
(* 8 do nothing else but write logs.  In part 9 the server pings its       *)
(* loggers every HEARTBEAT_INTERVAL seconds meanwhile and drops those that *)
(* have been silent for two intervals: a turn of its loop checks the       *)
(* heartbeats, then takes at most one datagram from the loggers' socket    *)
(* and at most one from the socket of the proposals.  A logger_client      *)
(* started with the server's address sends its REGISTER to the latter,     *)
(* where it is one more proposal.  Part 10 has no heartbeats; SIGINT ends  *)
(* its loop, and it tells those it has heard of that it shuts down.        *)
(*                                                                         *)
(* The processes run on one machine: datagrams come in any order and none  *)
(* is lost on its way; a running logger answers a PING, and the server     *)
(* reads the PONG, by the next second.  num_clients is the number of fans.  *)
(***************************************************************************)
EXTENDS Integers, Sequences, FiniteSets

CONSTANTS Fans, Loggers,        \* the loggers of the server's command line
          Registrars,           \* logger_clients started with its address
          Proposals,            \* the lengths the messages may have
          MAX_LEN,              \* of a message that fits the buffer, 1023 in the code
          HEARTBEAT_INTERVAL,   \* 30 s in the code
          MAX_TIME              \* a bound of the model: when the clock stops

Senders == Fans \cup Registrars
Parts == {"4-5", "6-7", "8", "9", "10"}
None == "none"       \* no datagram, no answer

(* Without a fan the selection would read a client nobody has filled in; with  *)
(* an interval of a second a PONG could come after the check it is awaited by. *)
ASSUME ValentineAssumption ==
  /\ IsFiniteSet(Fans) /\ Fans # {} /\ Fans \cap Registrars = {}
  /\ None \notin Senders \cup Loggers
  /\ Proposals \subseteq [Senders -> Nat] /\ MAX_LEN \in Nat \ {0}
  /\ HEARTBEAT_INTERVAL \in Nat /\ HEARTBEAT_INTERVAL >= 2
  /\ MAX_TIME \in Nat /\ MAX_TIME >= HEARTBEAT_INTERVAL

Running == -1        \* silent_since of a logger that runs

VARIABLES
  part,          \* the part of the homework, never changed
  proposal,      \* length of each sender's message
  fan,           \* of each sender: "home", "waiting", or what it was answered
  sent,          \* the senders whose message is on its way
  clients,       \* the messages received, in order
  answers,       \* the answer on its way to each sender, or None
  server,        \* "loop" or "done"; in part 10 also "select" and "decide"
  shutdown_requested,
  active, last_active,   \* fields of loggers[]
  last_check, now,
  pings, pongs,  \* the loggers with a PING, a PONG on its way
  silent_since   \* when a logger stopped, or Running

caseVars == <<part, proposal>>
fanVars == <<caseVars, fan, sent, clients, answers, server, shutdown_requested>>
logVars == <<active, last_active, last_check, now, pings, pongs, silent_since>>
vars == <<fanVars, logVars>>

(* time() is far from last_check's 0 when the server starts. *)
Init ==
  /\ part \in Parts /\ proposal \in Proposals /\ shutdown_requested = FALSE
  /\ fan = [f \in Senders |-> "home"] /\ sent = {} /\ clients = <<>>
  /\ answers = [f \in Senders |-> None] /\ server = "loop"
  /\ active = Loggers
  /\ now = HEARTBEAT_INTERVAL
  /\ last_active = [l \in Loggers |-> now] /\ last_check = 0
  /\ pings = {} /\ pongs = {}
  /\ silent_since = [l \in Loggers |-> Running]

Propose(f) ==
  /\ fan[f] = "home"
  /\ fan' = [fan EXCEPT ![f] = "waiting"] /\ sent' = sent \cup {f}
  /\ UNCHANGED <<caseVars, clients, answers, server, shutdown_requested, logVars>>

(* send_command closes its socket at once: no answer reaches a registrar. *)
Register(r) ==
  /\ part = "9" /\ fan[r] = "home"
  /\ fan' = [fan EXCEPT ![r] = "gone"] /\ sent' = sent \cup {r}
  /\ UNCHANGED <<caseVars, clients, answers, server, shutdown_requested, logVars>>

(* Mutant: the timeout is as short as the interval between two PINGs. *)
TimeoutOfOneInterval == HEARTBEAT_INTERVAL

LOGGER_TIMEOUT == HEARTBEAT_INTERVAL * 2

(* A logger is dropped or sent a PING, never both. *)
check_heartbeats(time) ==
  LET silent == {l \in active : time - last_active[l] >= LOGGER_TIMEOUT}
  IN  IF time - last_check >= HEARTBEAT_INTERVAL
        THEN /\ active' = active \ silent
             /\ pings' = pings \cup (active \ silent)
             /\ last_check' = time
        ELSE UNCHANGED <<active, pings, last_check>>

(* handle_logger_command: a PONG of logger l, or nothing.  A PONG does not     *)
(* make a dropped logger active again.                                         *)
TakePong(l, time) ==
  /\ pongs' = pongs \ {l}
  /\ last_active' = IF l = None THEN last_active ELSE [last_active EXCEPT ![l] = time]

(* From part 9 on a datagram without a byte is not counted. *)
Counts(f) == f # None /\ (part \in {"9", "10"} => proposal[f] > 0)

(* Mutant: the datagram is looked at and left in the socket. *)
PeekProposal(f) ==
  /\ clients' = IF Counts(f) THEN Append(clients, f) ELSE clients
  /\ UNCHANGED sent

TakeProposal(f) ==
  /\ sent' = sent \ {f}
  /\ clients' = IF Counts(f) THEN Append(clients, f) ELSE clients

Complete == Len(clients) = Cardinality(Fans)

(* A PING of an earlier second has been answered and its PONG read. *)
SecondMayPass ==
  /\ now < MAX_TIME
  /\ \/ now = last_check
     \/ pongs = {} /\ \A l \in pings : silent_since[l] # Running

(* One turn of the loop, with a datagram or None from each socket; select      *)
(* waits one second at most, so the clock never moves by more between turns.   *)
Turn(l, f, time) ==
  /\ part = "9" /\ server = "loop" /\ ~Complete
  /\ time = now + 1 => SecondMayPass
  /\ now' = time
  /\ check_heartbeats(time)
  /\ TakePong(l, time)
  /\ TakeProposal(f)
  /\ UNCHANGED <<caseVars, fan, answers, server, shutdown_requested, silent_since>>

(* What the buffer keeps of a message. *)
Length(f) == IF proposal[f] > MAX_LEN THEN MAX_LEN ELSE proposal[f]

(* Mutant: of equally long messages the last one wins. *)
AtLeastAsLong(i, j) == Length(clients[i]) >= Length(clients[j])

Longer(i, j) == Length(clients[i]) > Length(clients[j])

(* best after the loop has come to the i-th message, and at its end. *)
Best ==
  LET best[i \in 1..Len(clients)] ==
        IF i = 1 THEN 1 ELSE IF Longer(i, best[i - 1]) THEN i ELSE best[i - 1]
  IN  best[Len(clients)]

Received == {clients[i] : i \in 1..Len(clients)}

(* The selection and the answers to all who are in clients; the server ends. *)
Select ==
  /\ answers' = [f \in Senders |-> IF f = clients[Best] THEN "AGREE"
                                   ELSE IF f \in Received THEN "REJECT" ELSE None]
  /\ server' = "done"
  /\ UNCHANGED <<caseVars, fan, sent, clients, shutdown_requested, logVars>>

Answer == part # "10" /\ server = "loop" /\ Complete /\ Select

(* The loops that wait for nothing but proposals. *)
Receive(f) ==
  /\ server = "loop" /\ ~Complete /\ TakeProposal(f)
  /\ UNCHANGED <<caseVars, fan, answers, server, shutdown_requested, logVars>>

Server45 == part = "4-5" /\ (Answer \/ \E f \in sent : Receive(f))
Server67 == part = "6-7" /\ (Answer \/ \E f \in sent : Receive(f))
Server8 == part = "8" /\ (Answer \/ \E f \in sent : Receive(f))
----------------------------------------------------------------------------
(* Part 10. *)

handle_sigint ==
  /\ part = "10" /\ server # "done" /\ ~shutdown_requested /\ shutdown_requested' = TRUE
  /\ UNCHANGED <<caseVars, fan, sent, clients, answers, server, logVars>>

(* Mutant: the signal only breaks off select. *)
TestReceivedOnly ==
  /\ server = "loop" /\ server' = IF Complete THEN "decide" ELSE "select"
  /\ UNCHANGED <<caseVars, fan, sent, clients, answers, shutdown_requested, logVars>>

TestLoop ==
  /\ server = "loop"
  /\ server' = IF shutdown_requested \/ Complete THEN "decide" ELSE "select"
  /\ UNCHANGED <<caseVars, fan, sent, clients, answers, shutdown_requested, logVars>>

(* select returns with a proposal, or without one after a second or a signal. *)
SelectTurn(f) ==
  /\ server = "select" /\ server' = "loop"
  /\ f = None => sent = {} \/ shutdown_requested
  /\ TakeProposal(f)
  /\ UNCHANGED <<caseVars, fan, answers, shutdown_requested, logVars>>

(* Mutant: the first of those received is not told. *)
NotifyAllButFirst ==
  /\ answers' = [f \in Senders |-> IF f \in Received /\ f # clients[1] THEN "SHUTDOWN" ELSE None]
  /\ server' = "done"
  /\ UNCHANGED <<caseVars, fan, sent, clients, shutdown_requested, logVars>>

notify_shutdown ==
  /\ answers' = [f \in Senders |-> IF f \in Received THEN "SHUTDOWN" ELSE None]
  /\ server' = "done"
  /\ UNCHANGED <<caseVars, fan, sent, clients, shutdown_requested, logVars>>

(* A signal may come after the last proposal and before the decision. *)
Decide ==
  server = "decide" /\ IF shutdown_requested THEN notify_shutdown ELSE Select

Server10 == part = "10" /\ (TestLoop \/ Decide \/ \E f \in sent \cup {None} : SelectTurn(f))
----------------------------------------------------------------------------
ReceiveAnswer(f) ==
  /\ fan[f] = "waiting" /\ answers[f] # None
  /\ fan' = [fan EXCEPT ![f] = answers[f]]
  /\ UNCHANGED <<caseVars, sent, clients, answers, server, shutdown_requested, logVars>>

(* logger_client answers a PING while it runs. *)
Pong(l) ==
  /\ part = "9" /\ server = "loop" /\ l \in pings /\ silent_since[l] = Running
  /\ pings' = pings \ {l} /\ pongs' = pongs \cup {l}
  /\ UNCHANGED <<fanVars, active, last_active, last_check, now, silent_since>>

(* Somebody stops a logger_client; once the server has ended it is the same. *)
Stop(l) ==
  /\ part = "9" /\ server = "loop" /\ silent_since[l] = Running
  /\ silent_since' = [silent_since EXCEPT ![l] = now]
  /\ UNCHANGED <<fanVars, active, last_active, last_check, now, pings, pongs>>

(* A fan whose proposal came too late waits for ever; nothing else happens. *)
Finished ==
  /\ server = "done" /\ \A f \in Fans : fan[f] = "waiting" => answers[f] = None
  /\ UNCHANGED vars

Server9 == Answer \/ \E l \in pongs \cup {None}, f \in sent \cup {None}, time \in {now, now + 1} :
                       Turn(l, f, time)

Server == Server45 \/ Server67 \/ Server8 \/ (part = "9" /\ Server9) \/ Server10

Next == \/ Server \/ handle_sigint \/ Finished
        \/ \E f \in Fans : Propose(f) \/ ReceiveAnswer(f)
        \/ \E r \in Registrars : Register(r)
        \/ \E l \in Loggers : Pong(l) \/ Stop(l)

(* Fans run, and select reports what has arrived. *)
Fairness ==
  /\ \A f \in Fans : WF_vars(Propose(f)) /\ WF_vars(ReceiveAnswer(f))
  /\ \A f \in Senders : WF_vars(f \in sent /\ \E l \in pongs \cup {None} : Turn(l, f, now))
  /\ WF_vars(Server45) /\ WF_vars(Server67) /\ WF_vars(Server8)
  /\ WF_vars(part = "9" /\ Answer) /\ WF_vars(Server10)

Spec == Init /\ [][Next]_vars /\ Fairness
----------------------------------------------------------------------------
(* The ranges of the state; a datagram is stored once and no more than         *)
(* num_clients are, and the clock never runs behind the times noted            *)
(* (server.c, the loop of main).                                               *)
TypeOK ==
  /\ proposal \in Proposals
  /\ fan \in [Senders -> {"home", "waiting", "gone", "AGREE", "REJECT", "SHUTDOWN"}]
  /\ sent \subseteq Senders /\ active \subseteq Loggers
  /\ Len(clients) <= Cardinality(Fans)
  /\ Cardinality(Received) = Len(clients)
  /\ now \in 0..MAX_TIME /\ last_check \in 0..now
  /\ \A l \in Loggers : last_active[l] \in 0..now

IsFirstLongest(i) ==
  \A j \in 1..Len(clients) :
    /\ Length(clients[j]) <= Length(clients[i])
    /\ j < i => Length(clients[j]) < Length(clients[i])

(* README.md:54 of "idz os 4": the longest proposal is agreed to and the rest  *)
(* are rejected (server.c, the selection and the answers): one fan at most is  *)
(* told AGREE, and its message, as far as the buffer holds it, is the first to *)
(* come of the longest among all the server received.                          *)
LongestIsChosen ==
  \A f \in Fans : fan[f] = "AGREE" =>
    /\ \A g \in Fans : fan[g] = "AGREE" => f = g
    /\ \E i \in 1..Len(clients) : clients[i] = f /\ IsFirstLongest(i)

(* README.md: she answers after all have proposed; then every fan learns, and  *)
(* one of them is happy; when part 10 is stopped, who has been received learns *)
(* of that.  A REGISTER takes a fan's place, and then the others are not sure  *)
(* of an answer; nor is anybody while, from part 9 on, a proposal without a    *)
(* byte is waited for that is never received.                                  *)
EveryFanIsAnswered ==
  /\ \A f \in Fans :
       f \in Received /\ ((\A g \in Fans : Counts(g)) \/ shutdown_requested)
         ~> fan[f] \in {"AGREE", "REJECT", "SHUTDOWN"}
  /\ [](/\ \A r \in Registrars : fan[r] # "gone"
        /\ ~shutdown_requested
        /\ \A f \in Fans : Counts(f)) =>
       /\ \A f \in Fans : <>(fan[f] \in {"AGREE", "REJECT"})
       /\ <>(\E f \in Fans : fan[f] = "AGREE")

(* README.md: SIGINT ends the server of part 10, also when it comes between    *)
(* the loop's test and select or when too few proposals ever come              *)
(* (10/server.c, the loop of main).                                            *)
ShutdownEndsServer == shutdown_requested ~> server = "done"

(* A logger that answers its PINGs is never dropped, and one that has stopped  *)
(* is dropped within three intervals: its last PONG may have come just after a *)
(* check (server.c, LOGGER_TIMEOUT against HEARTBEAT_INTERVAL, and the order   *)
(* of check and PONG in a turn).                                               *)
LoggersAreWatched ==
  \A l \in Loggers :
    /\ silent_since[l] = Running => l \in active
    /\ silent_since[l] # Running /\ now >= silent_since[l] + 3 * HEARTBEAT_INTERVAL
         => l \notin active
=============================================================================
