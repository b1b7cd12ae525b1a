---------------------------- MODULE GalleryVisitors ----------------------------
(***************************************************************************)
(* The visitors of the gallery of "idz os 3" and their TCP connections.    *)
(* A visitor process runs visit_gallery: it asks to enter until it may,    *)
(* looks at every painting once, and leaves.  Each request waits for one   *)
(* answer (send_and_wait_response); when recv times out the request is     *)
(* sent again, so an answer can be to an earlier request.  TCP keeps the   *)
(* order of messages but not their limits: what is read at once is any     *)
(* beginning of what has been sent.                                        *)
(***************************************************************************)
EXTENDS Integers, Sequences, FiniteSets

CONSTANTS Visitors,        \* visitor ids, 1..N with N < 1000
          NUM_PAINTINGS,   \* 5 in the code
          MAX_ATTEMPTS,    \* how often a request is sent
          MAX_UNREAD       \* a bound of the model: no request is sent again
                           \* while this many messages of a visitor are unread

ASSUME VisitorsAssumption ==
  /\ Visitors \subseteq 1..999 /\ NUM_PAINTINGS \in Nat
  /\ MAX_ATTEMPTS \in Nat \ {0} /\ MAX_UNREAD \in Nat

VARIABLES
  phase,      \* where in visit_gallery a visitor is
  asked,      \* the request it waits for an answer to, or NoRequest
  attempts,   \* how often recv has timed out for it
  visited,    \* visited[]: the paintings it has looked at
  painting,   \* the painting it wants to see or looks at, or -1
  up,         \* requests sent to the server and not read
  down,       \* answers sent to the visitor and not read
  closed,     \* the visitor has closed its socket
  link,       \* its connection, as the server's TCP sees it
  running     \* the server process is alive

clientVars == <<phase, asked, attempts, visited, painting, up, down, closed>>
netVars == <<link, running>>

Paintings == 0 .. NUM_PAINTINGS - 1
Message(c, p) == [cmd |-> c, painting |-> p]
NoRequest == Message("none", -1)
Enter == Message("ENTER", -1)
View(p) == Message("VIEW", p)
Leave == Message("LEAVE_PAINTING", -1)
Exit == Message("EXIT", -1)

Phases == {"away", "enter", "retry", "choose", "leave", "exit", "end", "gone"}

ClientInit ==
  /\ phase = [v \in Visitors |-> "away"]
  /\ asked = [v \in Visitors |-> NoRequest]
  /\ attempts = [v \in Visitors |-> 0]
  /\ visited = [v \in Visitors |-> {}]
  /\ painting = [v \in Visitors |-> -1]
  /\ up = [v \in Visitors |-> <<>>]
  /\ down = [v \in Visitors |-> <<>>]
  /\ closed = [v \in Visitors |-> FALSE]
  /\ link = [v \in Visitors |-> "none"]
  /\ running = TRUE

(* "backlog": not accepted yet, "open": in a slot, "reset": in a slot, and an *)
(* answer to it has been refused, "over": closed or forgotten by the server.  *)
Links == {"none", "backlog", "open", "reset", "over"}

(* connect_with_retry succeeds *)
Connect(v) ==
  /\ phase[v] = "away" /\ running
  /\ phase' = [phase EXCEPT ![v] = "enter"]
  /\ link' = [link EXCEPT ![v] = "backlog"]
  /\ UNCHANGED <<asked, attempts, visited, painting, up, down, closed, running>>

(* connect_with_retry gives up: nobody listens *)
ConnectFails(v) ==
  /\ phase[v] = "away" /\ ~running
  /\ phase' = [phase EXCEPT ![v] = "gone"]
  /\ UNCHANGED <<asked, attempts, visited, painting, up, down, closed, netVars>>

(* What the visitor may ask for next. *)
Requests(v) ==
  CASE phase[v] \in {"enter", "retry"} -> {Enter}
    [] phase[v] = "choose" -> {View(p) : p \in Paintings \ visited[v]}
    [] phase[v] = "leave" -> {Leave}
    [] phase[v] = "exit" -> {Exit}
    [] OTHER -> {}

(* send_and_wait_response sends the request for the first time *)
Ask(v, m) ==
  /\ asked[v] = NoRequest /\ m \in Requests(v)
  /\ asked' = [asked EXCEPT ![v] = m]
  /\ up' = [up EXCEPT ![v] = Append(@, m)]
  /\ painting' = [painting EXCEPT ![v] = IF phase[v] = "choose" THEN m.painting ELSE @]
  /\ UNCHANGED <<phase, attempts, visited, down, closed, netVars>>

(* Where visit_gallery goes on when the text `got' has been received. *)
PhaseAfter(v, got, seen) ==
  CASE "SERVER_SHUTDOWN" \in got -> "end"
    [] phase[v] = "enter" -> IF "ENTER_WAIT" \in got THEN "retry" ELSE "choose"
    [] phase[v] = "retry" -> IF "ENTER_OK" \in got THEN "choose" ELSE "retry"
    [] phase[v] = "choose" -> IF "VIEW_OK" \in got THEN "leave" ELSE "choose"
    [] phase[v] = "leave" -> IF seen = Paintings THEN "exit" ELSE "choose"
    [] OTHER -> "end"

(* recv returns the first k answers on their way; strstr looks for one of them *)
Receive(v, k) ==
  LET got  == {down[v][i] : i \in 1..k}
      seen == IF phase[v] = "choose" /\ "VIEW_OK" \in got
                THEN visited[v] \cup {painting[v]} ELSE visited[v]
  IN  /\ asked[v] # NoRequest /\ k \in 1..Len(down[v])
      /\ visited' = [visited EXCEPT ![v] = seen]
      /\ phase' = [phase EXCEPT ![v] = PhaseAfter(v, got, seen)]
      /\ painting' = [painting EXCEPT ![v] = IF phase'[v] = "leave" THEN @ ELSE -1]
      /\ down' = [down EXCEPT ![v] = SubSeq(@, k + 1, Len(@))]
      /\ asked' = [asked EXCEPT ![v] = NoRequest]
      /\ attempts' = [attempts EXCEPT ![v] = 0]
      /\ UNCHANGED <<up, closed, netVars>>

(* recv times out: the request is sent again, or visit_gallery gives up *)
Timeout(v) ==
  /\ asked[v] # NoRequest /\ Len(up[v]) + Len(down[v]) < MAX_UNREAD
  /\ IF attempts[v] + 1 < MAX_ATTEMPTS
       THEN /\ up' = [up EXCEPT ![v] = Append(@, asked[v])]
            /\ attempts' = [attempts EXCEPT ![v] = @ + 1]
            /\ UNCHANGED <<phase, asked, painting>>
       ELSE /\ phase' = [phase EXCEPT ![v] = "end"]
            /\ asked' = [asked EXCEPT ![v] = NoRequest]
            /\ attempts' = [attempts EXCEPT ![v] = 0]
            /\ painting' = [painting EXCEPT ![v] = -1]
            /\ UNCHANGED up
  /\ UNCHANGED <<visited, down, closed, netVars>>

(* `LoseServerInside' notices it only past the entrance. *)
LoseServerInside(v) ==
  /\ asked[v] # NoRequest /\ ~running /\ phase[v] # "enter"
  /\ phase' = [phase EXCEPT ![v] = "end"]
  /\ asked' = [asked EXCEPT ![v] = NoRequest]
  /\ attempts' = [attempts EXCEPT ![v] = 0]
  /\ painting' = [painting EXCEPT ![v] = -1]
  /\ UNCHANGED <<visited, up, down, closed, netVars>>

(* recv says that the server has closed the connection *)
LoseServer(v) ==
  /\ asked[v] # NoRequest /\ ~running
  /\ phase' = [phase EXCEPT ![v] = "end"]
  /\ asked' = [asked EXCEPT ![v] = NoRequest]
  /\ attempts' = [attempts EXCEPT ![v] = 0]
  /\ painting' = [painting EXCEPT ![v] = -1]
  /\ UNCHANGED <<visited, up, down, closed, netVars>>

(* The process ends: it sends its last words and the socket is closed.        *)
HangUp(v, words) ==
  /\ phase' = [phase EXCEPT ![v] = "gone"]
  /\ asked' = [asked EXCEPT ![v] = NoRequest]
  /\ attempts' = [attempts EXCEPT ![v] = 0]
  /\ visited' = [visited EXCEPT ![v] = {}]
  /\ painting' = [painting EXCEPT ![v] = -1]
  /\ up' = [up EXCEPT ![v] = @ \o words]
  /\ down' = [down EXCEPT ![v] = <<>>]
  /\ closed' = [closed EXCEPT ![v] = TRUE]
  /\ UNCHANGED netVars

Connected(v) == phase[v] \notin {"away", "gone"}

(* main() after visit_gallery: close(sock) *)
Finish(v) == phase[v] = "end" /\ HangUp(v, <<>>)

(* SIGINT or SIGTERM: cleanup says EXIT and closes *)
Interrupt(v) == Connected(v) /\ HangUp(v, <<Exit>>)

(* SIGKILL, or a host that fails *)
Kill(v) == Connected(v) /\ HangUp(v, <<>>)

(* main() up to the end of visit_gallery *)
Stroll(v) == \/ Connect(v) \/ ConnectFails(v) \/ LoseServer(v)
             \/ \E m \in Requests(v) : Ask(v, m)
             \/ \E k \in 1..Len(down[v]) : Receive(v, k)

Visit(v) == Stroll(v) \/ Finish(v)

----------------------------------------------------------------------------
(* A visitor is in the gallery from the answer that lets it in until it asks *)
(* to leave or its connection ends; it stands before a painting from the     *)
(* answer that lets it look until it asks to turn away.                      *)
Inside(v) == \/ phase[v] \in {"choose", "leave"}
             \/ phase[v] = "exit" /\ asked[v] = NoRequest
Before(v, p) == phase[v] = "leave" /\ asked[v] = NoRequest /\ painting[v] = p
=============================================================================
