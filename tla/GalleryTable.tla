------------------------------ MODULE GalleryTable ------------------------------
(***************************************************************************)
(* The server of the gallery of "idz os 3": the table of client slots, the *)
(* two counts the watchman keeps, and what all parts do with a connection  *)
(* and a request.  Parts 9 and 10 differ in how they treat EXIT, the end   *)
(* of a connection and the sending of answers: those are in the modules    *)
(* GalleryServer and GalleryServer10.  The server is one thread: each turn *)
(* of its loop may accept one connection and handles one read of every     *)
(* slot select reports.  Monitors are left out: they only listen.          *)
(***************************************************************************)
EXTENDS GalleryVisitors

CONSTANTS MAX_VISITORS,            \* 25 in the code
          MAX_PAINTING_VISITORS,   \* 5
          MAX_CLIENTS              \* slots of the table, 300

ASSUME ServerAssumption ==
  /\ MAX_VISITORS \in Nat \ {0} /\ MAX_PAINTING_VISITORS \in Nat \ {0}
  /\ MAX_CLIENTS \in Nat \ {0}

NoVisitor == 0
Slots == 1 .. MAX_CLIENTS

VARIABLES
  slotOf,             \* clients[i].fd: whose connection slot i holds
  named,              \* clients[i].visitor_id has been set
  current_painting,   \* clients[i].current_painting
  sent_exit,          \* clients[i].sent_exit
  current_visitors,
  painting_counts

tableVars == <<slotOf, named, current_painting, sent_exit>>
countVars == <<current_visitors, painting_counts>>
vars == <<clientVars, netVars, tableVars, countVars>>

Init ==
  /\ ClientInit
  /\ slotOf = [i \in Slots |-> NoVisitor]
  /\ named = [i \in Slots |-> FALSE]
  /\ current_painting = [i \in Slots |-> -1]
  /\ sent_exit = [i \in Slots |-> FALSE]
  /\ current_visitors = 0
  /\ painting_counts = [p \in Paintings |-> 0]

FreeSlots == {i \in Slots : slotOf[i] = NoVisitor}
FirstFree == CHOOSE i \in FreeSlots : \A j \in FreeSlots : i <= j

(* `AcceptWithoutBreak' is Accept without the break that ends the search. *)
AcceptWithoutBreak(v) ==
  /\ running /\ link[v] = "backlog"
  /\ slotOf' = [i \in Slots |-> IF i \in FreeSlots THEN v ELSE slotOf[i]]
  /\ link' = [link EXCEPT ![v] = IF FreeSlots = {} THEN "over" ELSE "open"]
  /\ UNCHANGED <<clientVars, running, named, current_painting, sent_exit, countVars>>

(* accept: the connection gets the first free slot.  The other fields of the  *)
(* slot stay as the client before left them; without a free slot the new      *)
(* socket is forgotten.                                                       *)
Accept(v) ==
  /\ running /\ link[v] = "backlog"
  /\ slotOf' = IF FreeSlots = {} THEN slotOf ELSE [slotOf EXCEPT ![FirstFree] = v]
  /\ link' = [link EXCEPT ![v] = IF FreeSlots = {} THEN "over" ELSE "open"]
  /\ UNCHANGED <<clientVars, running, named, current_painting, sent_exit, countVars>>

(* What the server makes of the first k requests when it reads them at once: *)
(* sscanf sees one command.  The number of a VIEW runs on into the visitor   *)
(* id of the next request; no other command uses its number.                 *)
Understood(v, k) ==
  LET m == Head(up[v])
      tens == IF v < 10 THEN 10 ELSE IF v < 100 THEN 100 ELSE 1000
  IN  IF k > 1 THEN [m EXCEPT !.painting = tens * @ + v] ELSE m

(* `AnswerOneMore' lets one visitor more in. *)
AnswerOneMore(i, m) ==
  CASE m.cmd = "ENTER" ->
         IF current_visitors <= MAX_VISITORS THEN "ENTER_OK" ELSE "ENTER_WAIT"
    [] m.cmd = "VIEW" /\ m.painting \in Paintings ->
         IF painting_counts[m.painting] < MAX_PAINTING_VISITORS
           THEN "VIEW_OK" ELSE "VIEW_WAIT"
    [] m.cmd = "LEAVE_PAINTING" /\ current_painting[i] # -1 -> "LEFT_PAINTING"
    [] m.cmd = "EXIT" -> "EXIT_OK"
    [] OTHER -> ""

(* The answer to request m of slot i; "" is none. *)
Answer(i, m) ==
  CASE m.cmd = "ENTER" ->
         IF current_visitors < MAX_VISITORS THEN "ENTER_OK" ELSE "ENTER_WAIT"
    [] m.cmd = "VIEW" /\ m.painting \in Paintings ->
         IF painting_counts[m.painting] < MAX_PAINTING_VISITORS
           THEN "VIEW_OK" ELSE "VIEW_WAIT"
    [] m.cmd = "LEAVE_PAINTING" /\ current_painting[i] # -1 -> "LEFT_PAINTING"
    [] m.cmd = "EXIT" -> "EXIT_OK"
    [] OTHER -> ""

(* handle_client_message reads the first k requests of slot i. *)
ReadMessage(i, k) ==
  LET v == slotOf[i]
  IN  /\ named' = [named EXCEPT ![i] = TRUE]
      /\ up' = [up EXCEPT ![v] = SubSeq(@, k + 1, Len(@))]
      /\ UNCHANGED <<phase, asked, attempts, visited, painting, closed, slotOf>>

EnterCommand(i, m) ==
  /\ m.cmd = "ENTER"
  /\ current_visitors' = IF Answer(i, m) = "ENTER_OK"
                           THEN current_visitors + 1 ELSE current_visitors
  /\ UNCHANGED <<painting_counts, current_painting, sent_exit>>

(* `ViewUncountedCommand' notes the painting and forgets to count. *)
ViewUncountedCommand(i, m) ==
  /\ m.cmd = "VIEW"
  /\ current_painting' = IF Answer(i, m) = "VIEW_OK"
                           THEN [current_painting EXCEPT ![i] = m.painting]
                           ELSE current_painting
  /\ UNCHANGED <<painting_counts, current_visitors, sent_exit>>

ViewCommand(i, m) ==
  /\ m.cmd = "VIEW"
  /\ IF Answer(i, m) = "VIEW_OK"
       THEN /\ painting_counts' = [painting_counts EXCEPT ![m.painting] = @ + 1]
            /\ current_painting' = [current_painting EXCEPT ![i] = m.painting]
       ELSE UNCHANGED <<painting_counts, current_painting>>
  /\ UNCHANGED <<current_visitors, sent_exit>>

(* The server's process is told of a closed connection by a refused answer:   *)
(* the first one sent to it comes back, the next raises SIGPIPE.              *)
Deliver(v, answer) ==
  IF answer = "" THEN UNCHANGED <<down, link>>
  ELSE IF ~closed[v]
    THEN down' = [down EXCEPT ![v] = Append(@, answer)] /\ UNCHANGED link
    ELSE link' = [link EXCEPT ![v] = "reset"] /\ UNCHANGED down

Readable(i) == running /\ slotOf[i] # NoVisitor
HungUp(i) == up[slotOf[i]] = <<>> /\ closed[slotOf[i]]

(* close(clients[i].fd), clients[i].fd = -1 *)
CloseSlot(i) ==
  /\ slotOf' = [slotOf EXCEPT ![i] = NoVisitor]
  /\ link' = [link EXCEPT ![slotOf[i]] = "over"]
  /\ UNCHANGED <<clientVars, running, named, current_painting, sent_exit>>

VisitStep(v) == Visit(v) /\ UNCHANGED <<tableVars, countVars>>

(* Nobody is left: the server waits in select, or has ended. *)
DayOver ==
  /\ \A v \in Visitors : phase[v] = "gone" /\ (running => link[v] \in {"none", "over"})
  /\ UNCHANGED vars
----------------------------------------------------------------------------
(* README.md:3-4 of "idz os 3": the watchman sees to it that at most 25       *)
(* visitors are in the gallery (server.c: the test of ENTER).                 *)
AtMostMaxVisitors == Cardinality({v \in Visitors : Inside(v)}) <= MAX_VISITORS

(* README.md:5-8: no more than five of them stand before one painting         *)
(* (server.c: the test of VIEW).                                              *)
AtMostMaxViewers ==
  \A p \in Paintings :
    Cardinality({v \in Visitors : Before(v, p)}) <= MAX_PAINTING_VISITORS

(* The count of a painting is the number of connections that look at it: what *)
(* one visitor frees another can take, and nothing else can.  When every      *)
(* connection has ended nobody is counted (server.c: what ENTER and VIEW add, *)
(* EXIT, LEAVE_PAINTING and the end of a connection take away, once).         *)
CountsMatchSlots ==
  /\ \A p \in Paintings :
       painting_counts[p] =
         Cardinality({i \in Slots : slotOf[i] # NoVisitor /\ current_painting[i] = p})
  /\ (\A v \in Visitors : link[v] = "over") => current_visitors = 0

(* Every connection the server has not ended is in one slot of the table      *)
(* (server.c: the loop after accept, and close with fd = -1).                 *)
OneSlotPerConnection ==
  \A v \in Visitors :
    Cardinality({i \in Slots : slotOf[i] = v}) =
      IF link[v] \in {"open", "reset"} THEN 1 ELSE 0

(* Every visitor who comes gets in, sees every painting and goes home, and    *)
(* the server notices.                                                        *)
EveryVisitEnds == \A v \in Visitors : <>(phase[v] = "gone" /\ link[v] = "over")

(* README.md:143: the server cleans up after clients that are gone, however   *)
(* they went (server.c: read returns 0 or -1).                                *)
GoneAreCleanedUp ==
  \A v \in Visitors :
    (phase[v] = "gone" /\ link[v] \notin {"none", "over"}) ~> (link[v] = "over" \/ ~running)
=============================================================================
