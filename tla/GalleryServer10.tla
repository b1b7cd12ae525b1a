---------------------------- MODULE GalleryServer10 ----------------------------
(***************************************************************************)
(* The gallery of part 10: SIGINT stops the server, which tells everybody, *)
(* and a visitor says EXIT whenever its process ends (atexit).  SIGPIPE is *)
(* ignored.  The server's handler may run in the middle of anything it     *)
(* does: of handle_client_message the answer is a step of its own, since   *)
(* a signal before it leaves a request that was counted without an answer; *)
(* what is lost with the process alone, such as a count, needs no step.    *)
(* The handler tells the slots one by one and never returns.  A visitor's  *)
(* handler sets a flag, which its loops look at before they ask.           *)
(***************************************************************************)
EXTENDS GalleryTable

VARIABLES
  answering,   \* the slot handle_client_message owes an answer, or NoSlot
  response,    \* that answer
  telling,     \* the slot notify_shutdown comes to next, or NoSlot: no signal yet
  g_shutdown   \* the visitors that have got a signal

NoSlot == 0
ownVars == <<answering, response, telling, g_shutdown>>
allVars == <<vars, ownVars>>

(* main() of the server runs, no signal handler does. *)
InMain == running /\ telling = NoSlot

WithoutViewer(i) ==
  IF current_painting[i] = -1 THEN painting_counts
  ELSE [painting_counts EXCEPT ![current_painting[i]] = @ - 1]

Disconnect(i) ==
  /\ painting_counts' = WithoutViewer(i)
  /\ current_visitors' = IF ~sent_exit[i] THEN current_visitors - 1 ELSE current_visitors
  /\ CloseSlot(i)

LeaveCommand(i, m) ==
  /\ m.cmd = "LEAVE_PAINTING"
  /\ painting_counts' = WithoutViewer(i)
  /\ current_painting' = [current_painting EXCEPT ![i] = -1]
  /\ UNCHANGED <<current_visitors, sent_exit>>

(* EXIT leaves current_painting as it is. *)
ExitCommand(i, m) ==
  /\ m.cmd = "EXIT"
  /\ painting_counts' = WithoutViewer(i)
  /\ current_visitors' = current_visitors - 1
  /\ sent_exit' = [sent_exit EXCEPT ![i] = TRUE]
  /\ UNCHANGED current_painting

(* handle_client_message up to the answer *)
HandleMessage(i, k) ==
  LET m == Understood(slotOf[i], k)
  IN  /\ ReadMessage(i, k)
      /\ EnterCommand(i, m) \/ ViewCommand(i, m) \/ LeaveCommand(i, m) \/ ExitCommand(i, m)
      /\ answering' = i /\ response' = Answer(i, m)
      /\ UNCHANGED <<down, netVars, telling, g_shutdown>>

(* The rest of it: the answer is sent. *)
Respond ==
  /\ InMain /\ answering # NoSlot
  /\ Deliver(slotOf[answering], response)
  /\ answering' = NoSlot /\ response' = ""
  /\ UNCHANGED <<phase, asked, attempts, visited, painting, up, closed, running,
                 tableVars, countVars, telling, g_shutdown>>

Serve(i) ==
  /\ InMain /\ answering = NoSlot /\ Readable(i)
  /\ \/ \E k \in 1..Len(up[slotOf[i]]) : HandleMessage(i, k)
     \/ HungUp(i) /\ Disconnect(i) /\ UNCHANGED ownVars

AcceptNext(v) == InMain /\ answering = NoSlot /\ Accept(v) /\ UNCHANGED ownVars

Main == Respond \/ (\E i \in Slots : Serve(i)) \/ \E v \in Visitors : AcceptNext(v)
----------------------------------------------------------------------------
(* SIGINT or SIGTERM; a second one finds stop_server set. *)
handle_signal ==
  /\ InMain /\ telling' = 1
  /\ UNCHANGED <<vars, answering, response, g_shutdown>>

(* One turn of notify_shutdown's loop: an open slot is told and closed. *)
notify_shutdown ==
  LET v == slotOf[telling]
  IN  /\ running /\ telling \in Slots /\ telling' = telling + 1
      /\ down' = IF v # NoVisitor /\ ~closed[v]
                   THEN [down EXCEPT ![v] = Append(@, "SERVER_SHUTDOWN")] ELSE down
      /\ link' = IF v # NoVisitor THEN [link EXCEPT ![v] = "over"] ELSE link
      /\ UNCHANGED <<phase, asked, attempts, visited, painting, up, closed, running,
                     tableVars, countVars, answering, response, g_shutdown>>

(* exit: the connections nobody has accepted end with the process. *)
ExitServer ==
  /\ running /\ telling = MAX_CLIENTS + 1
  /\ running' = FALSE
  /\ link' = [v \in Visitors |-> IF link[v] = "none" THEN "none" ELSE "over"]
  /\ UNCHANGED <<clientVars, tableVars, countVars, ownVars>>

Shutdown == notify_shutdown \/ ExitServer
----------------------------------------------------------------------------
(* A visitor's handler sets g_shutdown, wherever the visitor is. *)
InterruptVisitor ==
  \E v \in Visitors :
    /\ phase[v] # "gone" /\ g_shutdown' = g_shutdown \cup {v}
    /\ v \notin g_shutdown
    /\ UNCHANGED <<vars, answering, response, telling>>

(* No loop asks again after the signal; it breaks off recv and sleep, and one *)
(* that comes just before recv is seen after the answer or the time-out.      *)
BreakOff(v) ==
  /\ v \in g_shutdown /\ phase[v] \in {"enter", "retry", "choose", "leave", "exit"}
  /\ phase' = [phase EXCEPT ![v] = "end"]
  /\ asked' = [asked EXCEPT ![v] = NoRequest]
  /\ attempts' = [attempts EXCEPT ![v] = 0]
  /\ painting' = [painting EXCEPT ![v] = -1]
  /\ UNCHANGED <<visited, up, down, closed, netVars>>

(* visit_gallery, with the loops' tests of g_shutdown *)
VisitGallery(v) ==
  \/ Connect(v) \/ ConnectFails(v) \/ LoseServer(v) \/ BreakOff(v)
  \/ v \notin g_shutdown /\ \E m \in Requests(v) : Ask(v, m)
  \/ \E k \in 1..Len(down[v]) : Receive(v, k)

(* main() returns and cleanup runs: the visitor says EXIT once more. *)
FinishWithExit(v) == phase[v] = "end" /\ HangUp(v, <<Exit>>)

Visitor(v) ==
  (VisitGallery(v) \/ FinishWithExit(v)) /\ UNCHANGED <<tableVars, countVars, ownVars>>

Next == \/ Main \/ handle_signal \/ Shutdown \/ InterruptVisitor
        \/ \E v \in Visitors : Visitor(v)
        \/ DayOver /\ UNCHANGED ownVars

(* The day the server is stopped, at any moment, and visitors are too; they   *)
(* and the handler that has begun are scheduled.                              *)
ShutdownSpec ==
  /\ Init /\ answering = NoSlot /\ response = "" /\ telling = NoSlot /\ g_shutdown = {}
  /\ [][Next]_allVars
  /\ WF_allVars(Shutdown) /\ \A v \in Visitors : WF_allVars(Visitor(v))
----------------------------------------------------------------------------
(* README.md:437-440 of "idz os 3": when the server stops, its clients do -   *)
(* those at a painting, those waiting at the entrance, those whose request    *)
(* has been handled and not answered and those it has not accepted yet        *)
(* (client.c: send_and_wait_response, process_server_response); and one that  *)
(* is signalled itself ends, whatever the server does.                        *)
ShutdownSendsAllHome ==
  /\ telling # NoSlot ~> \A v \in Visitors : phase[v] = "gone"
  /\ \A v \in Visitors : v \in g_shutdown ~> phase[v] = "gone"
=============================================================================
