----------------------------- MODULE GalleryServer -----------------------------
(***************************************************************************)
(* The gallery server of parts 6-7, 8 and 9 (one source) with the visitors *)
(* of part 9: a visitor who leaves with EXIT is marked, so that the end of *)
(* the connection does not count it a second time.                         *)
(***************************************************************************)
EXTENDS GalleryTable

Decrement(n) == IF n > 0 THEN n - 1 ELSE 0

(* `StillCounted' never gives a place before a painting back. *)
StillCounted(i) == painting_counts

(* The painting counts without the viewer in slot i, if it has one. *)
WithoutViewer(i) ==
  IF current_painting[i] = -1 THEN painting_counts
  ELSE [painting_counts EXCEPT ![current_painting[i]] = Decrement(@)]

(* read finds the connection closed *)
Disconnect(i) ==
  /\ painting_counts' = WithoutViewer(i)
  /\ current_visitors' = IF named[i] /\ ~sent_exit[i]
                           THEN Decrement(current_visitors) ELSE current_visitors
  /\ CloseSlot(i)

(* `LeaveUncleared' leaves the painting in the slot. *)
LeaveUncleared(i, m) ==
  /\ m.cmd = "LEAVE_PAINTING"
  /\ painting_counts' = WithoutViewer(i)
  /\ UNCHANGED <<current_visitors, current_painting, sent_exit>>

LeaveCommand(i, m) ==
  /\ m.cmd = "LEAVE_PAINTING"
  /\ painting_counts' = WithoutViewer(i)
  /\ current_painting' = [current_painting EXCEPT ![i] = -1]
  /\ UNCHANGED <<current_visitors, sent_exit>>

ExitCommand(i, m) ==
  /\ m.cmd = "EXIT"
  /\ painting_counts' = WithoutViewer(i)
  /\ current_painting' = [current_painting EXCEPT ![i] = -1]
  /\ current_visitors' = Decrement(current_visitors)
  /\ sent_exit' = [sent_exit EXCEPT ![i] = TRUE]

(* send, with SIGPIPE at its default *)
Respond(v, answer) ==
  /\ Deliver(v, answer)
  /\ running' \in IF answer # "" /\ closed[v] /\ link[v] = "reset"
                    THEN BOOLEAN ELSE {TRUE}

(* handle_client_message *)
HandleMessage(i, k) ==
  LET m == Understood(slotOf[i], k)
  IN  /\ ReadMessage(i, k)
      /\ EnterCommand(i, m) \/ ViewCommand(i, m) \/ LeaveCommand(i, m) \/ ExitCommand(i, m)
      /\ Respond(slotOf[i], Answer(i, m))

(* `ServeOnlyEnd' takes an error of read for nothing to read. *)
ServeOnlyEnd(i) ==
  /\ Readable(i)
  /\ \/ \E k \in 1..Len(up[slotOf[i]]) : HandleMessage(i, k)
     \/ HungUp(i) /\ link[slotOf[i]] = "open" /\ Disconnect(i)

(* A slot select reports as readable. *)
Serve(i) ==
  /\ Readable(i)
  /\ \/ \E k \in 1..Len(up[slotOf[i]]) : HandleMessage(i, k)
     \/ HungUp(i) /\ Disconnect(i)

(* A day without failures: requests are answered in time and nobody is        *)
(* interrupted.                                                               *)
QuietNext == \/ \E v \in Visitors : VisitStep(v) \/ Accept(v)
             \/ \E i \in Slots : Serve(i)
             \/ DayOver
QuietSpec == Init /\ [][QuietNext]_vars

(* The failures a visitor meets, by kind. *)
TimeoutStep == \E v \in Visitors : Timeout(v) /\ UNCHANGED <<tableVars, countVars>>
InterruptStep == \E v \in Visitors : Interrupt(v) /\ UNCHANGED <<tableVars, countVars>>
KillStep == \E v \in Visitors : Kill(v) /\ UNCHANGED <<tableVars, countVars>>

FailureNext == QuietNext \/ TimeoutStep \/ InterruptStep \/ KillStep
FailureSpec == Init /\ [][FailureNext]_vars

(* The server's loop turns and select reports every readable slot; on a quiet *)
(* day the visitors are scheduled too.                                        *)
ServerFairness ==
  /\ \A v \in Visitors : WF_vars(Accept(v))
  /\ \A i \in Slots : WF_vars(Serve(i))
FairQuietSpec == QuietSpec /\ ServerFairness /\ \A v \in Visitors : WF_vars(VisitStep(v))
FairFailureSpec == FailureSpec /\ ServerFairness
=============================================================================
