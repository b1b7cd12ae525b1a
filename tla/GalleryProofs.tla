----------------------------- MODULE GalleryProofs -----------------------------
(***************************************************************************)
(* Proofs about the gallery, for any visitors, paintings, places and       *)
(* slots.  With every failure a visitor can meet, a connection has one     *)
(* slot of the table until the server has ended it.  On a day without      *)
(* failures the server counts exactly those who are inside and those who   *)
(* stand before each painting, and the limits hold.                        *)
(***************************************************************************)
EXTENDS GalleryServer, FiniteSetTheorems, WellFoundedInduction, TLAPS

(* A set of numbers has a least one, which CHOOSE finds as the first free slot. *)
LEMMA LeastExists ==
  ASSUME NEW T, T \subseteq Nat, T # {}
  PROVE  \E x \in T : \A y \in T : x <= y
<1>. DEFINE R == {ss \in Nat \X Nat : ss[1] < ss[2]}
<1>1. IsWellFoundedOn(R, Nat)
  BY NatLessThanWellFounded DEF OpToRel
<1>2. PICK x \in T : \A y \in T : ~ (<<y, x>> \in R)
  <2>. HIDE DEF R
  <2>. QED BY <1>1, WFMin
<1>3. ASSUME NEW y \in T PROVE x <= y
  <2>1. x \in Nat /\ y \in Nat
    OBVIOUS
  <2>2. y < x => <<y, x>> \in R
    BY <2>1
  <2>. QED BY <1>2, <2>1, <2>2
<1>. QED BY <1>3

LEMMA SlotsAreFinite == IsFiniteSet(Slots) /\ Slots \subseteq Nat
  BY FS_Interval, ServerAssumption DEF Slots

LEMMA NobodyIsNoVisitor == NoVisitor \notin Visitors
  BY VisitorsAssumption DEF NoVisitor

LEMMA FirstFreeIsFree ==
  ASSUME FreeSlots # {}
  PROVE  FirstFree \in Slots /\ slotOf[FirstFree] = NoVisitor
<1>1. FreeSlots \subseteq Slots /\ FreeSlots \subseteq Nat
  BY SlotsAreFinite DEF FreeSlots
<1>2. \E i \in FreeSlots : \A j \in FreeSlots : i <= j
  BY <1>1, LeastExists
<1>3. FirstFree \in FreeSlots
  BY <1>2 DEF FirstFree
<1>. QED BY <1>3 DEF FreeSlots
----------------------------------------------------------------------------
(* The table, whatever happens to the visitors. *)

InTable == {"open", "reset"}

TableTypes ==
  /\ slotOf \in [Slots -> Visitors \cup {NoVisitor}]
  /\ link \in [Visitors -> Links]

(* A connection that is in the table is there once, and nothing else is. *)
OneSlotEach ==
  /\ \A i \in Slots : slotOf[i] # NoVisitor => link[slotOf[i]] \in InTable
  /\ \A v \in Visitors : link[v] \in InTable => \E i \in Slots : slotOf[i] = v
  /\ \A i, j \in Slots : slotOf[i] = slotOf[j] /\ slotOf[i] # NoVisitor => i = j

(* Who has not come has no connection, so that none begins twice. *)
NotYetConnected ==
  /\ phase \in [Visitors -> Phases]
  /\ \A v \in Visitors : phase[v] = "away" => link[v] = "none"

TableInv == TableTypes /\ OneSlotEach /\ NotYetConnected

LEMMA TableInit == Init => TableInv
<1>. SUFFICES ASSUME Init PROVE TableInv
  OBVIOUS
<1>1. /\ phase = [v \in Visitors |-> "away"] /\ link = [v \in Visitors |-> "none"]
      /\ slotOf = [i \in Slots |-> NoVisitor]
  BY DEF Init, ClientInit
<1>2. TableTypes
  BY <1>1 DEF TableTypes, Links
<1>3. OneSlotEach
  BY <1>1 DEF OneSlotEach, InTable
<1>4. NotYetConnected
  BY <1>1 DEF NotYetConnected, Phases
<1>. QED BY <1>2, <1>3, <1>4 DEF TableInv

(* A visitor in the table stays there, whatever else its connection meets. *)
LEMMA TableUnchanged ==
  ASSUME TableInv, slotOf' = slotOf, phase' \in [Visitors -> Phases],
         link' \in [Visitors -> Links],
         \A v \in Visitors : /\ link'[v] \in InTable <=> link[v] \in InTable
                             /\ phase'[v] = "away" => link'[v] = "none"
  PROVE  TableInv'
<1>1. TableTypes /\ OneSlotEach
  BY DEF TableInv
<1>2. TableTypes'
  BY <1>1 DEF TableTypes
<1>3. OneSlotEach'
  BY <1>1 DEF OneSlotEach, TableTypes
<1>4. NotYetConnected'
  BY DEF NotYetConnected
<1>. QED BY <1>2, <1>3, <1>4 DEF TableInv

LEMMA VisitKeepsTable ==
  ASSUME TableInv, NEW v \in Visitors, Visit(v) \/ Timeout(v) \/ Interrupt(v) \/ Kill(v),
         slotOf' = slotOf
  PROVE  TableInv'
<1>1. TableTypes /\ NotYetConnected
  BY DEF TableInv
<1>2. ASSUME Connect(v) PROVE TableInv'
  <2>1. /\ phase[v] = "away" /\ phase' = [phase EXCEPT ![v] = "enter"]
        /\ link' = [link EXCEPT ![v] = "backlog"]
    BY <1>2 DEF Connect
  <2>2. phase' \in [Visitors -> Phases] /\ link' \in [Visitors -> Links]
    BY <1>1, <2>1 DEF TableTypes, NotYetConnected, Phases, Links
  <2>3. \A w \in Visitors : /\ link'[w] \in InTable <=> link[w] \in InTable
                            /\ phase'[w] = "away" => link'[w] = "none"
    BY <1>1, <2>1 DEF TableTypes, NotYetConnected, InTable
  <2>. QED BY <2>2, <2>3, TableUnchanged
<1>3. ASSUME UNCHANGED link,
             \E next \in Phases \ {"away"} : phase' = [phase EXCEPT ![v] = next]
      PROVE  TableInv'
  <2>1. PICK next \in Phases \ {"away"} : phase' = [phase EXCEPT ![v] = next]
    BY <1>3
  <2>2. phase' \in [Visitors -> Phases]
    BY <1>1, <2>1 DEF NotYetConnected
  <2>3. \A w \in Visitors : phase'[w] = "away" => link[w] = "none"
    BY <1>1, <2>1 DEF NotYetConnected
  <2>. QED BY <1>1, <1>3, <2>2, <2>3, TableUnchanged DEF TableTypes
<1>4. ASSUME UNCHANGED <<link, phase>> PROVE TableInv'
  BY <1>1, <1>4, TableUnchanged DEF TableTypes, NotYetConnected
<1>5. ASSUME NEW words, HangUp(v, words) PROVE TableInv'
  BY <1>3, <1>5 DEF HangUp, netVars, Phases
<1>6. ASSUME ConnectFails(v) \/ LoseServer(v) PROVE TableInv'
  BY <1>3, <1>6 DEF ConnectFails, LoseServer, netVars, Phases
<1>7. ASSUME NEW m, Ask(v, m) PROVE TableInv'
  BY <1>4, <1>7 DEF Ask, netVars
<1>8. ASSUME NEW k, Receive(v, k) PROVE TableInv'
  <2>1. \E got, seen : phase' = [phase EXCEPT ![v] = PhaseAfter(v, got, seen)]
    BY <1>8 DEF Receive
  <2>2. \A got, seen : PhaseAfter(v, got, seen) \in Phases \ {"away"}
    BY DEF PhaseAfter, Phases
  <2>. QED BY <1>3, <1>8, <2>1, <2>2 DEF Receive, netVars
<1>9. ASSUME Timeout(v) PROVE TableInv'
  BY <1>3, <1>4, <1>9 DEF Timeout, netVars, Phases
<1>. QED BY <1>2, <1>5, <1>6, <1>7, <1>8, <1>9
       DEF Visit, Stroll, Finish, Interrupt, Kill

LEMMA AcceptKeepsTable ==
  ASSUME TableInv, NEW v \in Visitors, Accept(v)
  PROVE  TableInv'
<1>1. TableTypes /\ OneSlotEach /\ NotYetConnected
  BY DEF TableInv
<1>2. link[v] = "backlog" /\ phase' = phase
  BY DEF Accept, clientVars
<1>3. CASE FreeSlots = {}
  <2>1. slotOf' = slotOf /\ link' = [link EXCEPT ![v] = "over"]
    BY <1>3 DEF Accept
  <2>2. link' \in [Visitors -> Links]
    BY <1>1, <2>1 DEF TableTypes, Links
  <2>3. \A w \in Visitors : /\ link'[w] \in InTable <=> link[w] \in InTable
                            /\ phase'[w] = "away" => link'[w] = "none"
    BY <1>1, <1>2, <2>1 DEF TableTypes, NotYetConnected, InTable
  <2>. QED BY <1>1, <1>2, <2>1, <2>2, <2>3, TableUnchanged DEF NotYetConnected
<1>4. CASE FreeSlots # {}
  <2>1. PICK n \in Slots : slotOf[n] = NoVisitor /\ slotOf' = [slotOf EXCEPT ![n] = v]
    BY <1>4, FirstFreeIsFree DEF Accept
  <2>2. link' = [link EXCEPT ![v] = "open"]
    BY <1>4 DEF Accept
  <2>3. /\ slotOf'[n] = v /\ \A i \in Slots : i # n => slotOf'[i] = slotOf[i]
        /\ link'[v] = "open" /\ \A w \in Visitors : w # v => link'[w] = link[w]
    BY <1>1, <2>1, <2>2 DEF TableTypes
  <2>4. TableTypes'
    BY <1>1, <2>1, <2>2 DEF TableTypes, Links
  <2>5. \A i \in Slots : slotOf[i] # v
    BY <1>1, <1>2, NobodyIsNoVisitor DEF OneSlotEach, InTable
  <2>6. OneSlotEach'
    <3>1. ASSUME NEW i \in Slots, slotOf'[i] # NoVisitor PROVE link'[slotOf'[i]] \in InTable
      BY <1>1, <2>3, <2>5, <3>1 DEF OneSlotEach, TableTypes, InTable
    <3>2. ASSUME NEW w \in Visitors, link'[w] \in InTable PROVE \E i \in Slots : slotOf'[i] = w
      BY <1>1, <2>1, <2>3, <3>2, NobodyIsNoVisitor DEF OneSlotEach
    <3>3. ASSUME NEW i \in Slots, NEW j \in Slots,
                 slotOf'[i] = slotOf'[j], slotOf'[i] # NoVisitor
          PROVE  i = j
      BY <1>1, <2>3, <2>5, <3>3 DEF OneSlotEach
    <3>. QED BY <3>1, <3>2, <3>3 DEF OneSlotEach
  <2>7. NotYetConnected'
    BY <1>1, <1>2, <2>3 DEF NotYetConnected
  <2>. QED BY <2>4, <2>6, <2>7 DEF TableInv
<1>. QED BY <1>3, <1>4

LEMMA ServeKeepsTable ==
  ASSUME TableInv, NEW i \in Slots, Serve(i)
  PROVE  TableInv'
<1>1. TableTypes /\ OneSlotEach /\ NotYetConnected
  BY DEF TableInv
<1>. DEFINE v == slotOf[i]
<1>2. v # NoVisitor /\ v \in Visitors /\ link[v] \in InTable
  BY <1>1 DEF Serve, Readable, TableTypes, OneSlotEach
<1>3. ASSUME NEW k, HandleMessage(i, k) PROVE TableInv'
  <2>1. slotOf' = slotOf /\ phase' = phase
    BY <1>3 DEF HandleMessage, ReadMessage
  <2>2. link' = link \/ link' = [link EXCEPT ![v] = "reset"]
    BY <1>3 DEF HandleMessage, Respond, Deliver
  <2>3. link' \in [Visitors -> Links]
    BY <1>1, <2>2 DEF TableTypes, Links
  <2>4. \A w \in Visitors : /\ link'[w] \in InTable <=> link[w] \in InTable
                            /\ phase'[w] = "away" => link'[w] = "none"
    BY <1>1, <1>2, <2>1, <2>2 DEF TableTypes, NotYetConnected, InTable
  <2>. QED BY <1>1, <2>1, <2>3, <2>4, TableUnchanged DEF NotYetConnected
<1>4. ASSUME Disconnect(i) PROVE TableInv'
  <2>1. /\ slotOf' = [slotOf EXCEPT ![i] = NoVisitor] /\ link' = [link EXCEPT ![v] = "over"]
        /\ phase' = phase
    BY <1>4 DEF Disconnect, CloseSlot, clientVars
  <2>2. /\ slotOf'[i] = NoVisitor /\ \A j \in Slots : j # i => slotOf'[j] = slotOf[j]
        /\ link'[v] = "over" /\ \A w \in Visitors : w # v => link'[w] = link[w]
    BY <1>1, <1>2, <2>1 DEF TableTypes
  <2>3. TableTypes'
    BY <1>1, <1>2, <2>1 DEF TableTypes, Links
  <2>4. \A j \in Slots : j # i => slotOf[j] # v
    BY <1>1, <1>2 DEF OneSlotEach
  <2>5. OneSlotEach'
    <3>1. ASSUME NEW j \in Slots, slotOf'[j] # NoVisitor PROVE link'[slotOf'[j]] \in InTable
      BY <1>1, <2>2, <2>4, <3>1 DEF OneSlotEach, TableTypes
    <3>2. ASSUME NEW w \in Visitors, link'[w] \in InTable PROVE \E j \in Slots : slotOf'[j] = w
      <4>1. w # v
        BY <2>2, <3>2 DEF InTable
      <4>2. PICK j \in Slots : slotOf[j] = w
        BY <1>1, <2>2, <3>2, <4>1 DEF OneSlotEach
      <4>. QED BY <2>2, <4>1, <4>2
    <3>3. ASSUME NEW j \in Slots, NEW l \in Slots,
                 slotOf'[j] = slotOf'[l], slotOf'[j] # NoVisitor
          PROVE  j = l
      BY <1>1, <2>2, <3>3 DEF OneSlotEach
    <3>. QED BY <3>1, <3>2, <3>3 DEF OneSlotEach
  <2>6. NotYetConnected'
    BY <1>1, <1>2, <2>1, <2>2 DEF NotYetConnected, InTable
  <2>. QED BY <2>3, <2>5, <2>6 DEF TableInv
<1>. QED BY <1>3, <1>4 DEF Serve

LEMMA TableStep == TableInv /\ [FailureNext]_vars => TableInv'
<1>. SUFFICES ASSUME TableInv, [FailureNext]_vars PROVE TableInv'
  OBVIOUS
<1>1. ASSUME NEW v \in Visitors, Visit(v) \/ Timeout(v) \/ Interrupt(v) \/ Kill(v),
             UNCHANGED tableVars
      PROVE  TableInv'
  BY <1>1, VisitKeepsTable DEF tableVars
<1>2. CASE UNCHANGED vars
  <2>1. TableTypes /\ OneSlotEach /\ NotYetConnected
    BY DEF TableInv
  <2>. QED BY <1>2, <2>1 DEF vars, clientVars, netVars, tableVars, TableInv, TableTypes,
                             OneSlotEach, NotYetConnected
<1>. QED BY <1>1, <1>2, AcceptKeepsTable, ServeKeepsTable
       DEF FailureNext, QuietNext, VisitStep, DayOver, TimeoutStep, InterruptStep, KillStep

(* server.c, the loop after accept and the end of a connection: whatever       *)
(* requests are sent again, and whoever is interrupted or killed wherever, a   *)
(* connection has one slot until the server has ended it, and none later.      *)
THEOREM SlotsCorrect == FailureSpec => []OneSlotPerConnection
<1>1. TableInv => OneSlotPerConnection
  <2>. SUFFICES ASSUME TableInv, NEW v \in Visitors
                PROVE  Cardinality({i \in Slots : slotOf[i] = v}) =
                         IF link[v] \in InTable THEN 1 ELSE 0
    BY DEF OneSlotPerConnection, InTable
  <2>. DEFINE S == {i \in Slots : slotOf[i] = v}
  <2>1. OneSlotEach /\ v # NoVisitor
    BY NobodyIsNoVisitor DEF TableInv
  <2>2. CASE link[v] \in InTable
    <3>1. PICK i \in Slots : slotOf[i] = v
      BY <2>1, <2>2 DEF OneSlotEach
    <3>2. S = {i}
      BY <2>1, <3>1 DEF OneSlotEach
    <3>. QED BY <2>2, <3>2, FS_Singleton
  <2>3. CASE link[v] \notin InTable
    <3>1. S = {}
      BY <2>1, <2>3 DEF OneSlotEach
    <3>. QED BY <2>3, <3>1, FS_EmptySet
  <2>. QED BY <2>2, <2>3
<1>. QED BY <1>1, TableInit, TableStep, PTL DEF FailureSpec

----------------------------------------------------------------------------
(* A quiet day: what a visitor and the server have said to each other. *)

Silent(v) == asked[v] = NoRequest /\ up[v] = <<>> /\ down[v] = <<>>
Asking(v, m) == asked[v] = m /\ up[v] = <<m>> /\ down[v] = <<>>
Answered(v, m, answer) == asked[v] = m /\ up[v] = <<>> /\ down[v] = <<answer>>

(* At most one request or its answer is on its way, and it belongs to the      *)
(* visitor's phase.  A visitor the table had no slot for is never answered.    *)
Dialogue(v) ==
  /\ closed[v] = (phase[v] = "gone")
  /\ phase[v] = "away" => link[v] = "none" /\ Silent(v)
  /\ phase[v] = "enter" =>
       \/ link[v] \in {"backlog", "open", "over"} /\ (Silent(v) \/ Asking(v, Enter))
       \/ link[v] = "open" /\ \E a \in {"ENTER_OK", "ENTER_WAIT"} : Answered(v, Enter, a)
  /\ phase[v] = "retry" =>
       /\ link[v] = "open"
       /\ \/ Silent(v) \/ Asking(v, Enter)
          \/ \E a \in {"ENTER_OK", "ENTER_WAIT"} : Answered(v, Enter, a)
  /\ phase[v] = "choose" =>
       /\ link[v] = "open"
       /\ \/ Silent(v)
          \/ /\ painting[v] \in Paintings
             /\ \/ Asking(v, View(painting[v]))
                \/ \E a \in {"VIEW_OK", "VIEW_WAIT"} : Answered(v, View(painting[v]), a)
  /\ phase[v] = "leave" =>
       /\ link[v] = "open" /\ painting[v] \in Paintings
       /\ Silent(v) \/ Asking(v, Leave) \/ Answered(v, Leave, "LEFT_PAINTING")
  /\ phase[v] = "exit" =>
       link[v] = "open" /\ (Silent(v) \/ Asking(v, Exit) \/ Answered(v, Exit, "EXIT_OK"))
  /\ phase[v] = "end" => link[v] = "open" /\ Silent(v)
  /\ phase[v] = "gone" => link[v] \in {"open", "over"} /\ Silent(v)

(* The server has let v in and has not read its EXIT. *)
Counted(v) ==
  \/ phase[v] \in {"choose", "leave"}
  \/ phase[v] \in {"enter", "retry"} /\ down[v] = <<"ENTER_OK">>
  \/ phase[v] = "exit" /\ (asked[v] = NoRequest \/ up[v] = <<Exit>>)

(* It has let v look at painting[v] and has not read that v turns away. *)
Viewing(v) ==
  \/ phase[v] = "choose" /\ down[v] = <<"VIEW_OK">>
  \/ phase[v] = "leave" /\ (asked[v] = NoRequest \/ up[v] = <<Leave>>)

(* It has read v's EXIT. *)
Parted(v) ==
  phase[v] \in {"end", "gone"} \/ (phase[v] = "exit" /\ down[v] = <<"EXIT_OK">>)

Domains ==
  /\ DOMAIN asked = Visitors /\ DOMAIN attempts = Visitors /\ DOMAIN visited = Visitors
  /\ DOMAIN painting = Visitors /\ DOMAIN up = Visitors /\ DOMAIN down = Visitors
  /\ DOMAIN closed = Visitors

(* A slot knows what its visitor looks at, and that it has left. *)
SlotsKnow ==
  /\ current_painting \in [Slots -> Paintings \cup {-1}] /\ sent_exit \in [Slots -> BOOLEAN]
  /\ \A i \in Slots : slotOf[i] = NoVisitor => current_painting[i] = -1
  /\ \A i \in Slots : slotOf[i] # NoVisitor =>
       /\ current_painting[i] = IF Viewing(slotOf[i]) THEN painting[slotOf[i]] ELSE -1
       /\ Parted(slotOf[i]) => sent_exit[i]

SlotsBefore(p) == {i \in Slots : current_painting[i] = p}

PaintingsCounted ==
  /\ painting_counts \in [Paintings -> Nat]
  /\ \A p \in Paintings : /\ painting_counts[p] = Cardinality(SlotsBefore(p))
                          /\ painting_counts[p] <= MAX_PAINTING_VISITORS

VisitorsCounted ==
  /\ current_visitors = Cardinality({v \in Visitors : Counted(v)})
  /\ current_visitors <= MAX_VISITORS

QuietInv ==
  /\ TableInv /\ Domains /\ running = TRUE
  /\ \A v \in Visitors : Dialogue(v)
  /\ SlotsKnow /\ PaintingsCounted /\ VisitorsCounted

LEMMA VisitorsAreFinite == IsFiniteSet(Visitors)
<1>. DEFINE first == 1
            last == 999
<1>1. first \in Int /\ last \in Int /\ Visitors \subseteq first..last
  BY VisitorsAssumption
<1>. HIDE DEF first, last
<1>. QED BY <1>1, FS_Interval, FS_Subset

LEMMA MessagesDiffer ==
  /\ Enter # NoRequest /\ Leave # NoRequest /\ Exit # NoRequest
  /\ Enter # Leave /\ Enter # Exit /\ Leave # Exit
  /\ \A p : View(p) # NoRequest /\ View(p) # Enter /\ View(p) # Leave /\ View(p) # Exit
  /\ Enter.cmd = "ENTER" /\ Leave.cmd = "LEAVE_PAINTING" /\ Exit.cmd = "EXIT"
  /\ \A p : View(p).cmd = "VIEW" /\ View(p).painting = p
  BY DEF Enter, Leave, Exit, View, NoRequest, Message

LEMMA OneMessage ==
  ASSUME NEW m
  PROVE  /\ Len(<<m>>) = 1 /\ Head(<<m>>) = m /\ <<m>>[1] = m /\ <<m>> # <<>>
         /\ SubSeq(<<m>>, 1 + 1, Len(<<m>>)) = <<>> /\ Append(<<>>, m) = <<m>>
         /\ Len(<<>>) = 0 /\ <<>> \o <<>> = <<>>
         /\ \A n : <<m>> = <<n>> => m = n
  OBVIOUS

LEMMA QuietInit == Init => QuietInv
<1>. SUFFICES ASSUME Init PROVE QuietInv
  OBVIOUS
<1>1. TableInv
  BY TableInit
<1>2. /\ \A v \in Visitors : /\ phase[v] = "away" /\ Silent(v) /\ closed[v] = FALSE
                             /\ link[v] = "none"
      /\ Domains /\ running = TRUE
  BY DEF Init, ClientInit, Domains, Silent
<1>3. \A v \in Visitors : Dialogue(v) /\ ~Counted(v)
  BY <1>2 DEF Dialogue, Counted
<1>4. SlotsKnow /\ \A p \in Paintings : SlotsBefore(p) = {}
  <2>1. \A p \in Paintings : p # -1
    BY VisitorsAssumption DEF Paintings
  <2>. QED BY <2>1 DEF Init, SlotsKnow, SlotsBefore
<1>5. PaintingsCounted
  BY <1>4, FS_EmptySet, ServerAssumption DEF Init, PaintingsCounted
<1>6. VisitorsCounted
  <2>1. {v \in Visitors : Counted(v)} = {}
    BY <1>3
  <2>. QED BY <2>1, FS_EmptySet, ServerAssumption DEF Init, VisitorsCounted
<1>. QED BY <1>1, <1>2, <1>3, <1>4, <1>5, <1>6 DEF QuietInv

(* What is true of a visitor stays true while nothing about it changes. *)
Untouched(v) ==
  /\ phase'[v] = phase[v] /\ asked'[v] = asked[v] /\ painting'[v] = painting[v]
  /\ up'[v] = up[v] /\ down'[v] = down[v] /\ closed'[v] = closed[v]

LEMMA UntouchedKeeps ==
  ASSUME NEW v \in Visitors, Untouched(v)
  PROVE  /\ link'[v] = link[v] /\ Dialogue(v) => Dialogue(v)'
         /\ (Counted(v)' <=> Counted(v)) /\ (Viewing(v)' <=> Viewing(v)) /\ (Parted(v)' <=> Parted(v))
<1>1. link'[v] = link[v] /\ Dialogue(v) => Dialogue(v)'
  BY DEF Untouched, Dialogue, Silent, Asking, Answered
<1>2. (Counted(v)' <=> Counted(v)) /\ (Viewing(v)' <=> Viewing(v)) /\ (Parted(v)' <=> Parted(v))
  BY DEF Untouched, Counted, Viewing, Parted
<1>. QED BY <1>1, <1>2

(* A step of one visitor, who is for the server where it was. *)
LEMMA VisitorMoves ==
  ASSUME QuietInv, NEW v \in Visitors, UNCHANGED <<tableVars, countVars, running>>,
         TableInv', Domains', \A w \in Visitors \ {v} : Untouched(w) /\ link'[w] = link[w],
         Dialogue(v)', (Counted(v)' <=> Counted(v)), (Viewing(v)' <=> Viewing(v)),
         Viewing(v) => painting'[v] = painting[v], Parted(v)' => Parted(v)
  PROVE  QuietInv'
<1>. USE DEF tableVars, countVars
<1>1. \A w \in Visitors \ {v} :
        /\ Dialogue(w)' /\ (Counted(w)' <=> Counted(w)) /\ (Viewing(w)' <=> Viewing(w))
        /\ (Parted(w)' <=> Parted(w)) /\ painting'[w] = painting[w]
  BY UntouchedKeeps DEF QuietInv, Untouched
<1>2. SlotsKnow'
  <2>1. \A i \in Slots : slotOf[i] # NoVisitor => slotOf[i] \in Visitors
    BY DEF QuietInv, TableInv, TableTypes
  <2>2. SlotsKnow
    BY DEF QuietInv
  <2>3. ASSUME NEW i \in Slots, slotOf[i] # NoVisitor
        PROVE  /\ current_painting[i] = IF Viewing(slotOf[i])' THEN painting'[slotOf[i]] ELSE -1
               /\ Parted(slotOf[i])' => sent_exit[i]
    BY <1>1, <2>1, <2>2, <2>3 DEF SlotsKnow
  <2>. QED BY <2>2, <2>3 DEF SlotsKnow
<1>3. PaintingsCounted'
  BY DEF QuietInv, PaintingsCounted, SlotsBefore
<1>4. VisitorsCounted'
  <2>1. {w \in Visitors : Counted(w)'} = {w \in Visitors : Counted(w)}
    BY <1>1
  <2>. QED BY <2>1 DEF QuietInv, VisitorsCounted
<1>. QED BY <1>1, <1>2, <1>3, <1>4 DEF QuietInv

(* Each step of a visitor: what it asks and hears moves nobody in or out. *)
LEMMA VisitKeepsQuiet ==
  ASSUME QuietInv, NEW v \in Visitors, VisitStep(v)
  PROVE  QuietInv'
<1>1. /\ Visit(v) /\ UNCHANGED <<tableVars, countVars>>
  BY DEF VisitStep
<1>2. TableInv'
  BY <1>1, VisitKeepsTable DEF QuietInv, tableVars
<1>3. /\ Dialogue(v) /\ Domains /\ running = TRUE
      /\ DOMAIN phase = Visitors /\ DOMAIN link = Visitors
  BY DEF QuietInv, TableInv, TableTypes, NotYetConnected
<1>4. ASSUME Connect(v) PROVE QuietInv'
  <2>1. /\ phase[v] = "away" /\ phase' = [phase EXCEPT ![v] = "enter"]
        /\ link' = [link EXCEPT ![v] = "backlog"]
        /\ UNCHANGED <<asked, attempts, visited, painting, up, down, closed, running>>
    BY <1>4 DEF Connect
  <2>2. \A w \in Visitors \ {v} : Untouched(w) /\ link'[w] = link[w]
    BY <1>3, <2>1 DEF Untouched
  <2>3. phase'[v] = "enter" /\ link'[v] = "backlog" /\ Silent(v)' /\ Silent(v) /\ closed'[v] = FALSE
    BY <1>3, <2>1 DEF Dialogue, Silent
  <2>4. Dialogue(v)'
    BY <2>3 DEF Dialogue
  <2>5. /\ (Counted(v)' <=> Counted(v)) /\ (Viewing(v)' <=> Viewing(v)) /\ ~Viewing(v) /\ ~Parted(v)'
    BY <2>1, <2>3 DEF Counted, Viewing, Parted, Silent
  <2>6. Domains'
    BY <1>3, <2>1 DEF Domains
  <2>. QED BY <1>1, <1>2, <2>1, <2>2, <2>4, <2>5, <2>6, VisitorMoves
<1>5. ASSUME NEW m \in Requests(v), Ask(v, m) PROVE QuietInv'
  <2>1. /\ asked[v] = NoRequest
        /\ asked' = [asked EXCEPT ![v] = m] /\ up' = [up EXCEPT ![v] = Append(@, m)]
        /\ painting' = [painting EXCEPT ![v] = IF phase[v] = "choose" THEN m.painting ELSE @]
        /\ UNCHANGED <<phase, attempts, visited, down, closed, link, running>>
    BY <1>5 DEF Ask, netVars
  <2>2. m # NoRequest
    BY MessagesDiffer DEF Requests
  <2>3. Silent(v)
    BY <1>3, <2>1, MessagesDiffer DEF Dialogue, Silent, Asking, Answered, TableInv,
         QuietInv, NotYetConnected, Phases
  <2>4. Asking(v, m)' /\ Domains' /\ \A w \in Visitors \ {v} : Untouched(w) /\ link'[w] = link[w]
    BY <1>3, <2>1, <2>3, OneMessage DEF Asking, Silent, Domains, Untouched
  <2>5. CASE phase[v] \in {"enter", "retry"}
    <3>1. m = Enter
      BY <2>5 DEF Requests
    <3>2. Dialogue(v)'
      BY <1>3, <2>1, <2>3, <2>4, <2>5, <3>1, MessagesDiffer, OneMessage
         DEF Dialogue, Silent, Asking, Answered
    <3>3. (Counted(v)' <=> Counted(v)) /\ ~Viewing(v)' /\ ~Viewing(v) /\ ~Parted(v)'
      BY <2>1, <2>5 DEF Counted, Viewing, Parted
    <3>. QED BY <1>1, <1>2, <2>1, <2>4, <3>2, <3>3, VisitorMoves
  <2>6. CASE phase[v] = "choose"
    <3>1. PICK p \in Paintings : m = View(p)
      BY <2>6 DEF Requests
    <3>2. painting'[v] = p
      BY <1>3, <2>1, <2>6, <3>1, MessagesDiffer DEF Domains
    <3>3. Dialogue(v)'
      BY <1>3, <2>1, <2>4, <2>6, <3>1, <3>2 DEF Dialogue
    <3>4. (Counted(v)' <=> Counted(v)) /\ ~Viewing(v)' /\ ~Viewing(v) /\ ~Parted(v)'
      BY <2>1, <2>3, <2>6, OneMessage DEF Counted, Viewing, Parted, Silent
    <3>. QED BY <1>1, <1>2, <2>1, <2>4, <3>3, <3>4, VisitorMoves
  <2>7. CASE phase[v] = "leave"
    <3>1. m = Leave /\ painting'[v] = painting[v]
      BY <1>3, <2>1, <2>7 DEF Requests, Domains
    <3>2. Dialogue(v)'
      BY <1>3, <2>1, <2>4, <2>7, <3>1 DEF Dialogue
    <3>3. (Counted(v)' <=> Counted(v)) /\ Viewing(v)' /\ Viewing(v) /\ ~Parted(v)'
      BY <2>1, <2>4, <2>7, <3>1 DEF Counted, Viewing, Parted, Asking
    <3>. QED BY <1>1, <1>2, <2>1, <2>4, <3>1, <3>2, <3>3, VisitorMoves
  <2>8. CASE phase[v] = "exit"
    <3>1. m = Exit
      BY <2>8 DEF Requests
    <3>2. Dialogue(v)'
      BY <1>3, <2>1, <2>4, <2>8, <3>1 DEF Dialogue
    <3>3. (Counted(v)' <=> Counted(v)) /\ ~Viewing(v)' /\ ~Viewing(v) /\ ~Parted(v)'
      BY <2>1, <2>3, <2>4, <2>8, <3>1, OneMessage DEF Counted, Viewing, Parted, Asking, Silent
    <3>. QED BY <1>1, <1>2, <2>1, <2>4, <3>2, <3>3, VisitorMoves
  <2>. QED BY <2>5, <2>6, <2>7, <2>8 DEF Requests

<1>6. ASSUME NEW k \in 1..Len(down[v]), Receive(v, k) PROVE QuietInv'
  <2>1. asked[v] # NoRequest
    BY <1>6 DEF Receive
  <2>2. PICK m, a : Answered(v, m, a) /\ \/ m = Enter /\ a \in {"ENTER_OK", "ENTER_WAIT"}
                                         \/ m = View(painting[v]) /\ a \in {"VIEW_OK", "VIEW_WAIT"}
                                         \/ m = Leave /\ a = "LEFT_PAINTING"
                                         \/ m = Exit /\ a = "EXIT_OK"
    <3>1. down[v] # <<>>
      BY OneMessage
    <3>. QED BY <1>3, <2>1, <3>1 DEF Dialogue, Silent, Asking, TableInv, QuietInv,
                                     NotYetConnected, Phases
  <2>3. k = 1 /\ {down[v][i] : i \in 1..k} = {a}
    <3>1. down[v] = <<a>> /\ Len(<<a>>) = 1
      BY <2>2, OneMessage DEF Answered
    <3>2. k = 1
      BY <3>1
    <3>3. {down[v][i] : i \in 1..k} = {down[v][1]}
      BY <3>2
    <3>. QED BY <3>1, <3>2, <3>3, OneMessage
  <2>. DEFINE seen == IF phase[v] = "choose" /\ "VIEW_OK" \in {a}
                        THEN visited[v] \cup {painting[v]} ELSE visited[v]
  <2>4. /\ phase' = [phase EXCEPT ![v] = PhaseAfter(v, {a}, seen)]
        /\ painting' = [painting EXCEPT ![v] = IF phase'[v] = "leave" THEN @ ELSE -1]
        /\ down' = [down EXCEPT ![v] = SubSeq(@, k + 1, Len(@))]
        /\ asked' = [asked EXCEPT ![v] = NoRequest]
        /\ UNCHANGED <<up, closed, link, running>>
    BY <1>6, <2>3 DEF Receive, netVars
  <2>5. /\ visited' = [visited EXCEPT ![v] = seen] /\ attempts' = [attempts EXCEPT ![v] = 0]
    BY <1>6, <2>3 DEF Receive
  <2>. HIDE DEF seen
  <2>6. /\ Silent(v)' /\ phase'[v] = PhaseAfter(v, {a}, seen)
        /\ painting'[v] = IF phase'[v] = "leave" THEN painting[v] ELSE -1
        /\ closed'[v] = closed[v] /\ link'[v] = link[v]
        /\ \A w \in Visitors \ {v} : Untouched(w) /\ link'[w] = link[w]
    <3>1. SubSeq(down[v], k + 1, Len(down[v])) = <<>>
      BY <2>2, <2>3, OneMessage DEF Answered
    <3>. QED BY <1>3, <2>2, <2>4, <3>1 DEF Silent, Answered, Domains, Untouched
  <2>7. Domains'
    BY <1>3, <2>4, <2>5 DEF Domains
  <2>8. /\ asked[v] = m /\ up[v] = <<>> /\ down[v] = <<a>> /\ m # NoRequest
        /\ \A x, y : <<x>> # <<>> /\ (<<x>> = <<y>> => x = y)
    BY <2>1, <2>2, OneMessage DEF Answered
  <2>8a. /\ ~Silent(v) /\ \A x : ~Asking(v, x)
         /\ \A x, y : Answered(v, x, y) => y = a
    BY <2>8 DEF Silent, Asking, Answered
  <2>9. CASE phase[v] \in {"enter", "retry"}
    <3>1. /\ a \in {"ENTER_OK", "ENTER_WAIT"} /\ link[v] = "open" /\ closed[v] = FALSE
      BY <1>3, <2>8a, <2>9 DEF Dialogue
    <3>2. phase'[v] \in {"retry", "choose"} /\ (phase'[v] = "choose" <=> a = "ENTER_OK")
      BY <2>6, <2>9, <3>1 DEF PhaseAfter
    <3>3. Dialogue(v)'
      BY <2>6, <3>1, <3>2 DEF Dialogue
    <3>4. (Counted(v)' <=> Counted(v)) /\ ~Viewing(v)' /\ ~Viewing(v) /\ ~Parted(v)'
      BY <2>6, <2>8, <2>9, <3>1, <3>2 DEF Counted, Viewing, Parted, Silent
    <3>. QED BY <1>1, <1>2, <2>4, <2>6, <2>7, <3>3, <3>4, VisitorMoves
  <2>10. CASE phase[v] = "choose"
    <3>1. /\ a \in {"VIEW_OK", "VIEW_WAIT"} /\ link[v] = "open" /\ closed[v] = FALSE
          /\ painting[v] \in Paintings
      BY <1>3, <2>8a, <2>10 DEF Dialogue
    <3>2. phase'[v] = IF a = "VIEW_OK" THEN "leave" ELSE "choose"
      BY <2>6, <2>10, <3>1 DEF PhaseAfter
    <3>3. Dialogue(v)'
      BY <2>6, <3>1, <3>2 DEF Dialogue
    <3>4. (Counted(v)' <=> Counted(v)) /\ (Viewing(v)' <=> Viewing(v)) /\ ~Parted(v)'
      BY <2>6, <2>8, <2>10, <3>1, <3>2, MessagesDiffer DEF Counted, Viewing, Parted, Silent
    <3>5. Viewing(v) => painting'[v] = painting[v]
      BY <2>6, <2>8, <2>10, <3>1, <3>2 DEF Viewing
    <3>. QED BY <1>1, <1>2, <2>4, <2>6, <2>7, <3>3, <3>4, <3>5, VisitorMoves
  <2>11. CASE phase[v] = "leave"
    <3>1. a = "LEFT_PAINTING" /\ link[v] = "open" /\ closed[v] = FALSE
      BY <1>3, <2>8a, <2>11 DEF Dialogue
    <3>2. phase'[v] \in {"exit", "choose"}
      BY <2>6, <2>11, <3>1 DEF PhaseAfter
    <3>3. Dialogue(v)'
      BY <2>6, <3>1, <3>2 DEF Dialogue
    <3>4. Counted(v)' /\ Counted(v) /\ ~Viewing(v)' /\ ~Viewing(v) /\ ~Parted(v)'
      BY <2>6, <2>8, <2>11, <3>1, <3>2 DEF Counted, Viewing, Parted, Silent
    <3>. QED BY <1>1, <1>2, <2>4, <2>6, <2>7, <3>3, <3>4, VisitorMoves
  <2>12. CASE phase[v] = "exit"
    <3>1. a = "EXIT_OK" /\ link[v] = "open" /\ closed[v] = FALSE
      BY <1>3, <2>8a, <2>12 DEF Dialogue
    <3>2. phase'[v] = "end"
      BY <2>6, <2>12, <3>1 DEF PhaseAfter
    <3>3. Dialogue(v)'
      BY <2>6, <3>1, <3>2 DEF Dialogue
    <3>4. ~Counted(v)' /\ ~Counted(v) /\ ~Viewing(v)' /\ ~Viewing(v) /\ Parted(v)
      BY <2>6, <2>8, <2>12, <3>1, <3>2 DEF Counted, Viewing, Parted, Silent
    <3>. QED BY <1>1, <1>2, <2>4, <2>6, <2>7, <3>3, <3>4, VisitorMoves
  <2>13. phase[v] \in {"enter", "retry", "choose", "leave", "exit"}
    BY <1>3, <2>1 DEF Dialogue, Silent, TableInv, QuietInv, NotYetConnected, Phases
  <2>. QED BY <2>9, <2>10, <2>11, <2>12, <2>13
<1>7. ASSUME Finish(v) PROVE QuietInv'
  <2>1. Silent(v) /\ link[v] = "open" /\ phase[v] = "end"
    BY <1>3, <1>7 DEF Finish, Dialogue
  <2>2. /\ phase' = [phase EXCEPT ![v] = "gone"] /\ asked' = [asked EXCEPT ![v] = NoRequest]
        /\ up' = [up EXCEPT ![v] = @ \o <<>>] /\ down' = [down EXCEPT ![v] = <<>>]
        /\ closed' = [closed EXCEPT ![v] = TRUE] /\ painting' = [painting EXCEPT ![v] = -1]
        /\ UNCHANGED <<link, running>>
    BY <1>7 DEF Finish, HangUp, netVars
  <2>3. Domains'
    BY <1>3, <1>7 DEF Finish, HangUp, Domains
  <2>4. /\ phase'[v] = "gone" /\ Silent(v)' /\ closed'[v] = TRUE /\ link'[v] = "open"
        /\ \A w \in Visitors \ {v} : Untouched(w) /\ link'[w] = link[w]
    BY <1>3, <2>1, <2>2, OneMessage DEF Domains, Silent, Untouched
  <2>5. Dialogue(v)'
    BY <2>4 DEF Dialogue
  <2>6. ~Counted(v)' /\ ~Counted(v) /\ ~Viewing(v)' /\ ~Viewing(v) /\ Parted(v)
    BY <2>1, <2>4 DEF Counted, Viewing, Parted
  <2>. QED BY <1>1, <1>2, <2>2, <2>3, <2>4, <2>5, <2>6, VisitorMoves
<1>8. ~ConnectFails(v) /\ ~LoseServer(v)
  BY <1>3 DEF ConnectFails, LoseServer
<1>. QED BY <1>1, <1>4, <1>5, <1>6, <1>7, <1>8 DEF Visit, Stroll

(* A new connection finds a slot that looks at nothing. *)
LEMMA AcceptKeepsQuiet ==
  ASSUME QuietInv, NEW v \in Visitors, Accept(v)
  PROVE  QuietInv'
<1>1. /\ link[v] = "backlog" /\ link' = [link EXCEPT ![v] = IF FreeSlots = {} THEN "over" ELSE "open"]
      /\ UNCHANGED <<phase, asked, painting, visited, attempts, up, down, closed, running>>
      /\ UNCHANGED <<current_painting, sent_exit, current_visitors, painting_counts>>
  BY DEF Accept, clientVars, countVars
<1>2. /\ TableTypes /\ OneSlotEach /\ SlotsKnow /\ phase \in [Visitors -> Phases]
      /\ \A w \in Visitors : Dialogue(w)
  BY DEF QuietInv, TableInv, NotYetConnected
<1>3. phase[v] = "enter"
  BY <1>1, <1>2 DEF Dialogue, Phases
<1>4. \A w \in Visitors : Untouched(w)
  BY <1>1 DEF Untouched
<1>5. \A w \in Visitors : /\ Counted(w)' <=> Counted(w)
                          /\ Viewing(w)' <=> Viewing(w)
                          /\ Parted(w)' <=> Parted(w)
  BY <1>4, UntouchedKeeps
<1>6. ASSUME NEW w \in Visitors PROVE Dialogue(w)'
  <2>1. CASE w = v
    <3>1. link'[v] \in {"backlog", "open", "over"} /\ (Silent(v)' \/ Asking(v, Enter)')
      BY <1>1, <1>2, <1>3 DEF TableTypes, Dialogue, Silent, Asking
    <3>. QED BY <1>1, <1>2, <1>3, <2>1, <3>1 DEF Dialogue
  <2>2. CASE w # v
    <3>1. link'[w] = link[w]
      BY <1>1, <1>2, <2>2 DEF TableTypes
    <3>. QED BY <1>2, <1>4, <3>1, UntouchedKeeps
  <2>. QED BY <2>1, <2>2
<1>7. SlotsKnow'
  <2>1. ~Viewing(v) /\ ~Parted(v)
    BY <1>3 DEF Viewing, Parted
  <2>2. \A j \in Slots : slotOf'[j] = slotOf[j] \/ (slotOf[j] = NoVisitor /\ slotOf'[j] = v)
    BY <1>2, FirstFreeIsFree DEF Accept, TableTypes
  <2>3. \A j \in Slots : slotOf[j] # NoVisitor => slotOf[j] \in Visitors
    BY <1>2 DEF TableTypes
  <2>4. \A j \in Slots : slotOf'[j] = NoVisitor => current_painting'[j] = -1
    BY <1>1, <1>2, <2>2, NobodyIsNoVisitor DEF SlotsKnow
  <2>5. ASSUME NEW j \in Slots, NEW w \in Visitors, slotOf'[j] = w
        PROVE  /\ current_painting'[j] = IF Viewing(w)' THEN painting'[w] ELSE -1
               /\ Parted(w)' => sent_exit'[j]
    <3>1. CASE slotOf'[j] = slotOf[j]
      BY <1>1, <1>2, <1>5, <2>5, <3>1, NobodyIsNoVisitor DEF SlotsKnow
    <3>2. CASE slotOf[j] = NoVisitor /\ slotOf'[j] = v
      BY <1>1, <1>2, <1>5, <2>1, <2>5, <3>2 DEF SlotsKnow
    <3>. QED BY <2>2, <3>1, <3>2
  <2>6. \A j \in Slots : slotOf'[j] # NoVisitor => slotOf'[j] \in Visitors
    BY <2>2, <2>3
  <2>. QED BY <1>1, <1>2, <2>4, <2>5, <2>6 DEF SlotsKnow, Viewing, Parted
<1>8. PaintingsCounted'
  BY <1>1 DEF QuietInv, PaintingsCounted, SlotsBefore
<1>9. VisitorsCounted'
  <2>1. {w \in Visitors : Counted(w)'} = {w \in Visitors : Counted(w)}
    BY <1>5
  <2>. QED BY <1>1, <2>1 DEF QuietInv, VisitorsCounted
<1>10. TableInv' /\ Domains' /\ running' = TRUE
  BY <1>1, AcceptKeepsTable DEF QuietInv, Domains
<1>. QED BY <1>6, <1>7, <1>8, <1>9, <1>10 DEF QuietInv

(* What the server reads is the one request of a visitor that waits for it. *)
LEMMA OneRequestRead ==
  ASSUME QuietInv, NEW i \in Slots, Readable(i), NEW k \in 1..Len(up[slotOf[i]])
  PROVE  LET v == slotOf[i]
             m == Understood(v, k)
         IN  /\ v \in Visitors /\ k = 1 /\ Asking(v, m) /\ link[v] = "open" /\ closed[v] = FALSE
             /\ \/ phase[v] \in {"enter", "retry"} /\ m = Enter
                \/ phase[v] = "choose" /\ m = View(painting[v]) /\ painting[v] \in Paintings
                \/ phase[v] = "leave" /\ m = Leave /\ painting[v] \in Paintings
                \/ phase[v] = "exit" /\ m = Exit
<1>. DEFINE v == slotOf[i]
<1>1. v \in Visitors /\ link[v] \in InTable
  BY DEF Readable, QuietInv, TableInv, TableTypes, OneSlotEach
<1>2. Dialogue(v) /\ phase[v] \in Phases
  BY <1>1 DEF QuietInv, TableInv, NotYetConnected
<1>. HIDE DEF v
<1>3. up[v] # <<>>
  BY OneMessage DEF v
<1>4. PICK m : /\ Asking(v, m)
               /\ \/ phase[v] \in {"enter", "retry"} /\ m = Enter
                  \/ phase[v] = "choose" /\ m = View(painting[v]) /\ painting[v] \in Paintings
                  \/ phase[v] = "leave" /\ m = Leave /\ painting[v] \in Paintings
                  \/ phase[v] = "exit" /\ m = Exit
  BY <1>2, <1>3 DEF Dialogue, Silent, Answered, Phases
<1>5. link[v] = "open" /\ closed[v] = FALSE
  BY <1>1, <1>2, <1>4 DEF Dialogue, InTable
<1>6. k = 1 /\ Understood(v, k) = m
  <2>1. up[v] = <<m>> /\ Len(<<m>>) = 1 /\ Head(<<m>>) = m
    BY <1>4, OneMessage DEF Asking
  <2>2. k = 1
    BY <2>1 DEF v
  <2>. QED BY <2>1, <2>2 DEF Understood
<1>. QED BY <1>1, <1>4, <1>5, <1>6 DEF v

(* Reading a request and answering it, as far as the connection sees it. *)
LEMMA MessageHandled ==
  ASSUME QuietInv, NEW i \in Slots, Readable(i), NEW v, v = slotOf[i], NEW k \in 1..Len(up[v]),
         NEW m, m = Understood(v, k), HandleMessage(i, k),
         NEW a, a = Answer(i, m), a # ""
  PROVE  /\ Answered(v, m, a)' /\ running' = TRUE /\ Domains'
         /\ \A w \in Visitors \ {v} : Untouched(w)
         /\ UNCHANGED <<phase, painting, closed, link, slotOf>>
<1>1. v \in Visitors /\ k = 1 /\ Asking(v, m) /\ link[v] = "open" /\ closed[v] = FALSE
  BY OneRequestRead
<1>2. Domains /\ running = TRUE
  BY DEF QuietInv
<1>3. /\ up' = [up EXCEPT ![v] = SubSeq(@, k + 1, Len(@))]
      /\ UNCHANGED <<phase, asked, attempts, visited, painting, closed, slotOf>>
  BY DEF HandleMessage, ReadMessage
<1>4. Respond(v, a)
  BY DEF HandleMessage
<1>5. down' = [down EXCEPT ![v] = Append(@, a)] /\ UNCHANGED link /\ running' = TRUE
  BY <1>1, <1>4 DEF Respond, Deliver
<1>6. up'[v] = <<>> /\ down'[v] = <<a>> /\ asked'[v] = m
  <2>1. up[v] = <<m>> /\ down[v] = <<>> /\ asked[v] = m
    BY <1>1 DEF Asking
  <2>2. SubSeq(up[v], k + 1, Len(up[v])) = <<>>
    <3>1. SubSeq(<<m>>, k + 1, Len(<<m>>)) = <<>>
      BY <1>1, OneMessage
    <3>. QED BY <2>1, <3>1
  <2>3. Append(down[v], a) = <<a>>
    BY <2>1, OneMessage
  <2>. QED BY <1>1, <1>2, <1>3, <1>5, <2>1, <2>2, <2>3 DEF Domains
<1>7. Domains' /\ \A w \in Visitors \ {v} : Untouched(w)
  BY <1>1, <1>2, <1>3, <1>5 DEF Domains, Untouched
<1>. QED BY <1>3, <1>5, <1>6, <1>7 DEF Answered

(* The slot of a request follows its visitor; the others are not touched. *)
LEMMA SlotFollows ==
  ASSUME QuietInv, NEW i \in Slots, NEW v \in Visitors, slotOf[i] = v, slotOf' = slotOf,
         \A w \in Visitors \ {v} : Untouched(w),
         current_painting' \in [Slots -> Paintings \cup {-1}], sent_exit' \in [Slots -> BOOLEAN],
         \A j \in Slots \ {i} : /\ current_painting'[j] = current_painting[j]
                                /\ sent_exit'[j] = sent_exit[j],
         current_painting'[i] = IF Viewing(v)' THEN painting'[v] ELSE -1,
         Parted(v)' => sent_exit'[i]
  PROVE  SlotsKnow'
<1>1. SlotsKnow /\ OneSlotEach /\ v # NoVisitor
      /\ \A j \in Slots : slotOf[j] # NoVisitor => slotOf[j] \in Visitors
  BY NobodyIsNoVisitor DEF QuietInv, TableInv, TableTypes
<1>2. ASSUME NEW j \in Slots, NEW w \in Visitors, slotOf[j] = w
      PROVE  /\ current_painting'[j] = IF Viewing(w)' THEN painting'[w] ELSE -1
             /\ Parted(w)' => sent_exit'[j]
  <2>1. CASE j = i
    BY <1>2, <2>1
  <2>2. CASE j # i
    <3>1. w # v /\ w # NoVisitor
      BY <1>1, <1>2, <2>2, NobodyIsNoVisitor DEF OneSlotEach
    <3>2. Untouched(w) /\ (Viewing(w)' <=> Viewing(w)) /\ (Parted(w)' <=> Parted(w))
      BY <3>1, UntouchedKeeps
    <3>3. painting'[w] = painting[w]
      BY <3>2 DEF Untouched
    <3>. QED BY <1>1, <1>2, <2>2, <3>1, <3>2, <3>3 DEF SlotsKnow
  <2>. QED BY <2>1, <2>2
<1>3. \A j \in Slots : slotOf[j] = NoVisitor => current_painting'[j] = -1
  BY <1>1 DEF SlotsKnow
<1>. QED BY <1>1, <1>2, <1>3 DEF SlotsKnow, Viewing, Parted

(* Nobody before a painting comes or goes with a step that changes no slot. *)
LEMMA PaintingsUnchanged ==
  ASSUME PaintingsCounted, UNCHANGED <<current_painting, painting_counts>>
  PROVE  PaintingsCounted'
  BY DEF PaintingsCounted, SlotsBefore

LEMMA VisitorsUnchanged ==
  ASSUME VisitorsCounted, \A w \in Visitors : Counted(w)' <=> Counted(w),
         UNCHANGED current_visitors
  PROVE  VisitorsCounted'
<1>1. {w \in Visitors : Counted(w)'} = {w \in Visitors : Counted(w)}
  OBVIOUS
<1>. QED BY <1>1 DEF VisitorsCounted

LEMMA OneVisitorMore ==
  ASSUME VisitorsCounted, NEW v \in Visitors, ~Counted(v), Counted(v)',
         \A w \in Visitors \ {v} : Counted(w)' <=> Counted(w),
         current_visitors < MAX_VISITORS, current_visitors' = current_visitors + 1
  PROVE  VisitorsCounted'
<1>. DEFINE S == {w \in Visitors : Counted(w)}
<1>1. {w \in Visitors : Counted(w)'} = S \cup {v} /\ v \notin S
  OBVIOUS
<1>2. IsFiniteSet(S) /\ Cardinality(S) \in Nat
  BY VisitorsAreFinite, FS_Subset, FS_CardinalityType
<1>3. current_visitors = Cardinality(S)
  BY DEF VisitorsCounted
<1>. HIDE DEF S
<1>4. Cardinality(S \cup {v}) = Cardinality(S) + 1
  BY <1>1, <1>2, FS_AddElement
<1>. QED BY <1>1, <1>2, <1>3, <1>4, ServerAssumption DEF VisitorsCounted

LEMMA OneVisitorLess ==
  ASSUME VisitorsCounted, NEW v \in Visitors, Counted(v), ~Counted(v)',
         \A w \in Visitors \ {v} : Counted(w)' <=> Counted(w),
         current_visitors' = Decrement(current_visitors)
  PROVE  VisitorsCounted'
<1>. DEFINE S == {w \in Visitors : Counted(w)}
<1>1. {w \in Visitors : Counted(w)'} = S \ {v} /\ v \in S
  OBVIOUS
<1>2. IsFiniteSet(S) /\ Cardinality(S) \in Nat
  BY VisitorsAreFinite, FS_Subset, FS_CardinalityType
<1>3. current_visitors = Cardinality(S) /\ current_visitors <= MAX_VISITORS
  BY DEF VisitorsCounted
<1>. HIDE DEF S
<1>4. Cardinality(S \ {v}) = Cardinality(S) - 1 /\ Cardinality(S) # 0
  BY <1>1, <1>2, FS_RemoveElement, FS_EmptySet
<1>5. current_visitors' = current_visitors - 1
  BY <1>2, <1>3, <1>4 DEF Decrement
<1>. QED BY <1>1, <1>2, <1>3, <1>4, <1>5, ServerAssumption DEF VisitorsCounted

(* A viewer comes or turns away: its slot is one more or less. *)
LEMMA OneViewerMore ==
  ASSUME PaintingsCounted, NEW i \in Slots, NEW p \in Paintings, p # -1,
         current_painting[i] = -1, current_painting'[i] = p,
         \A j \in Slots \ {i} : current_painting'[j] = current_painting[j],
         painting_counts[p] < MAX_PAINTING_VISITORS,
         painting_counts' = [painting_counts EXCEPT ![p] = @ + 1], \A q \in Paintings : q # -1
  PROVE  PaintingsCounted'
<1>1. painting_counts \in [Paintings -> Nat]
  BY DEF PaintingsCounted
<1>2. \A q \in Paintings : SlotsBefore(q)' = IF q = p THEN SlotsBefore(p) \cup {i} ELSE SlotsBefore(q)
  BY DEF SlotsBefore
<1>3. i \notin SlotsBefore(p) /\ IsFiniteSet(SlotsBefore(p))
  BY SlotsAreFinite, FS_Subset DEF SlotsBefore
<1>4. Cardinality(SlotsBefore(p) \cup {i}) = Cardinality(SlotsBefore(p)) + 1
  BY <1>3, FS_AddElement
<1>5. /\ painting_counts' \in [Paintings -> Nat] /\ painting_counts'[p] = painting_counts[p] + 1
      /\ \A q \in Paintings : q # p => painting_counts'[q] = painting_counts[q]
  BY <1>1
<1>6. painting_counts[p] = Cardinality(SlotsBefore(p)) /\ painting_counts[p] \in Nat
  BY <1>1 DEF PaintingsCounted
<1>7. painting_counts'[p] <= MAX_PAINTING_VISITORS
  BY <1>5, <1>6, ServerAssumption
<1>8. ASSUME NEW q \in Paintings
      PROVE  /\ painting_counts'[q] = Cardinality(SlotsBefore(q)')
             /\ painting_counts'[q] <= MAX_PAINTING_VISITORS
  <2>1. CASE q = p
    BY <1>2, <1>4, <1>5, <1>6, <1>7, <2>1
  <2>2. CASE q # p
    BY <1>2, <1>5, <2>2 DEF PaintingsCounted
  <2>. QED BY <2>1, <2>2
<1>. QED BY <1>5, <1>8 DEF PaintingsCounted, SlotsBefore

LEMMA OneViewerLess ==
  ASSUME PaintingsCounted, NEW i \in Slots, NEW p \in Paintings, p # -1,
         current_painting[i] = p, current_painting'[i] = -1,
         \A j \in Slots \ {i} : current_painting'[j] = current_painting[j],
         painting_counts' = [painting_counts EXCEPT ![p] = Decrement(@)],
         \A q \in Paintings : q # -1
  PROVE  PaintingsCounted'
<1>1. painting_counts \in [Paintings -> Nat]
  BY DEF PaintingsCounted
<1>2. \A q \in Paintings : SlotsBefore(q)' = IF q = p THEN SlotsBefore(p) \ {i} ELSE SlotsBefore(q)
  BY DEF SlotsBefore
<1>3. i \in SlotsBefore(p) /\ IsFiniteSet(SlotsBefore(p))
  BY SlotsAreFinite, FS_Subset DEF SlotsBefore
<1>4. /\ Cardinality(SlotsBefore(p) \ {i}) = Cardinality(SlotsBefore(p)) - 1
      /\ Cardinality(SlotsBefore(p)) # 0
  BY <1>3, FS_RemoveElement, FS_EmptySet
<1>5. /\ painting_counts[p] = Cardinality(SlotsBefore(p)) /\ painting_counts[p] \in Nat
      /\ painting_counts[p] <= MAX_PAINTING_VISITORS
  BY <1>1 DEF PaintingsCounted
<1>6. Decrement(painting_counts[p]) = painting_counts[p] - 1 /\ painting_counts[p] - 1 \in Nat
  BY <1>4, <1>5 DEF Decrement
<1>7. /\ painting_counts' \in [Paintings -> Nat] /\ painting_counts'[p] = painting_counts[p] - 1
      /\ \A q \in Paintings : q # p => painting_counts'[q] = painting_counts[q]
  BY <1>1, <1>6
<1>8. painting_counts'[p] <= MAX_PAINTING_VISITORS
  BY <1>5, <1>7, ServerAssumption
<1>9. ASSUME NEW q \in Paintings
      PROVE  /\ painting_counts'[q] = Cardinality(SlotsBefore(q)')
             /\ painting_counts'[q] <= MAX_PAINTING_VISITORS
  <2>1. CASE q = p
    BY <1>2, <1>4, <1>5, <1>7, <1>8, <2>1
  <2>2. CASE q # p
    BY <1>2, <1>7, <2>2 DEF PaintingsCounted
  <2>. QED BY <2>1, <2>2
<1>. QED BY <1>7, <1>9 DEF PaintingsCounted, SlotsBefore

(* The parts of the invariant a request leaves to be shown. *)
LEMMA MessageKeepsQuiet ==
  ASSUME QuietInv, NEW i \in Slots, Readable(i), NEW k \in 1..Len(up[slotOf[i]]),
         HandleMessage(i, k)
  PROVE  QuietInv'
<1>0. PICK v, m, a : v = slotOf[i] /\ m = Understood(v, k) /\ a = Answer(i, m)
  OBVIOUS
<1>1. /\ v \in Visitors /\ Asking(v, m) /\ link[v] = "open" /\ closed[v] = FALSE
      /\ \/ phase[v] \in {"enter", "retry"} /\ m = Enter
         \/ phase[v] = "choose" /\ m = View(painting[v]) /\ painting[v] \in Paintings
         \/ phase[v] = "leave" /\ m = Leave /\ painting[v] \in Paintings
         \/ phase[v] = "exit" /\ m = Exit
  BY <1>0, OneRequestRead
<1>2. TableInv'
  BY ServeKeepsTable DEF QuietInv, Serve
<1>3. /\ SlotsKnow /\ PaintingsCounted /\ VisitorsCounted
      /\ current_painting[i] = IF Viewing(v) THEN painting[v] ELSE -1
      /\ current_painting \in [Slots -> Paintings \cup {-1}] /\ sent_exit \in [Slots -> BOOLEAN]
      /\ \A p \in Paintings : p # -1
      /\ \A w \in Visitors : Dialogue(w)
  <2>1. \A p \in Paintings : p # -1
    BY VisitorsAssumption DEF Paintings
  <2>. QED BY <1>0, <2>1 DEF QuietInv, SlotsKnow, Readable
<1>4. EnterCommand(i, m) \/ ViewCommand(i, m) \/ LeaveCommand(i, m) \/ ExitCommand(i, m)
  BY <1>0 DEF HandleMessage
<1>5. ASSUME a # ""
      PROVE  /\ Answered(v, m, a)' /\ running' = TRUE /\ Domains'
             /\ \A w \in Visitors \ {v} : Untouched(w)
             /\ UNCHANGED <<phase, painting, closed, link, slotOf>>
             /\ \A w \in Visitors \ {v} : Dialogue(w)' /\ (Counted(w)' <=> Counted(w))
  <2>1. /\ Answered(v, m, a)' /\ running' = TRUE /\ Domains'
        /\ \A w \in Visitors \ {v} : Untouched(w)
        /\ UNCHANGED <<phase, painting, closed, link, slotOf>>
    BY <1>0, <1>5, MessageHandled
  <2>2. \A w \in Visitors \ {v} : link'[w] = link[w]
    BY <2>1
  <2>3. \A w \in Visitors \ {v} : Dialogue(w)' /\ (Counted(w)' <=> Counted(w))
    BY <1>3, <2>1, <2>2, UntouchedKeeps
  <2>. QED BY <2>1, <2>3
<1>6. ASSUME NEW x, NEW y, <<x>> = <<y>> PROVE x = y
  BY <1>6, OneMessage
<1>7. /\ asked[v] = m /\ up[v] = <<m>> /\ down[v] = <<>> /\ m # NoRequest
      /\ \A x : <<x>> # <<>>
  BY <1>1, MessagesDiffer, OneMessage DEF Asking
<1>9. CASE m = Enter
  <2>1. a = IF current_visitors < MAX_VISITORS THEN "ENTER_OK" ELSE "ENTER_WAIT"
    BY <1>0, <1>9, MessagesDiffer DEF Answer
  <2>2. EnterCommand(i, m) /\ a # "" /\ phase[v] \in {"enter", "retry"}
    BY <1>1, <1>4, <1>9, <2>1, MessagesDiffer DEF EnterCommand, ViewCommand, LeaveCommand, ExitCommand
  <2>3. /\ current_visitors' = IF a = "ENTER_OK" THEN current_visitors + 1 ELSE current_visitors
        /\ UNCHANGED <<painting_counts, current_painting, sent_exit>>
    BY <1>0, <2>2 DEF EnterCommand
  <2>4. /\ phase' = phase /\ link' = link /\ closed' = closed /\ slotOf' = slotOf
        /\ asked'[v] = Enter /\ up'[v] = <<>> /\ down'[v] = <<a>>
        /\ Answered(v, Enter, a)'
    BY <1>5, <1>9, <2>2 DEF Answered
  <2>5. Dialogue(v)'
    BY <1>1, <2>1, <2>2, <2>4 DEF Dialogue
  <2>6. ~Counted(v) /\ (Counted(v)' <=> a = "ENTER_OK") /\ ~Viewing(v) /\ ~Viewing(v)' /\ ~Parted(v)'
    BY <1>6, <1>7, <2>2, <2>4 DEF Counted, Viewing, Parted
  <2>7. SlotsKnow'
    BY <1>1, <1>3, <1>5, <1>0, <2>2, <2>3, <2>4, <2>6, SlotFollows
  <2>8. VisitorsCounted'
    BY <1>1, <1>3, <1>5, <2>1, <2>2, <2>3, <2>6, OneVisitorMore, VisitorsUnchanged
  <2>. QED BY <1>2, <1>3, <1>5, <2>2, <2>3, <2>5, <2>7, <2>8, PaintingsUnchanged DEF QuietInv
<1>10. CASE m = View(painting[v]) /\ painting[v] \in Paintings /\ phase[v] = "choose"
  <2>0. PICK p \in Paintings : p = painting[v]
    BY <1>10
  <2>1. a = IF painting_counts[p] < MAX_PAINTING_VISITORS THEN "VIEW_OK" ELSE "VIEW_WAIT"
    BY <1>0, <1>10, <2>0, MessagesDiffer DEF Answer
  <2>2. ViewCommand(i, m) /\ a # "" /\ m.painting = p
    BY <1>4, <1>10, <2>0, <2>1, MessagesDiffer DEF EnterCommand, ViewCommand, LeaveCommand, ExitCommand
  <2>3. /\ a = "VIEW_OK" => /\ painting_counts' = [painting_counts EXCEPT ![p] = @ + 1]
                            /\ current_painting' = [current_painting EXCEPT ![i] = p]
        /\ a # "VIEW_OK" => UNCHANGED <<painting_counts, current_painting>>
        /\ UNCHANGED <<current_visitors, sent_exit>>
    BY <1>0, <2>2 DEF ViewCommand
  <2>4. /\ phase' = phase /\ link' = link /\ closed' = closed /\ slotOf' = slotOf /\ painting' = painting
        /\ down'[v] = <<a>> /\ Answered(v, View(painting[v]), a)'
    BY <1>5, <1>10, <2>2 DEF Answered
  <2>5. Dialogue(v)'
    BY <1>1, <1>10, <2>1, <2>4 DEF Dialogue
  <2>6. ~Viewing(v) /\ (Viewing(v)' <=> a = "VIEW_OK") /\ ~Parted(v)' /\ Counted(v) /\ Counted(v)'
    BY <1>6, <1>7, <1>10, <2>4 DEF Counted, Viewing, Parted
  <2>7. current_painting[i] = -1
    BY <1>3, <2>6
  <2>8. SlotsKnow'
    <3>1. /\ current_painting' \in [Slots -> Paintings \cup {-1}]
          /\ current_painting'[i] = IF a = "VIEW_OK" THEN p ELSE -1
          /\ \A j \in Slots \ {i} : current_painting'[j] = current_painting[j]
      BY <1>3, <1>10, <2>3, <2>7
    <3>. QED BY <1>1, <1>3, <1>5, <1>0, <2>0, <2>2, <2>3, <2>4, <2>6, <3>1, SlotFollows
  <2>9. PaintingsCounted'
    <3>1. CASE a # "VIEW_OK"
      BY <1>3, <2>3, <3>1, PaintingsUnchanged
    <3>2. CASE a = "VIEW_OK"
      <4>1. painting_counts[p] < MAX_PAINTING_VISITORS
        BY <2>1, <3>2
      <4>2. current_painting'[i] = p /\ \A j \in Slots \ {i} : current_painting'[j] = current_painting[j]
        BY <1>3, <2>3, <3>2
      <4>. QED BY <1>3, <2>3, <2>7, <2>0, <3>2, <4>1, <4>2, OneViewerMore
    <3>. QED BY <3>1, <3>2
  <2>10. VisitorsCounted'
    BY <1>3, <1>5, <2>2, <2>3, <2>6, VisitorsUnchanged
  <2>. QED BY <1>2, <1>5, <2>2, <2>5, <2>8, <2>9, <2>10 DEF QuietInv
<1>11. CASE m = Leave /\ painting[v] \in Paintings /\ phase[v] = "leave"
  <2>1. PICK p \in Paintings : p = painting[v]
    BY <1>11
  <2>2. Viewing(v) /\ Counted(v) /\ current_painting[i] = p /\ p # -1
    BY <1>3, <1>7, <1>11, <2>1 DEF Viewing, Counted
  <2>3. a = "LEFT_PAINTING"
    BY <1>0, <1>11, <2>2, MessagesDiffer DEF Answer
  <2>4. LeaveCommand(i, m) /\ a # ""
    BY <1>4, <1>11, <2>3, MessagesDiffer DEF EnterCommand, ViewCommand, LeaveCommand, ExitCommand
  <2>5. /\ painting_counts' = [painting_counts EXCEPT ![p] = Decrement(@)]
        /\ current_painting' = [current_painting EXCEPT ![i] = -1]
        /\ UNCHANGED <<current_visitors, sent_exit>>
    BY <2>2, <2>4 DEF LeaveCommand, WithoutViewer
  <2>6. /\ phase' = phase /\ link' = link /\ closed' = closed /\ slotOf' = slotOf /\ painting' = painting
        /\ asked'[v] = Leave /\ up'[v] = <<>> /\ Answered(v, Leave, "LEFT_PAINTING")'
    BY <1>5, <1>11, <2>3, <2>4 DEF Answered
  <2>7. Dialogue(v)'
    BY <1>1, <1>11, <2>6 DEF Dialogue
  <2>8. ~Viewing(v)' /\ ~Parted(v)' /\ Counted(v)'
    BY <1>7, <1>11, <2>6, MessagesDiffer DEF Counted, Viewing, Parted
  <2>9. SlotsKnow'
    <3>1. /\ current_painting' \in [Slots -> Paintings \cup {-1}]
          /\ current_painting'[i] = -1
          /\ \A j \in Slots \ {i} : current_painting'[j] = current_painting[j]
      BY <1>3, <2>5
    <3>. QED BY <1>0, <1>1, <1>3, <1>5, <2>4, <2>5, <2>6, <2>8, <3>1, SlotFollows
  <2>10. PaintingsCounted'
    <3>1. PaintingsCounted /\ current_painting'[i] = -1
          /\ \A j \in Slots \ {i} : current_painting'[j] = current_painting[j]
      BY <1>3, <2>5
    <3>. QED BY <1>3, <2>2, <2>5, <3>1, OneViewerLess
  <2>11. VisitorsCounted'
    BY <1>3, <1>5, <2>2, <2>4, <2>5, <2>8, VisitorsUnchanged
  <2>. QED BY <1>2, <1>5, <2>4, <2>7, <2>9, <2>10, <2>11 DEF QuietInv
<1>12. CASE m = Exit /\ phase[v] = "exit"
  <2>1. ~Viewing(v) /\ Counted(v) /\ current_painting[i] = -1
    BY <1>3, <1>7, <1>12 DEF Viewing, Counted
  <2>2. a = "EXIT_OK"
    BY <1>0, <1>12, MessagesDiffer DEF Answer
  <2>3. ExitCommand(i, m) /\ a # ""
    BY <1>4, <1>12, <2>2, MessagesDiffer DEF EnterCommand, ViewCommand, LeaveCommand, ExitCommand
  <2>4. /\ painting_counts' = painting_counts
        /\ current_painting' = [current_painting EXCEPT ![i] = -1]
        /\ current_visitors' = Decrement(current_visitors)
        /\ sent_exit' = [sent_exit EXCEPT ![i] = TRUE]
    BY <2>1, <2>3 DEF ExitCommand, WithoutViewer
  <2>5. current_painting' = current_painting
    BY <1>3, <2>1, <2>4
  <2>6. /\ phase' = phase /\ link' = link /\ closed' = closed /\ slotOf' = slotOf /\ painting' = painting
        /\ asked'[v] = Exit /\ up'[v] = <<>> /\ Answered(v, Exit, "EXIT_OK")'
    BY <1>5, <1>12, <2>2, <2>3 DEF Answered
  <2>7. Dialogue(v)'
    BY <1>1, <1>12, <2>6 DEF Dialogue
  <2>8. ~Viewing(v)' /\ ~Counted(v)'
    BY <1>7, <1>12, <2>6, MessagesDiffer DEF Counted, Viewing
  <2>9. SlotsKnow'
    <3>1. /\ sent_exit' \in [Slots -> BOOLEAN] /\ sent_exit'[i] = TRUE
          /\ \A j \in Slots \ {i} : sent_exit'[j] = sent_exit[j]
      BY <1>3, <2>4
    <3>. QED BY <1>0, <1>1, <1>3, <1>5, <2>1, <2>3, <2>5, <2>6, <2>8, <3>1, SlotFollows
  <2>10. PaintingsCounted'
    BY <1>3, <2>4, <2>5, PaintingsUnchanged
  <2>11. VisitorsCounted'
    BY <1>1, <1>3, <1>5, <2>1, <2>3, <2>4, <2>8, OneVisitorLess
  <2>. QED BY <1>2, <1>5, <2>3, <2>7, <2>9, <2>10, <2>11 DEF QuietInv
<1>. QED BY <1>1, <1>9, <1>10, <1>11, <1>12

(* A visitor that has said EXIT is not counted out again when it hangs up. *)
LEMMA DisconnectKeepsQuiet ==
  ASSUME QuietInv, NEW i \in Slots, Readable(i), HungUp(i), Disconnect(i)
  PROVE  QuietInv'
<1>0. PICK v : v = slotOf[i]
  OBVIOUS
<1>1. v \in Visitors /\ v # NoVisitor /\ closed[v] = TRUE
  <2>1. v \in Visitors /\ v # NoVisitor
    BY <1>0 DEF Readable, QuietInv, TableInv, TableTypes
  <2>2. closed[v] /\ Dialogue(v)
    BY <1>0, <2>1 DEF HungUp, QuietInv
  <2>. QED BY <2>1, <2>2 DEF Dialogue
<1>2. phase[v] = "gone" /\ Silent(v) /\ \A w \in Visitors : Dialogue(w)
  BY <1>1 DEF QuietInv, Dialogue
<1>3. SlotsKnow /\ PaintingsCounted /\ VisitorsCounted /\ TableTypes /\ OneSlotEach
  BY DEF QuietInv, TableInv
<1>4. current_painting[i] = -1 /\ sent_exit[i] = TRUE
  BY <1>0, <1>1, <1>2, <1>3 DEF SlotsKnow, Viewing, Parted
<1>5. /\ slotOf' = [slotOf EXCEPT ![i] = NoVisitor] /\ link' = [link EXCEPT ![v] = "over"]
      /\ UNCHANGED <<clientVars, running, current_painting, sent_exit>>
      /\ UNCHANGED <<painting_counts, current_visitors>>
  BY <1>0, <1>4 DEF Disconnect, CloseSlot, WithoutViewer
<1>6. \A w \in Visitors : Untouched(w)
  BY <1>5 DEF Untouched, clientVars
<1>7. \A w \in Visitors : /\ Counted(w)' <=> Counted(w)
                          /\ Viewing(w)' <=> Viewing(w)
                          /\ Parted(w)' <=> Parted(w)
                          /\ painting'[w] = painting[w]
  BY <1>6, UntouchedKeeps DEF Untouched
<1>8. ASSUME NEW w \in Visitors PROVE Dialogue(w)'
  <2>1. CASE w = v
    <3>1. phase'[v] = "gone" /\ Silent(v)' /\ link'[v] = "over" /\ closed'[v] = TRUE
      BY <1>1, <1>2, <1>3, <1>5 DEF clientVars, TableTypes, Silent
    <3>. QED BY <2>1, <3>1 DEF Dialogue
  <2>2. CASE w # v
    <3>1. link'[w] = link[w]
      BY <1>3, <1>5, <2>2 DEF TableTypes
    <3>. QED BY <1>2, <1>6, <3>1, UntouchedKeeps
  <2>. QED BY <2>1, <2>2
<1>9. SlotsKnow'
  <2>1. /\ slotOf'[i] = NoVisitor /\ \A j \in Slots \ {i} : slotOf'[j] = slotOf[j]
        /\ \A j \in Slots : slotOf'[j] # NoVisitor => slotOf'[j] \in Visitors
    BY <1>3, <1>5 DEF TableTypes
  <2>2. \A j \in Slots : slotOf'[j] = NoVisitor => current_painting'[j] = -1
    BY <1>3, <1>4, <1>5, <2>1 DEF SlotsKnow
  <2>3. ASSUME NEW j \in Slots, NEW w \in Visitors, slotOf'[j] = w
        PROVE  /\ current_painting'[j] = IF Viewing(w)' THEN painting'[w] ELSE -1
               /\ Parted(w)' => sent_exit'[j]
    <3>1. slotOf[j] = w /\ w # NoVisitor
      BY <2>1, <2>3, NobodyIsNoVisitor
    <3>. QED BY <1>3, <1>5, <1>7, <3>1 DEF SlotsKnow
  <2>. QED BY <1>3, <1>5, <2>1, <2>2, <2>3 DEF SlotsKnow, Viewing, Parted
<1>10. PaintingsCounted' /\ VisitorsCounted'
  BY <1>3, <1>5, <1>7, PaintingsUnchanged, VisitorsUnchanged
<1>11. TableInv' /\ Domains' /\ running' = TRUE
  <2>1. Serve(i)
    BY DEF Serve
  <2>. QED BY <1>5, <2>1, ServeKeepsTable DEF QuietInv, Domains, clientVars
<1>. QED BY <1>8, <1>9, <1>10, <1>11 DEF QuietInv

LEMMA QuietStep == QuietInv /\ [QuietNext]_vars => QuietInv'
<1>. SUFFICES ASSUME QuietInv, [QuietNext]_vars PROVE QuietInv'
  OBVIOUS
<1>1. CASE UNCHANGED vars
  <2>1. TableInv'
    BY <1>1, TableStep DEF QuietInv
  <2>2. \A w \in Visitors : Untouched(w) /\ link'[w] = link[w]
    BY <1>1 DEF vars, clientVars, netVars, Untouched
  <2>3. \A w \in Visitors : Dialogue(w)' /\ (Counted(w)' <=> Counted(w))
    BY <2>2, UntouchedKeeps DEF QuietInv
  <2>4. SlotsKnow' /\ Domains' /\ running' = TRUE
    BY <1>1 DEF vars, clientVars, netVars, tableVars, QuietInv, SlotsKnow, Viewing, Parted, Domains
  <2>5. PaintingsCounted' /\ VisitorsCounted'
    BY <1>1, <2>3, PaintingsUnchanged, VisitorsUnchanged
       DEF vars, tableVars, countVars, QuietInv
  <2>. QED BY <2>1, <2>3, <2>4, <2>5 DEF QuietInv
<1>2. ASSUME NEW i \in Slots, Serve(i) PROVE QuietInv'
  BY <1>2, MessageKeepsQuiet, DisconnectKeepsQuiet DEF Serve
<1>. QED BY <1>1, <1>2, VisitKeepsQuiet, AcceptKeepsQuiet DEF QuietNext, DayOver

THEOREM QuietDay == QuietSpec => []QuietInv
  BY QuietInit, QuietStep, PTL DEF QuietSpec

(* README.md:3-4 of "idz os 3", the test of ENTER in server.c: for every number *)
(* of visitors, places and slots nobody is let in who exceeds the limit.       *)
THEOREM VisitorsLimited == QuietSpec => []AtMostMaxVisitors
<1>1. QuietInv => AtMostMaxVisitors
  <2>. SUFFICES ASSUME QuietInv PROVE AtMostMaxVisitors
    OBVIOUS
  <2>. DEFINE S == {v \in Visitors : Counted(v)}
              T == {v \in Visitors : Inside(v)}
  <2>1. T \subseteq S
    BY DEF Inside, Counted
  <2>2. IsFiniteSet(S) /\ IsFiniteSet(T)
    BY VisitorsAreFinite, FS_Subset
  <2>3. Cardinality(T) <= Cardinality(S) /\ Cardinality(S) \in Nat /\ Cardinality(T) \in Nat
    BY <2>1, <2>2, FS_Subset, FS_CardinalityType
  <2>4. Cardinality(S) <= MAX_VISITORS
    BY DEF QuietInv, VisitorsCounted
  <2>. QED BY <2>3, <2>4, ServerAssumption DEF AtMostMaxVisitors
<1>. QED BY <1>1, QuietDay, PTL

(* README.md:5-8, the test of VIEW: no more visitors look at a painting than   *)
(* may, however many slots and paintings there are.                            *)
THEOREM ViewersLimited == QuietSpec => []AtMostMaxViewers
<1>1. QuietInv => AtMostMaxViewers
  <2>. SUFFICES ASSUME QuietInv, NEW p \in Paintings
                PROVE  Cardinality({v \in Visitors : Before(v, p)}) <= MAX_PAINTING_VISITORS
    BY DEF AtMostMaxViewers
  <2>. DEFINE T == {v \in Visitors : Before(v, p)}
              S == SlotsBefore(p)
              slot == [v \in T |-> CHOOSE i \in Slots : slotOf[i] = v]
  <2>1. ASSUME NEW v \in T
        PROVE  slot[v] \in S /\ slotOf[slot[v]] = v
    <3>1. v \in Visitors /\ phase[v] = "leave" /\ asked[v] = NoRequest /\ painting[v] = p
      BY DEF Before
    <3>2. link[v] \in InTable /\ v # NoVisitor
      BY <3>1, NobodyIsNoVisitor DEF QuietInv, Dialogue, InTable
    <3>3. \E i \in Slots : slotOf[i] = v
      BY <3>1, <3>2 DEF QuietInv, TableInv, OneSlotEach
    <3>4. slot[v] \in Slots /\ slotOf[slot[v]] = v
      BY <3>3
    <3>5. current_painting[slot[v]] = p
      BY <3>1, <3>2, <3>4 DEF QuietInv, SlotsKnow, Viewing
    <3>. QED BY <3>4, <3>5 DEF SlotsBefore
  <2>2. slot \in Injection(T, S)
    <3>1. slot \in [T -> S]
      BY <2>1
    <3>2. \A v, w \in T : slot[v] = slot[w] => v = w
      BY <2>1
    <3>. HIDE DEF slot
    <3>. QED BY <3>1, <3>2 DEF Injection, IsInjective
  <2>3. IsFiniteSet(S) /\ IsFiniteSet(T)
    BY SlotsAreFinite, VisitorsAreFinite, FS_Subset DEF SlotsBefore
  <2>4. Cardinality(T) <= Cardinality(S)
    BY <2>2, <2>3, FS_Injection DEF ExistsInjection
  <2>5. Cardinality(S) <= MAX_PAINTING_VISITORS
    BY DEF QuietInv, PaintingsCounted
  <2>6. Cardinality(T) \in Nat /\ Cardinality(S) \in Nat
    BY <2>3, FS_CardinalityType
  <2>. QED BY <2>4, <2>5, <2>6, ServerAssumption
<1>. QED BY <1>1, QuietDay, PTL

(* What ENTER and VIEW count, EXIT, LEAVE_PAINTING and the end of a connection *)
(* uncount once: the counts are exact while visitors are there and zero when   *)
(* all have gone.                                                              *)
THEOREM CountsCorrect == QuietSpec => []CountsMatchSlots
<1>1. QuietInv => CountsMatchSlots
  <2>. SUFFICES ASSUME QuietInv PROVE CountsMatchSlots
    OBVIOUS
  <2>1. ASSUME NEW p \in Paintings
        PROVE  painting_counts[p] =
                 Cardinality({i \in Slots : slotOf[i] # NoVisitor /\ current_painting[i] = p})
    <3>1. p # -1
      BY VisitorsAssumption DEF Paintings
    <3>2. {i \in Slots : slotOf[i] # NoVisitor /\ current_painting[i] = p} = SlotsBefore(p)
      BY <3>1 DEF QuietInv, SlotsKnow, SlotsBefore
    <3>. QED BY <3>2 DEF QuietInv, PaintingsCounted
  <2>2. ASSUME \A v \in Visitors : link[v] = "over" PROVE current_visitors = 0
    <3>1. ASSUME NEW v \in Visitors PROVE ~Counted(v)
      <4>1. Dialogue(v) /\ link[v] = "over"
        BY <2>2 DEF QuietInv
      <4>. QED BY <4>1, OneMessage DEF Dialogue, Counted, Silent, Asking
    <3>2. {v \in Visitors : Counted(v)} = {}
      BY <3>1
    <3>. QED BY <3>2, FS_EmptySet DEF QuietInv, VisitorsCounted
  <2>. QED BY <2>1, <2>2 DEF CountsMatchSlots
<1>. QED BY <1>1, QuietDay, PTL
================================================================================
