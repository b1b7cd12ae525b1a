--------------------------- MODULE TaskCirculation ---------------------------
(***************************************************************************)
(* What the programmers of "idz os 2" promise, however their queues and    *)
(* semaphores work: every programmer has one program in circulation.  It   *)
(* is with its author, or under review by another programmer; a program    *)
(* found incorrect stays with the same reviewer until it is approved.      *)
(***************************************************************************)
CONSTANT Progs      \* the programmers

VARIABLE place      \* where the program of each programmer is

WithAuthor(g) == [at |-> "author", by |-> g]

Init == place = [g \in Progs |-> WithAuthor(g)]

Submit(g, r) ==
  /\ place[g].at = "author"
  /\ r # g
  /\ place' = [place EXCEPT ![g] = [at |-> "review", by |-> r]]

Approve(g) ==
  /\ place[g].at # "author"
  /\ place' = [place EXCEPT ![g] = WithAuthor(g)]

Reject(g) ==
  /\ place[g].at = "review"
  /\ place' = [place EXCEPT ![g].at = "rereview"]

Next == \E g \in Progs :
  Approve(g) \/ Reject(g) \/ \E r \in Progs : Submit(g, r)

(* A written program is submitted and a program under review is approved. *)
Fairness ==
  \A g \in Progs : /\ WF_place(\E r \in Progs : Submit(g, r))
                   /\ WF_place(Approve(g))

Spec == Init /\ [][Next]_place
FairSpec == Spec /\ Fairness
=============================================================================
