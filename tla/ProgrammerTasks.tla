--------------------------- MODULE ProgrammerTasks ---------------------------
(***************************************************************************)
(* The task codes of "idz os 2", the same in its five programs: an int says*)
(* what its receiver has to do and whose program it is about.              *)
(***************************************************************************)
EXTENDS Integers

CONSTANT NUM_PROGS    \* the number of programmers, 3 in the code

(* A single programmer would never find a reviewer. *)
ASSUME ProgrammersAssumption == NUM_PROGS \in Nat /\ NUM_PROGS >= 2

Progs == 0 .. NUM_PROGS - 1

(* -1 is "write your own program", a < NUM_PROGS "review the program of a",  *)
(* a + NUM_PROGS "review it again".                                          *)
Own == -1
Tasks == Own .. 2 * NUM_PROGS - 1
IsReview(t) == t >= 0 /\ t < NUM_PROGS
IsReReview(t) == t >= NUM_PROGS /\ t < 2 * NUM_PROGS
Author(t) == IF IsReReview(t) THEN t - NUM_PROGS ELSE t

(* The programmer whose program the task t is about, when it is at p. *)
ProgramOf(p, t) == IF t = Own THEN p ELSE Author(t)
=============================================================================
