------------------------------ MODULE MCValentine ------------------------------
(***************************************************************************)
(* Valentine with three fans, one logger and one logger_client that also   *)
(* registers.  The fans are alike: their proposals grow from the first to  *)
(* the last; one case has an empty one, another two that the buffer makes  *)
(* equal.  The REGISTER is as long as the buffer allows.                   *)
(***************************************************************************)
EXTENDS Valentine, TLC

CONSTANTS f1, f2, f3, g2

MCFans == {f1, f2, f3}
MCRegistrars == {g2}
Lengths(a, b, c) == (f1 :> a) @@ (f2 :> b) @@ (f3 :> c) @@ (g2 :> 2)
MCProposals == {Lengths(0, 1, 2), Lengths(1, 1, 2), Lengths(1, 2, 3)}
=============================================================================
