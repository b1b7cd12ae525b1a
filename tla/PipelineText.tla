------------------------------ MODULE PipelineText ------------------------------
(***************************************************************************)
(* The texts of the number pipelines ("idz os 1") and what is computed     *)
(* from them.  A text is a sequence of cells: the digits 0..9 and one      *)
(* separator that stands for every other character.  An answer begins with *)
(* one cell that stands for its heading "there are n numbers: ".           *)
(*                                                                         *)
(* Numbers fit an int: atoi of a longer run of digits is undefined.        *)
(***************************************************************************)
EXTENDS Integers, Sequences, FiniteSets, FiniteSetsExt, Functions

Digits == 0..9
SEP == -1
Cells == Digits \cup {SEP}
COMMA == -2
NUL == -3
Heading(count) == -10 - count

(* What strlen, strcpy, strcat and the loops over a string see of it.          *)
CString(cells) ==
  LET ends == {i \in DOMAIN cells : cells[i] = NUL}
  IN  IF ends = {} THEN cells ELSE SubSeq(cells, 1, Min(ends) - 1)

First(n, cells) == SubSeq(cells, 1, Min({n, Len(cells)}))
Rest(n, cells) == SubSeq(cells, n + 1, Len(cells))
Zeros(n) == [i \in 1..n |-> NUL]

(* atoi: leading zeros do not count. *)
Atoi(run) ==
  LET value[n \in 0..Len(run)] == IF n = 0 THEN 0 ELSE 10 * value[n - 1] + run[n]
  IN  value[Len(run)]

(* The digits in hand after n characters. *)
CurStr(string, n) ==
  LET curstr[i \in 0..n] == IF i > 0 /\ string[i] \in Digits THEN Append(curstr[i - 1], string[i])
                            ELSE <<>>
  IN  curstr[n]

(* Mutant: the number at the end of the text is forgotten. *)
ForgetsLast(string) ==
  LET ans[n \in 0..Len(string)] ==
        IF n = 0 THEN <<>>
        ELSE IF string[n] \in Digits \/ CurStr(string, n - 1) = <<>> THEN ans[n - 1]
        ELSE Append(ans[n - 1], Atoi(CurStr(string, n - 1)))
  IN  ans[Len(string)]

(* A number is there when a character ends its digits, or the string does. *)
FindAllNumbers(string) ==
  LET ans[n \in 0..Len(string) + 1] ==
        IF n = 0 THEN <<>>
        ELSE IF n <= Len(string) /\ string[n] \in Digits THEN ans[n - 1]
        ELSE IF CurStr(string, n - 1) = <<>> THEN ans[n - 1]
        ELSE Append(ans[n - 1], Atoi(CurStr(string, n - 1)))
  IN  ans[Len(string) + 1]

(* sprintf("%d"). *)
Decimal(n) ==
  LET decimal[m \in 0..n] == IF m < 10 THEN <<m>> ELSE Append(decimal[m \div 10], m % 10)
  IN  decimal[n]

MakeString(numbers) ==
  LET first[n \in DOMAIN numbers] ==
        (IF n = 1 THEN <<Heading(Len(numbers))>> ELSE first[n - 1] \o <<COMMA, SEP>>)
          \o Decimal(numbers[n])
  IN  IF numbers = <<>> THEN <<Heading(0)>> ELSE first[Len(numbers)]
----------------------------------------------------------------------------
(* The same, said without a scan: the values of the longest runs of digits.    *)
PowerOfTen(n) ==
  LET power[k \in 0..n] == IF k = 0 THEN 1 ELSE 10 * power[k - 1]
  IN  power[n]

Value(digits) == SumFunction([i \in DOMAIN digits |-> digits[i] * PowerOfTen(Len(digits) - i)])

NumbersOf(text) ==
  LET starts == {i \in DOMAIN text : text[i] \in Digits /\ (i = 1 \/ text[i - 1] \notin Digits)}
      Run(i) == SubSeq(text, i, Max({j \in i..Len(text) : \A k \in i..j : text[k] \in Digits}))
      Start(n) == CHOOSE i \in starts : Cardinality({j \in starts : j < i}) = n - 1
  IN  [n \in 1..Cardinality(starts) |-> Value(Run(Start(n)))]
=============================================================================
