--------------------------------- MODULE Text ---------------------------------
(***************************************************************************)
(* Userland lib/utils (numbers to text and back) and shell/command_parser.c*)
(* (a line to words).  A string is a sequence of characters, an int has    *)
(* IntBits bits.                                                           *)
(***************************************************************************)
EXTENDS Integers, Sequences, SequencesExt

CONSTANTS
  IntBits,    \* width of an int (32)
  MAX_ARGS    \* words of a command line (32)

ASSUME TextAssumption == IntBits \in Nat \ {0} /\ MAX_ARGS \in Nat \ {0}

IntMin == -(2 ^ (IntBits - 1))
IntMax == 2 ^ (IntBits - 1) - 1

\* Arithmetic on an int: the value modulo 2^IntBits.
Int_(n) == ((n - IntMin) % 2 ^ IntBits) + IntMin

Digit == <<"0", "1", "2", "3", "4", "5", "6", "7", "8", "9">>

IsDigit(c) == \E d \in 1..10 : Digit[d] = c

ValueOf(c) == (CHOOSE d \in 1..10 : Digit[d] = c) - 1

-----------------------------------------------------------------------------
(* Numbers *)

\* The digits that the loop of printf and append_unsigned_to_str leaves: none
\* for 0 and below.
DigitsOf(n) ==
  LET digits[m \in 0..2 ^ IntBits] ==
        IF m = 0 THEN <<>> ELSE Append(digits[m \div 10], Digit[(m % 10) + 1])
  IN  IF n <= 0 THEN <<>> ELSE digits[n]

\* printf("%d"): n = -n overflows for the smallest int.
printf_d(n) ==
  IF n = 0 THEN <<"0">>
  ELSE IF n < 0 THEN <<"-">> \o DigitsOf(Int_(-n))
  ELSE DigitsOf(n)

append_unsigned_to_str(value) == IF value = 0 THEN <<"0">> ELSE DigitsOf(value)

\* Mutant: the magnitude without the detour over -(value + 1).
append_signed_to_str_Negated(value) ==
  IF value < 0 THEN <<"-">> \o append_unsigned_to_str(-value - 1)
  ELSE append_unsigned_to_str(value)

append_signed_to_str(value) ==
  IF value < 0 THEN <<"-">> \o append_unsigned_to_str(-(value + 1) + 1)
  ELSE append_unsigned_to_str(value)

\* The first index from which p holds; one past the end if there is none.
FirstIndex(str, p(_)) ==
  LET S == {i \in 1..Len(str) : p(str[i])} \cup {Len(str) + 1}
  IN  CHOOSE i \in S : \A j \in S : i <= j

\* atoi: white space, a sign, then digits up to the first other character.
atoi(str) ==
  LET first  == FirstIndex(str, LAMBDA c : c \notin {" ", "\t", "\n"})
      sign   == IF first <= Len(str) THEN str[first] ELSE ""
      start  == IF sign \in {"-", "+"} THEN first + 1 ELSE first
      res[i \in 1..Len(str) + 1, r \in IntMin..IntMax] ==
        IF i > Len(str) \/ ~IsDigit(str[i]) THEN r
        ELSE res[i + 1, Int_(r * 10 + ValueOf(str[i]))]
  IN  Int_((IF sign = "-" THEN -1 ELSE 1) * res[start, 0])

-----------------------------------------------------------------------------
(* Words *)

Lower(c) == CASE c = "C" -> "c" [] c = "D" -> "d" [] OTHER -> c

\* fillCommandAndArgs: a space becomes the end of a string, the character
\* after it the start of a word, until there are MAX_ARGS words.
NUL == "end of string"

\* Mutant: a word ends where the next begins only.
Filled_NoEnd(s, i, c) ==
  IF s.argc = MAX_ARGS THEN s
  ELSE IF c = " " THEN [s EXCEPT !.inArg = FALSE]
  ELSE IF ~s.inArg
  THEN [s EXCEPT !.args = Append(@, i), !.argc = @ + 1, !.inArg = TRUE]
  ELSE s

Filled(s, i, c) ==
  IF s.argc = MAX_ARGS THEN s
  ELSE IF c = " " THEN [s EXCEPT !.input[i] = NUL, !.inArg = FALSE]
  ELSE IF ~s.inArg
  THEN [s EXCEPT !.args = Append(@, i), !.argc = @ + 1, !.inArg = TRUE]
  ELSE s

\* The string that starts at i.
StringAt(input, i) ==
  LET rest == SubSeq(input, i, Len(input))
  IN  SubSeq(rest, 1, FirstIndex(rest, LAMBDA c : c = NUL) - 1)

fillCommandAndArgs(input) ==
  LET done == FoldLeftDomain(LAMBDA s, i : Filled(s, i, input[i]),
                             [input |-> input, args |-> <<>>, argc |-> 0, inArg |-> FALSE],
                             input)
  IN  [n \in 1..done.argc |-> StringAt(done.input, done.args[n])]

contains_pipe_symbol(input) == \E i \in 1..Len(input) : input[i] = "|"

=============================================================================
