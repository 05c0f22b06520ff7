------------------------------- MODULE Align -------------------------------
(***************************************************************************)
(* The rounding every layout decision of elfpe goes through: roundup in    *)
(* src/elfpe/util.cpp.  It computes (value + round - 1) & ~(round - 1) in   *)
(* a uint32_t.  For a power of two the mask clears the remainder, which is *)
(* how it is written here; MCFunctions compares that with the mask itself.  *)
(***************************************************************************)
EXTENDS Integers

CONSTANT Word      \* the number of values of a uint32_t (2^32 in the code)

ASSUME WordAssumption == Word \in Nat \ {0}

RoundupWide(value, round) ==                               \* mutated
  LET top == value + round - 1
  IN  top - (top % round)

Roundup(value, round) ==
  LET top == (value + round - 1) % Word
  IN  top - (top % round)

\* result is the least multiple of round that is not below value; above the last
\* multiple in the word there is none, the sum wraps and the result is 0.
LeastMultiple(value, round, result) ==
  LET multiples == {m \in value..(Word - 1) : m % round = 0}
  IN  result = IF multiples = {} THEN 0 ELSE CHOOSE m \in multiples : \A n \in multiples : m <= n

=============================================================================
