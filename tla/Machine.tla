------------------------------- MODULE Machine -------------------------------
(***************************************************************************)
(* What C++ does with whole numbers: division that truncates towards zero, *)
(* a remainder with the sign of the dividend, and two's complement.        *)
(***************************************************************************)
EXTENDS Integers

\* For m > 0.
Quotient(x, m) == IF x < 0 THEN -((-x) \div m) ELSE x \div m
Remainder(x, m) == IF x < 0 THEN -((-x) % m) ELSE x % m

\* x in a type of `size` values: the one of them that is x modulo size.
Truncated(x, size) == ((x + size \div 2) % size) - size \div 2
=============================================================================
