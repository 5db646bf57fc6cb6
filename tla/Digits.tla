------------------------------- MODULE Digits -------------------------------
(***************************************************************************)
(* Numbers and their digits, the least significant first: what             *)
(* to_le_bytes and from_le_bytes do in the base of a byte, and what the    *)
(* bits of a byte are in base 2.                                           *)
(***************************************************************************)
EXTENDS Integers, Sequences

Power(base, n) ==
  LET power[i \in 0..n] == IF i = 0 THEN 1 ELSE base * power[i - 1]
  IN power[n]

\* The lowest digits of n; of a negative one, those of its two's complement.
Digits(n, base, width) ==
  LET quotient[i \in 0..width] == IF i = 0 THEN n ELSE quotient[i - 1] \div base
  IN [i \in 1..width |-> quotient[i - 1] % base]

\* Horner's rule, from the highest digit down.
Number(digits, base) ==
  LET width == Len(digits)
      value[i \in 0..width] ==
        IF i = 0 THEN 0 ELSE digits[width + 1 - i] + base * value[i - 1]
  IN value[width]
=============================================================================
