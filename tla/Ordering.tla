------------------------------ MODULE Ordering ------------------------------
(* core::cmp::Ordering, by what `as i8` makes of its variants.             *)
EXTENDS Integers

Less == -1
Equal == 0
Greater == 1
=============================================================================
