------------------------------- MODULE Numbers -------------------------------
(* Powers of two, which shifts, masks and widths are made of.                  *)
EXTENDS Integers

(* 2 ** w                                                                      *)
Pow2(w) == LET power[k \in 0 .. w] == IF k = 0 THEN 1 ELSE 2 * power[k - 1] IN power[w]
=============================================================================
