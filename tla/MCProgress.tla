------------------------------ MODULE MCProgress ------------------------------
(* A small instance of Progress.  "Key" and "key" are one flag in two cases;  *)
(* "rune" is another flag, and a wrong answer for the first.                  *)
EXTENDS Progress, TLC

MCLower == [t \in Flags \cup Answers |-> IF t = "Key" THEN "key" ELSE t]

Symmetry == Permutations(Users) \cup Permutations(Requests)
=============================================================================
