-------------------------------- MODULE MCTools --------------------------------
(* A small instance of Tools: two levels, two tools that may share a file.     *)
EXTENDS Tools, TLC

MCLower == [t \in Flags \cup Answers |-> IF t = "Key" THEN "key" ELSE t]
=============================================================================
