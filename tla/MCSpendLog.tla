----------------------------- MODULE MCSpendLog -----------------------------
(* Spends of 2 and a swap's exit of 2 under a daily cap of 3, and a small  *)
(* spend of 1 in a process of its own.                                     *)
EXTENDS SpendLog

CONSTANTS small, first, second, exit, s1, s2, s3

MCAmount == [c \in Calls |-> IF c = small THEN 1 ELSE 2]
MCServer == [c \in Calls |-> CASE c = second -> s2 [] c = small -> s3 [] OTHER -> s1]
=============================================================================
