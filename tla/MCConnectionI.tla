--------------------------- MODULE MCConnectionI ---------------------------
(* Instances of ConnectionI for TLC.                                       *)
EXTENDS ConnectionI, TLC

CONSTANTS r1, b1

\* The two-way request r1 has one invocation, the batch b1 has two.
MCInvokeNum == [r \in Reqs |-> IF r = b1 THEN 2 ELSE 1]
=============================================================================
