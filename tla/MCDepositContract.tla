------------------------- MODULE MCDepositContract -------------------------
(* DepositContract with two depositors and the endpoint, deposits of 0 to 2 *)
(* against a uint256 scaled to 5, so that totals overflow.                 *)
EXTENDS DepositContract

MCAmounts == 0..2
====
