------------------------------ MODULE MCI2CDxe ------------------------------
(* Transfers for small instances of I2CDxe.                                *)
EXTENDS I2CDxe

W(n) == [rd |-> FALSE, len |-> n]
R(n) == [rd |-> TRUE, len |-> n]

\* Every length at which the handler takes another path: an address alone, one
\* byte and more of them, and reads of one, two and three bytes.
ShortTransfers ==
  {<<W(0)>>, <<W(1)>>, <<W(3)>>, <<W(1), R(1)>>, <<W(1), R(2)>>, <<W(1), R(3)>>}
=============================================================================
