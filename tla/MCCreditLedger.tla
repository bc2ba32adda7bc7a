--------------------------- MODULE MCCreditLedger ---------------------------
(* CreditLedger for TLC. The amounts and the integer width are small enough   *)
(* for the width to be reached by grants alone and by grants and calls mixed. *)
EXTENDS CreditLedger, TLC

MCSymmetry == Permutations(Tenants) \cup Permutations(Grants)
=============================================================================
