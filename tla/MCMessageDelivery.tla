-------------------------- MODULE MCMessageDelivery --------------------------
(* MessageDelivery for TLC. One text and two inbound records race for the     *)
(* last places under the limit; the records are interchangeable.              *)
EXTENDS MessageDelivery, TLC

MCSymmetry == Permutations(Records)
=============================================================================
