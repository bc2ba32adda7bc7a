---------------------------- MODULE MCTelnyxCalls ----------------------------
(* TelnyxCalls for TLC: one workspace, one event that calls its number, one   *)
(* that calls a number nobody holds, one that is not a call.                  *)
EXTENDS TelnyxCalls, TLC

CONSTANTS t1, stray

MCOwner == [e \in Events |-> IF e = stray THEN NoTenant ELSE t1]

MCSymmetry == Permutations(Handlers)
=============================================================================
