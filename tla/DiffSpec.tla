------------------------------ MODULE DiffSpec ------------------------------
(***************************************************************************)
(* What a resolver gets from GetFullDiff / GetConflictingDiff once all     *)
(* pages are collected (spec.md 4.3, P3): the session's whole diff, in     *)
(* ascending key order, each entry once; or a failure.                     *)
(***************************************************************************)
VARIABLES
  expected,   \* the session's diff; fixed for the session
  result,     \* "pending", "ok" or "failed"
  collected   \* the entries handed to the caller

Init ==
  /\ result = "pending"
  /\ collected = <<>>

Complete ==
  /\ result = "pending"
  /\ result' = "ok"
  /\ collected' = expected
  /\ UNCHANGED expected

Fail ==
  /\ result = "pending"
  /\ result' = "failed"
  /\ UNCHANGED <<expected, collected>>

Spec == Init /\ [][Complete \/ Fail]_<<expected, result, collected>>

=============================================================================
