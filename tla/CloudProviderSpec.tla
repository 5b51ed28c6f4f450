------------------------- MODULE CloudProviderSpec -------------------------
(***************************************************************************)
(* What CloudProvider.EraseAllData promises its client, whatever the auth  *)
(* provider and Firebase do: every call is answered at most once, with     *)
(* AUTH_ERROR or with the status of the Delete, and only by a provider     *)
(* that still exists; when the provider shuts down, the calls it has not   *)
(* answered are dropped and never answered afterwards.                     *)
(***************************************************************************)
EXTENDS Sequences

CONSTANTS
  Reqs,       \* EraseAllData calls the client can make
  Statuses    \* the statuses an answer can carry

VARIABLES
  alive,      \* the provider exists
  calls,      \* Reqs -> "idle", "pending", "answered" or "dropped"
  answers     \* Reqs -> the statuses the client got for that call

Init ==
  /\ alive = TRUE
  /\ calls = [r \in Reqs |-> "idle"]
  /\ answers = [r \in Reqs |-> <<>>]

(* The client calls EraseAllData on a live provider.                       *)
Call(r) ==
  /\ alive
  /\ calls[r] = "idle"
  /\ calls' = [calls EXCEPT ![r] = "pending"]
  /\ UNCHANGED <<alive, answers>>

(* A pending call is answered once, by a live provider.                    *)
Answer(r, s) ==
  /\ alive
  /\ calls[r] = "pending"
  /\ calls' = [calls EXCEPT ![r] = "answered"]
  /\ answers' = [answers EXCEPT ![r] = Append(@, s)]
  /\ UNCHANGED alive

(* The provider goes away, dropping every call still pending.              *)
Shutdown ==
  /\ alive
  /\ alive' = FALSE
  /\ calls' = [r \in Reqs |-> IF calls[r] = "pending" THEN "dropped" ELSE calls[r]]
  /\ UNCHANGED answers

Next ==
  \/ \E r \in Reqs : Call(r)
  \/ \E r \in Reqs, s \in Statuses : Answer(r, s)
  \/ Shutdown

Spec == Init /\ [][Next]_<<alive, calls, answers>>

=============================================================================
