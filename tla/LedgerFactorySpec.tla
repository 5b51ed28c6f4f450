------------------------- MODULE LedgerFactorySpec -------------------------
(***************************************************************************)
(* What LedgerFactory.GetLedger promises: an identity with an empty user   *)
(* id or app id is refused with AUTHENTICATION_ERROR; otherwise the        *)
(* caller gets the ledger of that (user id, app id), the same one for      *)
(* every call with equal ids, and a new one the first time.                *)
(***************************************************************************)
EXTENDS Naturals, FiniteSets

CONSTANTS
  UserIds,   \* user ids a client can send (byte arrays)
  AppIds,    \* app ids a client can send (byte arrays)
  MaxCalls   \* bound on GetLedger calls

VARIABLES
  ledgers,   \* [user, app] -> the ledger (manager number) serving it
  reply,     \* the last reply: [status, ledger], ledger 0 for none
  calls      \* GetLedger calls so far

Empty(s) == s = <<>>

Init ==
  /\ ledgers = [i \in {} |-> 0]
  /\ reply = [status |-> "NONE", ledger |-> 0]
  /\ calls = 0

GetLedger(u, a) ==
  /\ calls < MaxCalls
  /\ calls' = calls + 1
  /\ LET id == [user |-> u, app |-> a]
         new == Cardinality(DOMAIN ledgers) + 1
     IN \/ /\ Empty(u) \/ Empty(a)
           /\ reply' = [status |-> "AUTHENTICATION_ERROR", ledger |-> 0]
           /\ UNCHANGED ledgers
        \/ /\ ~Empty(u) /\ ~Empty(a)
           /\ id \in DOMAIN ledgers
           /\ reply' = [status |-> "OK", ledger |-> ledgers[id]]
           /\ UNCHANGED ledgers
        \/ /\ ~Empty(u) /\ ~Empty(a)
           /\ id \notin DOMAIN ledgers
           /\ ledgers' = [i \in DOMAIN ledgers \cup {id} |->
                            IF i = id THEN new ELSE ledgers[i]]
           /\ reply' = [status |-> "OK", ledger |-> new]

Next == \E u \in UserIds, a \in AppIds : GetLedger(u, a)

Spec == Init /\ [][Next]_<<ledgers, reply, calls>>

=============================================================================
