--------------------------- MODULE LedgerFactory ---------------------------
(***************************************************************************)
(* LedgerFactoryImpl (app/ledger_factory_impl.cc).                         *)
(*                                                                         *)
(* ledger_managers_ is an unordered_map from IdentityPtr to LedgerManager, *)
(* hashed by ArrayHash and compared by ArrayEquals.  Each GetLedger call   *)
(* brings its own Identity object.  A lookup visits the entries whose      *)
(* stored hash equals the key's hash (the standard library keeps each      *)
(* node's hash and compares it before calling the key comparison) and     *)
(* returns the one ArrayEquals accepts.                                    *)
(*                                                                         *)
(* ArrayHash works on size_t.  Its steps (shift, add, xor with a byte)     *)
(* only carry towards the high bits, so the low HashBits bits computed     *)
(* modulo 2^HashBits are exactly the low bits of the real hash.           *)
(***************************************************************************)
EXTENDS Naturals, FiniteSets, Sequences, SequencesExt, Bitwise

CONSTANTS
  UserIds,    \* user ids a client can send (byte arrays)
  AppIds,     \* app ids a client can send (byte arrays)
  MaxCalls,   \* bound on GetLedger calls
  HashBits    \* the low bits of size_t that are computed

Word == 2^HashBits

VARIABLES
  table,   \* ledger_managers_: entries [key, hash, ledger]
  reply,   \* the last reply: [status, ledger], ledger 0 for none
  calls    \* GetLedger calls so far; also numbers their Identity objects

vars == <<table, reply, calls>>

(* One round of djb2 with xor: (h << 5) + h, then ^ b.                     *)
Djb2Step(h, b) == ((h * 32 + h) % Word) ^^ b

(* Mutation of ArrayHash: the hash of the IdentityPtr, not of its bytes.   *)
ArrayHashByPointer(identity) == identity.obj % Word

ArrayHash(identity) ==
  LET user_hash == FoldLeft(Djb2Step, 5381 % Word, identity.user)
      app_hash == FoldLeft(Djb2Step, 5387 % Word, identity.app)
  IN ((user_hash * 32 + user_hash) % Word) ^^ app_hash

ArrayEquals(identity1, identity2) ==
  /\ identity1.user = identity2.user
  /\ identity1.app = identity2.app

(* unordered_map::find.                                                    *)
Find(identity) ==
  {e \in table : e.hash = ArrayHash(identity) /\ ArrayEquals(e.key, identity)}

Init ==
  /\ table = {}
  /\ reply = [status |-> "NONE", ledger |-> 0]
  /\ calls = 0

(* Mutation of GetLedger: refused only when both ids are empty.            *)
GetLedgerBothEmpty(u, a) ==
  /\ calls < MaxCalls
  /\ calls' = calls + 1
  /\ LET identity == [user |-> u, app |-> a, obj |-> calls + 1]
     IN IF u = <<>> /\ a = <<>>
          THEN /\ reply' = [status |-> "AUTHENTICATION_ERROR", ledger |-> 0]
               /\ UNCHANGED table
          ELSE IF Find(identity) # {}
            THEN /\ reply' = [status |-> "OK", ledger |-> (CHOOSE e \in Find(identity) : TRUE).ledger]
                 /\ UNCHANGED table
            ELSE LET m == Cardinality(table) + 1
                 IN /\ table' = table \cup {[key |-> identity, hash |-> ArrayHash(identity), ledger |-> m]}
                    /\ reply' = [status |-> "OK", ledger |-> m]

(* GetLedger: AUTHENTICATION_ERROR for an empty user or app id; the        *)
(* existing manager's ledger if find() succeeds; otherwise a new           *)
(* LedgerManager on its own LedgerStorageImpl is inserted and its ledger   *)
(* returned.                                                               *)
GetLedger(u, a) ==
  /\ calls < MaxCalls
  /\ calls' = calls + 1
  /\ LET identity == [user |-> u, app |-> a, obj |-> calls + 1]
     IN IF u = <<>> \/ a = <<>>
          THEN /\ reply' = [status |-> "AUTHENTICATION_ERROR", ledger |-> 0]
               /\ UNCHANGED table
          ELSE IF Find(identity) # {}
            THEN /\ reply' = [status |-> "OK", ledger |-> (CHOOSE e \in Find(identity) : TRUE).ledger]
                 /\ UNCHANGED table
            ELSE LET m == Cardinality(table) + 1
                 IN /\ table' = table \cup {[key |-> identity, hash |-> ArrayHash(identity), ledger |-> m]}
                    /\ reply' = [status |-> "OK", ledger |-> m]

Next == \E u \in UserIds, a \in AppIds : GetLedger(u, a)

Spec == Init /\ [][Next]_vars

-----------------------------------------------------------------------------
(* The identities the table holds, as (user id, app id) pairs.             *)
Ids == {[user |-> e.key.user, app |-> e.key.app] : e \in table}

Abstract == INSTANCE LedgerFactorySpec WITH
  ledgers <- [i \in Ids |->
                (CHOOSE e \in table : e.key.user = i.user /\ e.key.app = i.app).ledger]

(* Properties                                                              *)

(* The table never holds two managers for equal identities: each           *)
(* identity's hash, computed when it is looked up, finds the entry that   *)
(* was inserted under another Identity object with the same bytes.         *)
OneManagerPerIdentity ==
  \A e1, e2 \in table : ArrayEquals(e1.key, e2.key) => e1 = e2

(* GetLedger implements LedgerFactorySpec: refusal of empty ids, one       *)
(* ledger per (user id, app id), the same ledger on every later call.      *)
ImplementsLedgerFactorySpec == Abstract!Spec

=============================================================================
