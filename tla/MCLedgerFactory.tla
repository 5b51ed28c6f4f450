--------------------------- MODULE MCLedgerFactory ---------------------------
EXTENDS LedgerFactory

(* Empty, one-byte and two-byte ids, so that both refusals, equal ids in   *)
(* separate Identity objects, and ids sharing a user or an app all occur.  *)
MCUserIds == {<<>>, <<1>>, <<2>>}
MCAppIds == {<<>>, <<1>>, <<7, 7>>}
=============================================================================
