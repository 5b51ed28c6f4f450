----------------------------- MODULE DiffPaging -----------------------------
(***************************************************************************)
(* Collecting a paginated diff of a resolution session.                     *)
(*                                                                         *)
(* The client is the test's ResolveRequest::GetDiff loop                   *)
(* (bin/ledger/tests/integration/merging_tests.cc): it calls GetFullDiff   *)
(* or GetConflictingDiff with a token, waits for the reply, fails on a     *)
(* status other than OK or PARTIAL_RESULT or on a token that does not pair *)
(* with the status, appends the page, and goes on while a token comes      *)
(* back; at the end it requires min_queries queries.                       *)
(*                                                                         *)
(* The server is the ledger's diff engine, which is not in this            *)
(* repository: it is modelled from spec.md 4.3.  It serves the diff of     *)
(* the session's fixed (base, left, right) in ascending key order, in      *)
(* pages of any size it likes, with a token (here the position of the next *)
(* entry) on every page but the last.  Deleting the page makes later diff  *)
(* calls fail, and the channel to the result provider can close.           *)
(***************************************************************************)
EXTENDS Naturals, Sequences, SequencesExt

CONSTANTS
  Keys,        \* keys of the page: 1 .. n, in key order
  Vals,        \* values a key can hold
  NONE,        \* no value (absent key) / no token
  Bases,       \* the common ancestors a session can have
  MaxPage,     \* the largest page the engine sends
  MinQueries   \* the min_queries argument

ASSUME Keys \subseteq Nat /\ NONE \notin Vals

Versions == [Keys -> Vals \cup {NONE}]

(* ++num_queries, saturating at MinQueries.                                *)
CountUp(n) == IF n < MinQueries THEN n + 1 ELSE n

VARIABLES
  base, left, right,  \* the session's fixed commits
  mode,               \* "FULL" (GetFullDiff) or "CONFLICTING" (GetConflictingDiff)
  token,              \* the token the next call sends; NONE is nullptr
  entries,            \* the entries collected so far
  numQueries,         \* num_queries, counted up to MinQueries (the loop
                      \* only compares it with min_queries)
  partials,           \* PARTIAL_RESULT replies, counted up to MinQueries
  response,           \* the reply on its way: [status, page, next], or NONE
  pc,                 \* "call", "wait", "ok" or "failed"
  pageAlive,          \* DeletePage was not called
  closed              \* the channel to the result provider closed

vars == <<base, left, right, mode, token, entries, numQueries, partials,
          response, pc, pageAlive, closed>>

-----------------------------------------------------------------------------
(* The diff engine (spec.md 4.3)                                           *)

Entry(k) == [key |-> k, base |-> base[k], left |-> left[k], right |-> right[k]]

Changed(k, side) == side[k] # base[k]

(* FULL: every key either side changed; CONFLICTING_ONLY: keys both sides  *)
(* changed, to different values.                                           *)
DiffKeys ==
  IF mode = "FULL"
    THEN {k \in Keys : Changed(k, left) \/ Changed(k, right)}
    ELSE {k \in Keys : Changed(k, left) /\ Changed(k, right) /\ left[k] # right[k]}

Diff == [i \in 1 .. Cardinality(DiffKeys) |-> Entry(SetToSortSeq(DiffKeys, <)[i])]

(* Mutation of Reply: a page that ends exactly at the end of the diff is  *)
(* marked PARTIAL_RESULT.                                                   *)
ReplyLastPagePartial(from, size) ==
  LET last == IF from - 1 + size < Len(Diff) THEN from - 1 + size ELSE Len(Diff)
  IN [status |-> IF from - 1 + size <= Len(Diff) /\ Len(Diff) > 0
                   THEN "PARTIAL_RESULT" ELSE "OK",
      page |-> SubSeq(Diff, from, last),
      next |-> IF last < Len(Diff) THEN last + 1 ELSE NONE]

(* The reply to a diff call for the entries from position `from`, in a    *)
(* page of at most `size` entries.                                         *)
Reply(from, size) ==
  LET last == IF from - 1 + size < Len(Diff) THEN from - 1 + size ELSE Len(Diff)
  IN [status |-> IF last < Len(Diff) THEN "PARTIAL_RESULT" ELSE "OK",
      page |-> SubSeq(Diff, from, last),
      next |-> IF last < Len(Diff) THEN last + 1 ELSE NONE]

(* Mutation of Respond: the engine may send an empty page that keeps the   *)
(* token where it was.                                                      *)
RespondEmptyPages ==
  /\ pc = "wait" /\ response = NONE
  /\ IF pageAlive
       THEN \E size \in 0 .. MaxPage :
              response' = IF size = 0 /\ token # NONE
                            THEN [status |-> "PARTIAL_RESULT", page |-> <<>>, next |-> token]
                            ELSE Reply(IF token = NONE THEN 1 ELSE token, size)
       ELSE response' = [status |-> "NOT_FOUND", page |-> <<>>, next |-> NONE]
  /\ UNCHANGED <<base, left, right, mode, token, entries, numQueries, partials,
                 pc, pageAlive, closed>>

(* The engine answers the outstanding call; a deleted page answers        *)
(* NOT_FOUND.                                                              *)
Respond ==
  /\ pc = "wait" /\ response = NONE
  /\ IF pageAlive
       THEN \E size \in 1 .. MaxPage :
              response' = Reply(IF token = NONE THEN 1 ELSE token, size)
       ELSE response' = [status |-> "NOT_FOUND", page |-> <<>>, next |-> NONE]
  /\ UNCHANGED <<base, left, right, mode, token, entries, numQueries, partials,
                 pc, pageAlive, closed>>

DeletePage ==
  /\ pageAlive
  /\ pageAlive' = FALSE
  /\ UNCHANGED <<base, left, right, mode, token, entries, numQueries, partials,
                 response, pc, closed>>

-----------------------------------------------------------------------------
(* The client: ResolveRequest::GetDiff                                     *)

Init ==
  /\ base \in Bases
  /\ left \in Versions
  /\ right \in Versions
  /\ mode \in {"FULL", "CONFLICTING"}
  /\ token = NONE
  /\ entries = <<>>
  /\ numQueries = 0
  /\ partials = 0
  /\ response = NONE
  /\ pc = "call"
  /\ pageAlive = TRUE
  /\ closed = FALSE

(* get_diff(token, callback): GetFullDiff or GetConflictingDiff.           *)
Call ==
  /\ pc = "call"
  /\ pc' = "wait"
  /\ UNCHANGED <<base, left, right, mode, token, entries, numQueries, partials,
                 response, pageAlive, closed>>

(* Mutation of Received: the token is cleared before it is moved.          *)
ReceivedTokenCleared ==
  /\ pc = "wait" /\ response # NONE
  /\ entries' = entries \o response.page
  /\ response' = NONE
  /\ IF response.status \notin {"OK", "PARTIAL_RESULT"}
          \/ (response.next = NONE) # (response.status = "OK")
       THEN /\ pc' = "failed"
            /\ UNCHANGED <<token, numQueries, partials>>
       ELSE /\ numQueries' = CountUp(numQueries)
            /\ partials' = IF response.status = "PARTIAL_RESULT" THEN CountUp(partials) ELSE partials
            /\ token' = NONE
            /\ pc' = IF numQueries + 1 < MinQueries THEN "failed" ELSE "ok"
  /\ UNCHANGED <<base, left, right, mode, pageAlive, closed>>

(* WaitForIncomingResponse returns with the reply: the callback appends    *)
(* the page and keeps status and next_token; the loop then checks the      *)
(* status, checks that a token comes exactly with PARTIAL_RESULT, counts   *)
(* the query, and either calls again with the token or ends by checking    *)
(* min_queries.                                                            *)
Received ==
  /\ pc = "wait" /\ response # NONE
  /\ entries' = entries \o response.page
  /\ response' = NONE
  /\ IF response.status \notin {"OK", "PARTIAL_RESULT"}
          \/ (response.next = NONE) # (response.status = "OK")
       THEN /\ pc' = "failed"
            /\ UNCHANGED <<token, numQueries, partials>>
       ELSE /\ numQueries' = CountUp(numQueries)
            /\ partials' = IF response.status = "PARTIAL_RESULT" THEN CountUp(partials) ELSE partials
            /\ token' = response.next
            /\ pc' = CASE response.next # NONE -> "call"
                       [] numQueries + 1 < MinQueries -> "failed"
                       [] OTHER -> "ok"
  /\ UNCHANGED <<base, left, right, mode, pageAlive, closed>>

(* WaitForIncomingResponse returns false: the channel closed.              *)
ConnectionLost ==
  /\ pc = "wait"
  /\ pc' = "failed"
  /\ closed' = TRUE
  /\ response' = NONE
  /\ UNCHANGED <<base, left, right, mode, token, entries, numQueries, partials,
                 pageAlive>>

Next ==
  \/ Call
  \/ Respond
  \/ Received
  \/ DeletePage
  \/ ConnectionLost

(* The client loop runs to its end and the page's event loop answers each  *)
(* call; deletion and channel loss are not assumed.                        *)
Fairness == WF_vars(Call) /\ WF_vars(Respond) /\ WF_vars(Received)

Spec == Init /\ [][Next]_vars /\ Fairness

-----------------------------------------------------------------------------
(* The abstract diff: one call that returns every entry at once.           *)
Abstract == INSTANCE DiffSpec WITH
  result <- CASE pc = "ok" -> "ok" [] pc = "failed" -> "failed" [] OTHER -> "pending",
  collected <- IF pc = "ok" THEN entries ELSE <<>>,
  expected <- Diff

(* Properties                                                              *)

(* The paging loop implements the one-shot diff: when it succeeds, the     *)
(* entries it collected are the session's whole diff, in key order, each   *)
(* once, whatever page sizes the engine chose.                             *)
ImplementsDiffSpec == Abstract!Spec

(* The loop only fails when the page was deleted or the channel closed:    *)
(* the engine's pairing of tokens and statuses never trips the client's    *)
(* check, and min_queries is met.                                          *)
FailsOnlyOnError == pc = "failed" => ~pageAlive \/ closed

(* The loop always ends, in success or failure: every page the engine      *)
(* sends moves the token forward.                                          *)
Terminates == <>(pc \in {"ok", "failed"})

(* The comment on ResolveRequest::GetFullDiff: the loop "makes sure that   *)
(* at least |min_queries| of partial results are returned before           *)
(* retrieving the complete result".  So a successful GetDiff saw at least  *)
(* min_queries PARTIAL_RESULT replies.                                     *)
CommentMinQueriesArePartial == pc = "ok" => partials >= MinQueries

=============================================================================
