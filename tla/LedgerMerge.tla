---------------------------- MODULE LedgerMerge ----------------------------
(***************************************************************************)
(* Conflict resolution of one Ledger page.                                 *)
(*                                                                         *)
(* The page keeps an append-only DAG of commits.  Page connections open a  *)
(* transaction on the commit their branch is at and commit one change on   *)
(* top of it, so two connections that committed from the same commit leave *)
(* the page with two heads.  The page's merge resolver then merges two     *)
(* heads, either by itself (LAST_ONE_WINS, or AUTOMATIC_WITH_FALLBACK when *)
(* no key conflicts) or through a resolution session with a resolver that  *)
(* the ledger's ConflictResolverFactory hands out.  The factory can be     *)
(* replaced at any time; a resolver can disconnect; the page can be        *)
(* deleted; a watcher per connection is told of every commit the           *)
(* connection's branch moves to.                                           *)
(*                                                                         *)
(* The ledger side (commit store, heads, merge resolver, sessions) has no  *)
(* source in this repository and follows spec.md, corrected where the      *)
(* integration tests of merging_tests.cc show different behaviour.  The    *)
(* factory, the resolver and the watcher follow the test doubles of        *)
(* merging_tests.cc.                                                       *)
(***************************************************************************)
EXTENDS Naturals, Sequences, FiniteSetsExt

CONSTANTS
  Conn,              \* page connections (page1, page2 of the tests)
  Keys,              \* keys of the page
  Vals,              \* values a Put or a NEW merged value writes
  NONE,              \* absent value / no session / no strategy
  MaxLocalCommits,   \* bound on commits made by connections
  MaxFactories,      \* bound on SetConflictResolverFactory calls
  MaxResolverErrors, \* bound on resolver disconnections
  Waiters,           \* connections that call WaitForConflictResolution
  FactoryPolicies,   \* policies the factories set in a run answer GetPolicy with
  UseDummy           \* set_use_dummy_resolver settings the factories can have

ASSUME NONE \notin Vals
ASSUME Waiters \subseteq Conn
ASSUME MaxLocalCommits \in Nat /\ MaxFactories \in Nat /\ MaxResolverErrors \in Nat

Policies == {"LAST_ONE_WINS", "CUSTOM", "AUTOMATIC_WITH_FALLBACK"}

ASSUME FactoryPolicies \subseteq Policies
ASSUME UseDummy \subseteq BOOLEAN

(* The ValueSource of a MergedValue the tests send: RIGHT, DELETE, NEW.    *)
Sources == {[source |-> "RIGHT"], [source |-> "DELETE"]}
           \cup {[source |-> "NEW", value |-> v] : v \in Vals}

UNSET == "UNSET"   \* a journal entry no merged value has set

VARIABLES
  store,       \* Seq of commits [parents, gen, entries, origin]
  branch,      \* [Conn -> commit] the commit each connection, and the
               \* watcher registered on it, last saw
  factory,     \* number of factories set so far (0: none, default policy)
  policyOf,    \* [1..MaxFactories -> Policies \cup {NONE}] policy of each factory
  dummies,     \* the factories that hand out DummyConflictResolvers
  pendingPolicy, \* factories whose GetPolicy reply is still on its way
  strategy,    \* NONE or [gen, policy]: the page's merge strategy
  resolvers,   \* Seq of [gen, live, requests]: resolvers handed out
  session,     \* NONE or the open resolution session
  sessions,    \* number of sessions opened so far (session ids)
  held,        \* ids of the sessions whose result provider a resolver holds
  errors,      \* resolver disconnections so far
  alive,       \* the page is not deleted
  waits        \* [Conn -> state of WaitForConflictResolution]

vars == <<store, branch, factory, policyOf, dummies, pendingPolicy,
          strategy, resolvers, session, sessions, held, errors, alive, waits>>

-----------------------------------------------------------------------------
(* Commit store and head tracker                                            *)

E(i) == store[i].entries

Commits == 1 .. Len(store)

Heads == {i \in Commits : \A j \in Commits : i \notin store[j].parents}

RECURSIVE AncestorsOf(_, _)
AncestorsOf(st, i) == UNION {{p} \cup AncestorsOf(st, p) : p \in st[i].parents}

Ancestors(i) == AncestorsOf(store, i)

(* Append(commit): the generation is max(parent generations) + 1.         *)
NewCommit(parents, entries, origin) ==
  [parents |-> parents,
   gen     |-> 1 + Max({store[p].gen : p \in parents}),
   entries |-> entries,
   origin  |-> origin]

(* Merge base: of the common ancestors, the one with the highest           *)
(* generation, ties broken by the smallest identifier.                     *)
MergeBase(l, r) ==
  LET common == ({l} \cup Ancestors(l)) \cap ({r} \cup Ancestors(r))
      top    == Max({store[a].gen : a \in common})
  IN  Min({a \in common : store[a].gen = top})

(* Keys a side changed relative to the base.                               *)
Changed(side, b) == {k \in Keys : E(side)[k] # E(b)[k]}

(* Keys changed on both sides to different values.                         *)
Conflicting(l, r, b) ==
  {k \in Changed(l, b) \cap Changed(r, b) : E(l)[k] # E(r)[k]}

(* The automatic merge: a key the left (most recent) head changed keeps    *)
(* the left value, any other key takes the right value.  This is the       *)
(* LAST_ONE_WINS result (the most recent change wins a conflict), and the  *)
(* union of both sides' changes when nothing conflicts.                    *)
AutoMerged(l, r, b) ==
  [k \in Keys |-> IF k \in Changed(l, b) THEN E(l)[k] ELSE E(r)[k]]

(* MergeNonConflictingEntries: the right side's changes on keys the left   *)
(* side left alone.                                                        *)
NonConflicting(j, l, r, b) ==
  [k \in Keys |-> IF k \in Changed(r, b) \ Changed(l, b) THEN E(r)[k] ELSE j[k]]

EmptyJournal == [k \in Keys |-> UNSET]

(* Done(): the left head's entries overridden by the merged values.        *)
Applied(l, j) == [k \in Keys |-> IF j[k] = UNSET THEN E(l)[k] ELSE j[k]]

Resolved == Cardinality(Heads) = 1 /\ session = NONE

CurrentResolver == Len(resolvers)

LocalCommits == Cardinality({i \in Commits : store[i].origin = "local"})

-----------------------------------------------------------------------------
(* Mutation of Resolve: the request is not kept.                          *)
ResolveForgetsRequest(rid, sid) ==
  /\ resolvers' = [resolvers EXCEPT ![rid].requests = @ + 1]
  /\ held' = held

(* ConflictResolverImpl::Resolve of the test keeps the request;            *)
(* DummyConflictResolver::Resolve drops it and never answers.              *)
Resolve(rid, sid) ==
  /\ resolvers' = [resolvers EXCEPT ![rid].requests = @ + 1]
  /\ held' = IF resolvers[rid].dummy THEN held ELSE held \cup {sid}

(* TestConflictResolverFactory::NewConflictResolver: a new resolver bound  *)
(* to the page, from factory g; a DummyConflictResolver when g was set to  *)
(* use_dummy_resolver.                                                      *)
NewConflictResolver(rs, g) ==
  Append(rs, [gen |-> g, live |-> TRUE, requests |-> 0, dummy |-> g \in dummies])

(* The connection error handler of ConflictResolverImpl sets              *)
(* disconnected; the ledger closes the binding of the current resolver.    *)
Disconnect(rs) ==
  IF rs = <<>> THEN rs ELSE [rs EXCEPT ![Len(rs)].live = FALSE]

-----------------------------------------------------------------------------
Init ==
  /\ store = << [parents |-> {}, gen |-> 0,
                 entries |-> [k \in Keys |-> NONE], origin |-> "root"] >>
  /\ branch = [c \in Conn |-> 1]
  /\ factory = 0
  /\ policyOf = [g \in 1 .. MaxFactories |-> NONE]
  /\ dummies = {}
  /\ pendingPolicy = {}
  /\ strategy = [gen |-> 0, policy |-> "LAST_ONE_WINS"]
  /\ resolvers = <<>>
  /\ session = NONE
  /\ sessions = 0
  /\ held = {}
  /\ errors = 0
  /\ alive = TRUE
  /\ waits = [c \in Waiters |-> "idle"]

(* Page.StartTransaction, Page.Put (or Page.Delete, v = NONE) and        *)
(* Page.Commit: the commit is appended on the commit the connection is at, *)
(* the branch moves to it and the watcher gets OnChange for it.  A        *)
(* transaction is based on the commit its connection saw last, so two      *)
(* connections that have not yet seen each other's commits fork the page. *)
Commit(c, k, v) ==
  /\ alive
  /\ LocalCommits < MaxLocalCommits
  /\ E(branch[c])[k] # v
  /\ store' = Append(store, NewCommit({branch[c]}, [E(branch[c]) EXCEPT ![k] = v], "local"))
  /\ branch' = [branch EXCEPT ![c] = Len(store')]
  /\ UNCHANGED <<factory, policyOf, dummies, pendingPolicy, strategy, resolvers,
                 session, sessions, held, errors, alive, waits>>

(* A connection outside a transaction follows a commit made on top of its  *)
(* branch (another connection's commit or a merge) and its watcher gets    *)
(* OnChange for it.  Which commit a connection moves to is the ledger's    *)
(* branch tracking (spec.md 4.6); the test's Watcher only records it.      *)
FollowBranch(c) ==
  /\ alive
  /\ \E i \in Commits :
       /\ branch[c] \in store[i].parents
       /\ branch' = [branch EXCEPT ![c] = i]
  /\ UNCHANGED <<store, factory, policyOf, dummies, pendingPolicy, strategy,
                 resolvers, session, sessions, held, errors, alive, waits>>

(* Two heads, the left one the most recently created.                      *)
HeadPair(l, r) == l \in Heads /\ r \in Heads /\ l > r

(* The merge resolver merges two heads without a resolver: LAST_ONE_WINS,  *)
(* or AUTOMATIC_WITH_FALLBACK when no key conflicts.                       *)
MergeAutomatically(l, r) ==
  LET b == MergeBase(l, r) IN
  /\ alive
  /\ HeadPair(l, r)
  /\ session = NONE
  /\ strategy # NONE
  /\ \/ strategy.policy = "LAST_ONE_WINS"
     \/ strategy.policy = "AUTOMATIC_WITH_FALLBACK" /\ Conflicting(l, r, b) = {}
  /\ store' = Append(store, NewCommit({l, r}, AutoMerged(l, r, b), "auto"))
  /\ UNCHANGED <<branch, factory, policyOf, dummies, pendingPolicy,
                 strategy, resolvers, session, sessions, held, errors, alive, waits>>

(* The merge resolver opens a resolution session on the current resolver  *)
(* (CUSTOM, or AUTOMATIC_WITH_FALLBACK with conflicting keys, the session  *)
(* then pre-seeded with the non-conflicting merge) and calls Resolve.      *)
StartResolution(l, r) ==
  LET b == MergeBase(l, r)
      rid == CurrentResolver
  IN
  /\ alive
  /\ HeadPair(l, r)
  /\ session = NONE
  /\ strategy # NONE
  /\ \/ strategy.policy = "CUSTOM"
     \/ strategy.policy = "AUTOMATIC_WITH_FALLBACK" /\ Conflicting(l, r, b) # {}
  /\ rid > 0
  /\ resolvers[rid].live
  /\ resolvers[rid].gen = strategy.gen
  /\ session' = [sid |-> sessions + 1, rid |-> rid, left |-> l, right |-> r, base |-> b,
                 journal |-> IF strategy.policy = "CUSTOM" THEN EmptyJournal
                             ELSE NonConflicting(EmptyJournal, l, r, b)]
  /\ sessions' = sessions + 1
  /\ Resolve(rid, sessions + 1)
  /\ UNCHANGED <<store, branch, factory, policyOf, dummies, pendingPolicy,
                 strategy, errors, alive, waits>>

(* Mutation of SetConflictResolverFactory: the open session survives.     *)
SetConflictResolverFactoryKeepSession(p, d) ==
  /\ factory < MaxFactories
  /\ d => factory + 1 < MaxFactories
  /\ factory' = factory + 1
  /\ policyOf' = [policyOf EXCEPT ![factory + 1] = p]
  /\ dummies' = IF d THEN dummies \cup {factory + 1} ELSE dummies
  /\ pendingPolicy' = pendingPolicy \cup {factory + 1}
  /\ strategy' = NONE
  /\ resolvers' = Disconnect(resolvers)
  /\ UNCHANGED <<store, branch, session, sessions, held, errors, alive, waits>>

(* Ledger.SetConflictResolverFactory: conflicts stop going to the old      *)
(* resolver, its session is cancelled and its binding closed, and the new  *)
(* factory is asked GetPolicy for the page.  A factory set to hand out     *)
(* dummy resolvers is replaced by a later one, as the test                 *)
(* MergingWithConflictResolutionFactory does.                              *)
SetConflictResolverFactory(p, d) ==
  /\ factory < MaxFactories
  /\ d => factory + 1 < MaxFactories
  /\ factory' = factory + 1
  /\ policyOf' = [policyOf EXCEPT ![factory + 1] = p]
  /\ dummies' = IF d THEN dummies \cup {factory + 1} ELSE dummies
  /\ pendingPolicy' = pendingPolicy \cup {factory + 1}
  /\ strategy' = NONE
  /\ session' = NONE
  /\ resolvers' = Disconnect(resolvers)
  /\ UNCHANGED <<store, branch, sessions, held, errors, alive, waits>>

(* Mutation of OnPolicy: only a CUSTOM policy gets a resolver.             *)
OnPolicyCustomOnly(g) ==
  /\ g \in pendingPolicy
  /\ pendingPolicy' = pendingPolicy \ {g}
  /\ IF g = factory
       THEN /\ strategy' = [gen |-> g, policy |-> policyOf[g]]
            /\ resolvers' = IF policyOf[g] # "CUSTOM" THEN resolvers
                            ELSE NewConflictResolver(resolvers, g)
       ELSE UNCHANGED <<strategy, resolvers>>
  /\ UNCHANGED <<store, branch, factory, policyOf, dummies, session,
                 sessions, held, errors, alive, waits>>

(* TestConflictResolverFactory::GetPolicy answers after response_delay.   *)
(* A reply of a factory that was replaced meanwhile is dropped; otherwise  *)
(* the page takes the policy and, unless LAST_ONE_WINS, asks the factory  *)
(* for a resolver (NewConflictResolver).                                   *)
OnPolicy(g) ==
  /\ g \in pendingPolicy
  /\ pendingPolicy' = pendingPolicy \ {g}
  /\ IF g = factory
       THEN /\ strategy' = [gen |-> g, policy |-> policyOf[g]]
            /\ resolvers' = IF policyOf[g] = "LAST_ONE_WINS" THEN resolvers
                            ELSE NewConflictResolver(resolvers, g)
       ELSE UNCHANGED <<strategy, resolvers>>
  /\ UNCHANGED <<store, branch, factory, policyOf, dummies, session,
                 sessions, held, errors, alive, waits>>

(* Mutation of ResolverConnectionError: no replacement resolver.          *)
ResolverConnectionErrorNoReplacement ==
  /\ errors < MaxResolverErrors
  /\ resolvers # <<>>
  /\ resolvers[CurrentResolver].live
  /\ ~resolvers[CurrentResolver].dummy
  /\ errors' = errors + 1
  /\ session' = NONE
  /\ resolvers' = Disconnect(resolvers)
  /\ UNCHANGED <<store, branch, factory, policyOf, dummies, pendingPolicy,
                 strategy, sessions, held, alive, waits>>

(* The resolver's connection closes (the test clears its resolvers, never *)
(* its dummy_resolvers_): the session is cancelled and the same factory is *)
(* asked for a new resolver.                                               *)
ResolverConnectionError ==
  /\ errors < MaxResolverErrors
  /\ resolvers # <<>>
  /\ resolvers[CurrentResolver].live
  /\ ~resolvers[CurrentResolver].dummy
  /\ errors' = errors + 1
  /\ session' = NONE
  /\ resolvers' = NewConflictResolver(Disconnect(resolvers),
                                      resolvers[CurrentResolver].gen)
  /\ UNCHANGED <<store, branch, factory, policyOf, dummies, pendingPolicy,
                 strategy, sessions, held, alive, waits>>

(* The value a MergedValue puts in the journal.                            *)
MergedValueOf(s, k, src) ==
  CASE src.source = "RIGHT"  -> E(s.right)[k]
    [] src.source = "DELETE" -> NONE
    [] src.source = "NEW"    -> src.value

Serving(sid) == alive /\ session # NONE /\ session.sid = sid

(* MergeResultProvider.Merge (ResolveRequest::PartialMerge of the test):   *)
(* one merged value added to the session's journal; a later value for the  *)
(* same key replaces an earlier one.                                       *)
PartialMerge(sid, k, src) ==
  /\ sid \in held
  /\ Serving(sid)
  /\ session' = [session EXCEPT !.journal[k] = MergedValueOf(session, k, src)]
  /\ UNCHANGED <<store, branch, factory, policyOf, dummies, pendingPolicy,
                 strategy, resolvers, sessions, held, errors, alive, waits>>

(* MergeResultProvider.MergeNonConflictingEntries                          *)
MergeNonConflictingEntries(sid) ==
  /\ sid \in held
  /\ Serving(sid)
  /\ session' = [session EXCEPT !.journal =
                   NonConflicting(@, session.left, session.right, session.base)]
  /\ UNCHANGED <<store, branch, factory, policyOf, dummies, pendingPolicy,
                 strategy, resolvers, sessions, held, errors, alive, waits>>

(* MergeResultProvider.Done: the merge commit (left entries with the       *)
(* journal applied, parents left and right) is appended and the session    *)
(* retired; the test's Merge() returns once Done answers OK.               *)
Done(sid) ==
  /\ sid \in held
  /\ Serving(sid)
  /\ store' = Append(store, NewCommit({session.left, session.right},
                                      Applied(session.left, session.journal),
                                      "custom"))
  /\ session' = NONE
  /\ held' = held \ {sid}
  /\ UNCHANGED <<branch, factory, policyOf, dummies, pendingPolicy,
                 strategy, resolvers, sessions, errors, alive, waits>>

(* A call on a cancelled session, or on a deleted page, answers an error   *)
(* (NOT_FOUND after DeletePage); the test's assertion fails and the        *)
(* request is not used again.                                              *)
CallRejected(sid) ==
  /\ sid \in held
  /\ ~Serving(sid)
  /\ held' = held \ {sid}
  /\ UNCHANGED <<store, branch, factory, policyOf, dummies, pendingPolicy,
                 strategy, resolvers, session, sessions, errors, alive, waits>>

(* Ledger.DeletePage: the open session goes with the page.                 *)
DeletePage ==
  /\ alive
  /\ alive' = FALSE
  /\ session' = NONE
  /\ UNCHANGED <<store, branch, factory, policyOf, dummies, pendingPolicy,
                 strategy, resolvers, sessions, held, errors, waits>>

(* Page.WaitForConflictResolution: NO_CONFLICTS at once when nothing is    *)
(* being merged, otherwise the callback waits.                             *)
WaitForConflictResolution(c) ==
  /\ alive
  /\ waits[c] = "idle"
  /\ waits' = [waits EXCEPT ![c] = IF Resolved THEN "NO_CONFLICTS" ELSE "waiting"]
  /\ UNCHANGED <<store, branch, factory, policyOf, dummies, pendingPolicy,
                 strategy, resolvers, session, sessions, held, errors, alive>>

(* The waiting callback runs once the page is back to one head with no     *)
(* session open.                                                           *)
ConflictsResolved(c) ==
  /\ alive
  /\ waits[c] = "waiting"
  /\ Resolved
  /\ waits' = [waits EXCEPT ![c] = "CONFLICTS_RESOLVED"]
  /\ UNCHANGED <<store, branch, factory, policyOf, dummies, pendingPolicy,
                 strategy, resolvers, session, sessions, held, errors, alive>>

-----------------------------------------------------------------------------
Next ==
  \/ \E c \in Conn :
       \/ \E k \in Keys, v \in Vals \cup {NONE} : Commit(c, k, v)
       \/ FollowBranch(c)
  \/ \E c \in Waiters : WaitForConflictResolution(c) \/ ConflictsResolved(c)
  \/ \E l, r \in Commits : MergeAutomatically(l, r) \/ StartResolution(l, r)
  \/ \E p \in FactoryPolicies, d \in UseDummy : SetConflictResolverFactory(p, d)
  \/ \E g \in 1 .. MaxFactories : OnPolicy(g)
  \/ ResolverConnectionError
  \/ \E sid \in held :
       \/ \E k \in Keys, src \in Sources : PartialMerge(sid, k, src)
       \/ MergeNonConflictingEntries(sid)
       \/ Done(sid)
       \/ CallRejected(sid)
  \/ DeletePage

(* The ledger's own steps are weakly fair: the page's event loop runs      *)
(* every task it posts.  The resolver is an external program: only its    *)
(* Done on the open session is assumed to come eventually (a resolver that *)
(* answers), and a factory handing out DummyConflictResolvers, which never *)
(* answer, is eventually replaced, as MergingWithConflictResolutionFactory *)
(* does.                                                                   *)
Fairness ==
  /\ \A c \in Conn : WF_vars(FollowBranch(c))
  /\ \A c \in Waiters : WF_vars(ConflictsResolved(c))
  /\ WF_vars(\E l, r \in Commits : MergeAutomatically(l, r))
  /\ WF_vars(\E l, r \in Commits : StartResolution(l, r))
  /\ \A g \in 1 .. MaxFactories : WF_vars(OnPolicy(g))
  /\ WF_vars(session # NONE /\ Done(session.sid))
  /\ WF_vars(factory \in dummies /\ \E p \in FactoryPolicies : SetConflictResolverFactory(p, FALSE))

Spec == Init /\ [][Next]_vars

FairSpec == Spec /\ Fairness

-----------------------------------------------------------------------------
(* Properties                                                              *)

Commit_ == [parents : SUBSET Nat, gen : Nat,
            entries : [Keys -> Vals \cup {NONE}],
            origin : {"root", "local", "auto", "custom"}]

TypeOK ==
  /\ store \in Seq(Commit_)
  /\ branch \in [Conn -> Commits]
  /\ factory \in 0 .. MaxFactories
  /\ policyOf \in [1 .. MaxFactories -> Policies \cup {NONE}]
  /\ pendingPolicy \subseteq 1 .. factory
  /\ strategy \in {NONE} \cup [gen : 0 .. MaxFactories, policy : Policies]
  /\ dummies \subseteq 1 .. factory
  /\ resolvers \in Seq([gen : 1 .. MaxFactories, live : BOOLEAN, requests : Nat,
                        dummy : BOOLEAN])
  /\ session = NONE \/ session.sid \in held \/ resolvers[session.rid].dummy
  /\ held \subseteq 1 .. sessions
  /\ errors \in 0 .. MaxResolverErrors
  /\ alive \in BOOLEAN
  /\ waits \in [Waiters -> {"idle", "waiting", "NO_CONFLICTS", "CONFLICTS_RESOLVED"}]

(* A resolution session is only ever open on a live resolver of the page's *)
(* current factory: replacing the factory or losing the resolver cancels   *)
(* the session, so a stale resolver's Done cannot commit.                  *)
SessionOnCurrentResolver ==
  session # NONE =>
    /\ resolvers[session.rid].live
    /\ resolvers[session.rid].gen = factory

AllOnMergedHead ==
  <>[](~alive \/ (Cardinality(Heads) = 1 /\ \A c \in Conn : branch[c] \in Heads))

(* Under a resolver that answers, the page eventually settles on one head  *)
(* with no session open, unless it is deleted.                             *)
Convergence == <>[](~alive \/ Resolved)

-----------------------------------------------------------------------------
(* Statements of spec.md that the tests of merging_tests.cc contradict.    *)

HeadsOf(st) ==
  {i \in 1 .. Len(st) : \A j \in 1 .. Len(st) : i \notin st[j].parents}

NewCommits == {store'[i] : i \in Len(store) + 1 .. Len(store')}

(* spec.md 4.4: under LAST_ONE_WINS the right head's value overrides the   *)
(* left (most recently created) head's on every key both changed.  The     *)
(* Merging test expects the most recent write (Bob) to win instead.        *)
SpecLastOneWinsRightWins ==
  [][strategy # NONE /\ strategy.policy = "LAST_ONE_WINS" =>
       \A c \in NewCommits :
         c.origin = "auto" =>
           LET l == Max(c.parents)
               r == Min(c.parents)
           IN  \A k \in Conflicting(l, r, MergeBase(l, r)) : c.entries[k] = E(r)[k]]_vars

(* spec.md 4.5: Done builds the merge from the base with the left and      *)
(* right changes applied, overridden by the resolver's merged values: a   *)
(* key only the right side changed, and no merged value names, keeps the  *)
(* right value.  CustomConflictResolutionNoConflict expects such a key     *)
(* (city) to be absent from the result.                                    *)
SpecDoneAppliesBothSides ==
  [][\A c \in NewCommits :
       c.origin = "custom" =>
         \A k \in Changed(session.right, session.base) \ Changed(session.left, session.base) :
           session.journal[k] = UNSET => c.entries[k] = E(session.right)[k]]_vars

(* spec.md 4.6: watchers are notified when the head set becomes a single   *)
(* head.  The Merging test expects each connection's watcher to see its    *)
(* own commit while the page still has two heads.                          *)
SpecNotifyOnlyOnSingleHead ==
  [][\A c \in Conn : branch'[c] # branch[c] => Cardinality(HeadsOf(store')) = 1]_vars

=============================================================================
