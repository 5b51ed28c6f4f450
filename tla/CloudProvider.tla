---------------------------- MODULE CloudProvider ----------------------------
(***************************************************************************)
(* CloudProviderImpl (bin/cloud_provider_firebase/app/cloud_provider_impl.cc). *)
(*                                                                         *)
(* One CloudProviderImpl serves one client connection.  It shuts down,     *)
(* through on_empty_ (its owner then deletes it), when the client          *)
(* disconnects or when the auth provider disconnects.  GetDeviceSet and    *)
(* GetPageCloud add handlers to its sets and reply OK at once.             *)
(* EraseAllData is a chain of two asynchronous calls: a Firebase token     *)
(* from the auth provider, then a Delete of the user's data in Firebase.   *)
(* The token request is kept in auth_token_requests_, which cancels it     *)
(* when the provider is deleted; the Delete request belongs to             *)
(* user_firebase_, which is deleted with the provider as well.             *)
(*                                                                         *)
(* The client, the auth provider and Firebase are other parties: their     *)
(* calls, replies and disconnections are actions of the environment.       *)
(***************************************************************************)
EXTENDS Naturals, Sequences

CONSTANTS
  Reqs,            \* EraseAllData calls the client can make
  DeleteStatuses,  \* the cloud_provider status a Firebase Delete converts to
  MaxHandlers,     \* bound on GetDeviceSet and on GetPageCloud calls
  OnEmptySet       \* whether the owner installed on_empty_

ASSUME DeleteStatuses \subseteq {"OK", "NETWORK_ERROR", "SERVER_ERROR", "NOT_FOUND"}
ASSUME OnEmptySet \subseteq BOOLEAN

VARIABLES
  alive,          \* the CloudProviderImpl exists
  onEmpty,        \* on_empty_ is set
  bound,          \* binding_ to the client is open
  authConnected,  \* the auth provider connection is open
  deviceSets,     \* device_sets_ size
  pageClouds,     \* page_clouds_ size
  erase,          \* Reqs -> "idle", "token" (token asked), "delete" (Delete
                  \* sent), "replied", or "dropped" (cancelled by deletion)
  tokenTracked,   \* the token requests held in auth_token_requests_
  replies,        \* Reqs -> the statuses sent to the client for that call
  lateCallbacks   \* callbacks that ran on a deleted CloudProviderImpl

vars == <<alive, onEmpty, bound, authConnected, deviceSets, pageClouds,
          erase, tokenTracked, replies, lateCallbacks>>

-----------------------------------------------------------------------------
(* The constructor: both connection error handlers installed.              *)
Init ==
  /\ alive = TRUE
  /\ onEmpty \in OnEmptySet
  /\ bound = TRUE
  /\ authConnected = TRUE
  /\ deviceSets = 0
  /\ pageClouds = 0
  /\ erase = [r \in Reqs |-> "idle"]
  /\ tokenTracked = {}
  /\ replies = [r \in Reqs |-> <<>>]
  /\ lateCallbacks = 0

(* GetDeviceSet: a CloudDeviceSetImpl on its own FirebaseImpl, then OK.    *)
GetDeviceSet ==
  /\ alive /\ bound
  /\ deviceSets < MaxHandlers
  /\ deviceSets' = deviceSets + 1
  /\ UNCHANGED <<alive, onEmpty, bound, authConnected, pageClouds, erase,
                 tokenTracked, replies, lateCallbacks>>

(* GetPageCloud: a PageCloudHandlerImpl on the page's Firebase and GCS, OK. *)
GetPageCloud ==
  /\ alive /\ bound
  /\ pageClouds < MaxHandlers
  /\ pageClouds' = pageClouds + 1
  /\ UNCHANGED <<alive, onEmpty, bound, authConnected, deviceSets, erase,
                 tokenTracked, replies, lateCallbacks>>

(* Mutation of EraseAllData: the token request is not kept.                *)
EraseAllDataUntracked(r) ==
  /\ alive /\ bound
  /\ erase[r] = "idle"
  /\ erase' = [erase EXCEPT ![r] = "token"]
  /\ UNCHANGED <<alive, onEmpty, bound, authConnected, deviceSets, pageClouds,
                 tokenTracked, replies, lateCallbacks>>

(* EraseAllData: ask the auth provider for a Firebase token and keep the   *)
(* request in auth_token_requests_.                                         *)
EraseAllData(r) ==
  /\ alive /\ bound
  /\ erase[r] = "idle"
  /\ erase' = [erase EXCEPT ![r] = "token"]
  /\ tokenTracked' = tokenTracked \cup {r}
  /\ UNCHANGED <<alive, onEmpty, bound, authConnected, deviceSets, pageClouds,
                 replies, lateCallbacks>>

(* A callback that runs on a deleted provider is counted, not run.         *)
RunsLate == ~alive

(* Mutation of the token callback: no return after AUTH_ERROR.             *)
TokenReplyNoReturn(r, ok) ==
  /\ authConnected
  /\ erase[r] = "token"
  /\ alive \/ r \notin tokenTracked
  /\ IF RunsLate
       THEN /\ lateCallbacks' = lateCallbacks + 1
            /\ erase' = [erase EXCEPT ![r] = "dropped"]
            /\ UNCHANGED replies
       ELSE /\ erase' = [erase EXCEPT ![r] = "delete"]
            /\ replies' = IF ok THEN replies
                          ELSE [replies EXCEPT ![r] = Append(@, "AUTH_ERROR")]
            /\ UNCHANGED lateCallbacks
  /\ UNCHANGED <<alive, onEmpty, bound, authConnected, deviceSets, pageClouds,
                 tokenTracked>>

(* The auth provider's token reply (while its connection is open; a        *)
(* request cancelled by the deletion never calls back): AUTH_ERROR to the  *)
(* client on failure, otherwise user_firebase_.Delete of everything.       *)
TokenReply(r, ok) ==
  /\ authConnected
  /\ erase[r] = "token"
  /\ alive \/ r \notin tokenTracked
  /\ IF RunsLate
       THEN /\ lateCallbacks' = lateCallbacks + 1
            /\ erase' = [erase EXCEPT ![r] = "dropped"]
            /\ UNCHANGED replies
       ELSE /\ erase' = [erase EXCEPT ![r] = IF ok THEN "delete" ELSE "replied"]
            /\ replies' = IF ok THEN replies
                          ELSE [replies EXCEPT ![r] = Append(@, "AUTH_ERROR")]
            /\ UNCHANGED lateCallbacks
  /\ UNCHANGED <<alive, onEmpty, bound, authConnected, deviceSets, pageClouds,
                 tokenTracked>>

(* Firebase answers the Delete: its status, converted, goes to the client  *)
(* through the EraseAllData callback the closure moved in.  The closure    *)
(* does not hold `this`, but that callback answers on the provider's       *)
(* binding: run after the deletion it is counted, not run.                 *)
DeleteReply(r, status) ==
  /\ erase[r] = "delete"
  /\ IF RunsLate
       THEN /\ lateCallbacks' = lateCallbacks + 1
            /\ erase' = [erase EXCEPT ![r] = "dropped"]
            /\ UNCHANGED replies
       ELSE /\ erase' = [erase EXCEPT ![r] = "replied"]
            /\ replies' = [replies EXCEPT ![r] = Append(@, status)]
            /\ UNCHANGED lateCallbacks
  /\ UNCHANGED <<alive, onEmpty, bound, authConnected, deviceSets, pageClouds,
                 tokenTracked>>

(* Mutation of Shutdown: the Delete requests outlive the provider, as they *)
(* would on a FirebaseImpl the provider does not own.                      *)
ShutdownKeepsDeletes ==
  IF onEmpty
    THEN /\ alive' = FALSE
         /\ deviceSets' = 0
         /\ pageClouds' = 0
         /\ erase' = [r \in Reqs |->
                        IF erase[r] = "token" /\ r \in tokenTracked
                          THEN "dropped" ELSE erase[r]]
    ELSE UNCHANGED <<alive, deviceSets, pageClouds, erase>>

(* on_empty_ (when set): the owner deletes the provider.  The token        *)
(* requests it holds are cancelled; user_firebase_'s Delete goes with it.  *)
Shutdown ==
  IF onEmpty
    THEN /\ alive' = FALSE
         /\ deviceSets' = 0
         /\ pageClouds' = 0
         /\ erase' = [r \in Reqs |->
                        IF erase[r] = "delete" \/ (erase[r] = "token" /\ r \in tokenTracked)
                          THEN "dropped" ELSE erase[r]]
    ELSE UNCHANGED <<alive, deviceSets, pageClouds, erase>>

(* The client closes its connection.                                       *)
ClientDisconnect ==
  /\ alive /\ bound
  /\ bound' = FALSE
  /\ Shutdown
  /\ UNCHANGED <<onEmpty, authConnected, tokenTracked, replies, lateCallbacks>>

(* Mutation of the auth provider's connection error handler: it logs only. *)
AuthDisconnectNoShutdown ==
  /\ alive /\ authConnected
  /\ authConnected' = FALSE
  /\ UNCHANGED <<alive, onEmpty, bound, deviceSets, pageClouds, erase,
                 tokenTracked, replies, lateCallbacks>>

(* The auth provider closes its connection: log and shut down.  Its        *)
(* pending token requests are never answered.                              *)
AuthDisconnect ==
  /\ alive /\ authConnected
  /\ authConnected' = FALSE
  /\ Shutdown
  /\ UNCHANGED <<onEmpty, bound, tokenTracked, replies, lateCallbacks>>

Next ==
  \/ GetDeviceSet
  \/ GetPageCloud
  \/ \E r \in Reqs : EraseAllData(r)
  \/ \E r \in Reqs, ok \in BOOLEAN : TokenReply(r, ok)
  \/ \E r \in Reqs, s \in DeleteStatuses : DeleteReply(r, s)
  \/ ClientDisconnect
  \/ AuthDisconnect

(* The auth provider answers token requests while connected and Firebase  *)
(* answers (or the network stack times out) every request.                 *)
Fairness ==
  /\ \A r \in Reqs : WF_vars(\E ok \in BOOLEAN : TokenReply(r, ok))
  /\ \A r \in Reqs : WF_vars(\E s \in DeleteStatuses : DeleteReply(r, s))

Spec == Init /\ [][Next]_vars /\ Fairness

-----------------------------------------------------------------------------
(* Properties                                                              *)

(* Each EraseAllData call is answered at most once, and a Delete is only   *)
(* outstanding for a call that has not been answered: the AUTH_ERROR path  *)
(* of the token callback must return before the Delete.                    *)
EraseRepliesOnce ==
  \A r \in Reqs :
    /\ Len(replies[r]) <= 1
    /\ erase[r] = "delete" => replies[r] = <<>>

(* No callback of EraseAllData runs on a deleted CloudProviderImpl: the    *)
(* token callback captures `this`, so its request must be cancelled when   *)
(* the provider is deleted, and the Delete callback answers on the         *)
(* provider's binding, so the Delete must go with user_firebase_.          *)
NoCallbackAfterDelete == lateCallbacks = 0

(* Every EraseAllData call is eventually answered or the provider shuts    *)
(* down, even when the auth provider disconnects with the token request    *)
(* outstanding.                                                            *)
EraseCompletes ==
  \A r \in Reqs :
    [](erase[r] \in {"token", "delete"} => <>(erase[r] = "replied" \/ ~alive))

(* The provider implements CloudProviderSpec: a call is pending from the   *)
(* request for a token until the reply, whichever of the token callback's *)
(* AUTH_ERROR and the Delete's status answers it, and a Shutdown of the    *)
(* provider drops every call it still owes an answer: the chain of two    *)
(* asynchronous callbacks answers once, never after the deletion, and     *)
(* never leaves a call that outlives the provider it was made on.         *)
CallOf(r) ==
  CASE erase[r] = "idle" -> "idle"
    [] erase[r] \in {"token", "delete"} -> "pending"
    [] erase[r] = "replied" -> "answered"
    [] erase[r] = "dropped" -> "dropped"

EraseSpec == INSTANCE CloudProviderSpec WITH
  Statuses <- {"AUTH_ERROR"} \cup DeleteStatuses,
  calls <- [r \in Reqs |-> CallOf(r)],
  answers <- replies

ImplementsEraseSpec == EraseSpec!Spec

=============================================================================
