---------------------------- MODULE DevUserShell ----------------------------
(***************************************************************************)
(* DevUserShellApp (bin/user_runner/dev_user_shell.cc).                    *)
(*                                                                         *)
(* The shell needs both its view request (CreateView) and its user shell  *)
(* context (Initialize) before it can start the story; they arrive in     *)
(* either order and each calls Connect().  Connect creates the story, or   *)
(* takes the one named by the story_id setting, and StartStoryById binds   *)
(* the story controller and the story watcher.  When the story reports    *)
(* DONE the shell stops it and logs out from the Stop reply.               *)
(*                                                                         *)
(* The story provider, the story controller and the user runner are       *)
(* other programs: their replies and the story's state changes are        *)
(* actions of the environment.                                             *)
(***************************************************************************)
EXTENDS Naturals

CONSTANTS
  StoryIdSettings,   \* values of the story_id setting: "" or a story id
  RootLinkSettings,  \* values of the root_link setting: "" or link data
  StoryStates,       \* states the story can report to OnStateChange
  MaxStateChanges    \* bound on OnStateChange calls

ASSUME StoryStates \subseteq {"INITIAL", "STARTING", "RUNNING", "STOPPED", "DONE"}
ASSUME MaxStateChanges \in Nat

VARIABLES
  settings,         \* [story_id, root_link] from the command line
  viewRequest,      \* view_owner_request_ holds a request
  storyProvider,    \* story_provider_ is bound (Initialize ran)
  initialized,      \* Initialize was called
  viewCreated,      \* CreateView was called
  viewHosts,        \* ViewHosts created by Connect
  createStory,      \* a CreateStory reply is on its way
  storiesStarted,   \* StartStoryById calls
  controller,       \* story_controller_ is bound
  watcherBound,     \* story_watcher_binding_ is bound
  rootLinkWrites,   \* UpdateObject calls on the root link
  stopPending,      \* Stop calls whose reply is on its way
  stateChanges,     \* OnStateChange calls so far
  lastState,        \* the state last reported to OnStateChange
  logouts,          \* UserShellContext.Logout calls
  controllerLost    \* story_controller_'s connection error handler ran

vars == <<settings, viewRequest, storyProvider, initialized, viewCreated,
          viewHosts, createStory, storiesStarted, controller, watcherBound,
          rootLinkWrites, stopPending, stateChanges, lastState, logouts,
          controllerLost>>

-----------------------------------------------------------------------------
(* Settings: the command line's options with their defaults.               *)
Init ==
  /\ settings \in [story_id : StoryIdSettings, root_link : RootLinkSettings]
  /\ viewRequest = FALSE
  /\ storyProvider = FALSE
  /\ initialized = FALSE
  /\ viewCreated = FALSE
  /\ viewHosts = 0
  /\ createStory = FALSE
  /\ storiesStarted = 0
  /\ controller = FALSE
  /\ watcherBound = FALSE
  /\ rootLinkWrites = 0
  /\ stopPending = 0
  /\ stateChanges = 0
  /\ lastState = "INITIAL"
  /\ logouts = 0
  /\ controllerLost = FALSE

(* StartStoryById: bind the controller and the watcher, start the story,   *)
(* focus it, make it visible, and write the root link if one is set.       *)
StartStoryById ==
  /\ storiesStarted' = storiesStarted + 1
  /\ controller' = TRUE
  /\ watcherBound' = TRUE
  /\ rootLinkWrites' = IF settings.root_link # "" THEN rootLinkWrites + 1
                                                  ELSE rootLinkWrites

(* Mutation of Connect: only the story provider is checked.                *)
ConnectNoViewCheck(vr, sp) ==
  IF ~sp
    THEN UNCHANGED <<viewHosts, createStory, storiesStarted, controller,
                     watcherBound, rootLinkWrites>> /\ viewRequest' = vr
    ELSE /\ viewHosts' = viewHosts + 1
         /\ viewRequest' = FALSE
         /\ IF settings.story_id = ""
              THEN /\ createStory' = TRUE
                   /\ UNCHANGED <<storiesStarted, controller, watcherBound, rootLinkWrites>>
              ELSE /\ StartStoryById
                   /\ UNCHANGED createStory

(* Connect(), given the view request and the story provider as the caller *)
(* left them: returns until both are there, then hands the view request   *)
(* to a ViewHost and creates or starts the story.                          *)
Connect(vr, sp) ==
  IF ~vr \/ ~sp
    THEN UNCHANGED <<viewHosts, createStory, storiesStarted, controller,
                     watcherBound, rootLinkWrites>> /\ viewRequest' = vr
    ELSE /\ viewHosts' = viewHosts + 1
         /\ viewRequest' = FALSE
         /\ IF settings.story_id = ""
              THEN /\ createStory' = TRUE
                   /\ UNCHANGED <<storiesStarted, controller, watcherBound, rootLinkWrites>>
              ELSE /\ StartStoryById
                   /\ UNCHANGED createStory

(* SingleServiceApp::CreateView: keep the view request, then Connect.      *)
CreateView ==
  /\ ~viewCreated
  /\ viewCreated' = TRUE
  /\ Connect(TRUE, storyProvider)
  /\ UNCHANGED <<settings, storyProvider, initialized, stopPending, stateChanges, lastState, logouts, controllerLost>>

(* UserShell.Initialize: bind the context, get the providers, subscribe to *)
(* suggestions, then Connect.                                              *)
Initialize ==
  /\ ~initialized
  /\ initialized' = TRUE
  /\ storyProvider' = TRUE
  /\ Connect(viewRequest, TRUE)
  /\ UNCHANGED <<settings, viewCreated, stopPending, stateChanges, lastState, logouts, controllerLost>>

(* The CreateStory reply: start the new story.                             *)
StoryCreated ==
  /\ createStory
  /\ createStory' = FALSE
  /\ StartStoryById
  /\ UNCHANGED <<settings, viewRequest, storyProvider, initialized, viewCreated,
                 viewHosts, stopPending, stateChanges, lastState, logouts, controllerLost>>

(* Mutation of OnStateChange: Stop on STOPPED instead of DONE.            *)
OnStateChangeWrongState(state) ==
  /\ watcherBound
  /\ stateChanges < MaxStateChanges
  /\ stateChanges' = stateChanges + 1
  /\ lastState' = state
  /\ stopPending' = IF state = "STOPPED" THEN stopPending + 1 ELSE stopPending
  /\ UNCHANGED <<settings, viewRequest, storyProvider, initialized, viewCreated,
                 viewHosts, createStory, storiesStarted, controller, watcherBound,
                 rootLinkWrites, logouts, controllerLost>>

(* StoryWatcher.OnStateChange: anything but DONE is ignored; DONE asks the *)
(* controller to Stop.                                                     *)
OnStateChange(state) ==
  /\ watcherBound
  /\ stateChanges < MaxStateChanges
  /\ stateChanges' = stateChanges + 1
  /\ lastState' = state
  /\ stopPending' = IF state = "DONE" THEN stopPending + 1 ELSE stopPending
  /\ UNCHANGED <<settings, viewRequest, storyProvider, initialized, viewCreated,
                 viewHosts, createStory, storiesStarted, controller, watcherBound,
                 rootLinkWrites, logouts, controllerLost>>

(* Mutation of StopReply: the controller is kept bound.                    *)
StopReplyNoReset ==
  /\ controller
  /\ stopPending > 0
  /\ watcherBound' = FALSE
  /\ stopPending' = stopPending - 1
  /\ logouts' = logouts + 1
  /\ UNCHANGED <<settings, viewRequest, storyProvider, initialized, viewCreated,
                 viewHosts, createStory, storiesStarted, controller, rootLinkWrites,
                 stateChanges, lastState, controllerLost>>

(* Mutation of StopReply: a reply taken without a Stop call pending.     *)
StopReplyUnrequested ==
  /\ controller
  /\ watcherBound' = FALSE
  /\ stopPending' = stopPending - 1
  /\ logouts' = logouts + 1
  /\ UNCHANGED <<settings, viewRequest, storyProvider, initialized, viewCreated,
                 viewHosts, createStory, storiesStarted, controller, rootLinkWrites,
                 stateChanges, lastState, controllerLost>>

(* The Stop reply: close the watcher binding, reset the controller (its   *)
(* other pending replies are dropped with it) and Logout.                  *)
StopReply ==
  /\ controller
  /\ stopPending > 0
  /\ watcherBound' = FALSE
  /\ controller' = FALSE
  /\ stopPending' = 0
  /\ logouts' = logouts + 1
  /\ UNCHANGED <<settings, viewRequest, storyProvider, initialized, viewCreated,
                 viewHosts, createStory, storiesStarted, rootLinkWrites, stateChanges, lastState,
                 controllerLost>>

(* story_controller_'s connection error (the story does not exist, or its *)
(* runner went away): the handler only logs.  The replies pending on the   *)
(* controller, a Stop among them, never come, and the watcher binding the  *)
(* controller held is closed with it.                                      *)
StoryControllerError ==
  /\ controller /\ ~controllerLost
  /\ controllerLost' = TRUE
  /\ watcherBound' = FALSE
  /\ stopPending' = 0
  /\ UNCHANGED <<settings, viewRequest, storyProvider, initialized, viewCreated,
                 viewHosts, createStory, storiesStarted, controller, rootLinkWrites,
                 stateChanges, lastState, logouts>>

Next ==
  \/ CreateView
  \/ Initialize
  \/ StoryCreated
  \/ \E s \in StoryStates : OnStateChange(s)
  \/ StopReply
  \/ StoryControllerError

(* The view manager and the user runner call CreateView and Initialize,   *)
(* the story provider answers CreateStory and the controller answers Stop. *)
Fairness ==
  /\ WF_vars(CreateView) /\ WF_vars(Initialize)
  /\ WF_vars(StoryCreated) /\ WF_vars(StopReply)

Spec == Init /\ [][Next]_vars /\ Fairness

-----------------------------------------------------------------------------
(* Properties                                                              *)

TypeOK ==
  /\ settings \in [story_id : StoryIdSettings, root_link : RootLinkSettings]
  /\ viewRequest \in BOOLEAN /\ storyProvider \in BOOLEAN
  /\ initialized \in BOOLEAN /\ viewCreated \in BOOLEAN
  /\ viewHosts \in Nat /\ createStory \in BOOLEAN /\ storiesStarted \in Nat
  /\ controller \in BOOLEAN /\ watcherBound \in BOOLEAN
  /\ rootLinkWrites \in Nat /\ stopPending \in Nat
  /\ stateChanges \in 0 .. MaxStateChanges /\ logouts \in Nat
  /\ lastState \in StoryStates \cup {"INITIAL"}
  /\ controllerLost \in BOOLEAN

(* Whichever of CreateView and Initialize comes first, the shell creates   *)
(* one ViewHost and starts one story, and only once it has both the view   *)
(* request and the story provider.                                         *)
StartsOnce ==
  /\ viewHosts + storiesStarted > 0 => viewCreated /\ initialized
  /\ viewHosts <= 1
  /\ storiesStarted <= 1

(* The shell logs out at most once, however many DONE states the story    *)
(* reports before the Stop reply.                                          *)
LogoutAtMostOnce == logouts <= 1

(* The story is eventually started; and once it reports DONE the shell     *)
(* eventually logs out, through the Stop reply, unless the story           *)
(* controller's connection is lost first: its error handler only logs, so  *)
(* the shell then stays up with nobody to answer the Stop.                 *)
StartsAndLogsOut ==
  /\ <>(storiesStarted = 1)
  /\ [](lastState = "DONE" => <>(logouts = 1 \/ controllerLost))

(* The shell implements DevUserShellSpec: it starts the story once, only   *)
(* after both CreateView and Initialize, whichever came first and whether *)
(* the story is created or named; it sends Stop only for a DONE report,   *)
(* and logs out only from a Stop reply, once.  The stage is read off the   *)
(* shell: a lost controller, a Logout, a Stop awaiting its reply, a story  *)
(* started, in that order.                                                 *)
Stage ==
  CASE controllerLost -> "lost"
    [] logouts > 0 -> "loggedOut"
    [] stopPending > 0 -> "stopping"
    [] storiesStarted > 0 -> "started"
    [] OTHER -> "idle"

ShellSpec == INSTANCE DevUserShellSpec WITH
  gotView <- viewCreated,
  gotContext <- initialized,
  stage <- Stage,
  last <- lastState

ImplementsShellSpec == ShellSpec!Spec

=============================================================================
