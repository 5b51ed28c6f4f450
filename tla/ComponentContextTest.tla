------------------------ MODULE ComponentContextTest ------------------------
(***************************************************************************)
(* The root module of the component context integration test               *)
(* (tests/component_context/component_context_test_module.cc).             *)
(*                                                                         *)
(* ParentApp runs kTotalSimultaneousTests = 2 tests at once and counts     *)
(* their completions with a CounterTrigger whose trigger calls             *)
(* ModuleContext.Done().  The message-queue test chains several replies    *)
(* from the test store, the message queue and agent one; the unstoppable   *)
(* agent test completes on a 500 ms timer; a 15 s timeout cancels the      *)
(* counter.  Timer and test-controller callbacks are scoped to a weak     *)
(* pointer of ParentApp.  After Done() the module driver calls Terminate   *)
(* and the process's message loop quits.                                   *)
(*                                                                         *)
(* The replies of the store and of agent one come from other programs: a  *)
(* misbehaving agent may never send them.                                  *)
(***************************************************************************)
EXTENDS Naturals

CONSTANTS
  ReceiverOutcomes  \* what the build does after the receiver callback
                    \* destroys its own MessageReceiverClient (line 144)

ASSUME ReceiverOutcomes \subseteq {"completes", "lost", "crash"}

kTotalSimultaneousTests == 2

VARIABLES
  count,        \* CounterTrigger::count_
  finished,     \* CounterTrigger::finished_
  doneCalls,    \* calls of ModuleContext.Done() made by the trigger
  stepsBy,      \* the tests that called steps_.Step(), and "timeout"
  msgStage,     \* progress of TestMessageQueue / TestAgentController
  unstoppable,  \* the 500 ms timer of TestUnstoppableAgent is pending
  timeout,      \* the kTimeout task is pending
  points,       \* TestPoints passed
  phase         \* "running", "terminating" (Terminate called, the test
                \* harness not yet done), "gone" (ParentApp deleted, loop quit)

vars == <<count, finished, doneCalls, stepsBy, msgStage, unstoppable,
          timeout, points, phase>>

MsgStages == {"wait_connected", "wait_token", "wait_message",
              "wait_stopped", "stepped", "lost"}

-----------------------------------------------------------------------------
(* CounterTrigger                                                          *)

(* Mutation of Finished: the trigger runs again on a second call.          *)
FinishedNoGuard ==
  /\ finished' = TRUE
  /\ doneCalls' = doneCalls + 1

(* Finished(): the trigger (ModuleContext.Done()) runs once.               *)
Finished ==
  IF ~finished
    THEN /\ finished' = TRUE
         /\ doneCalls' = doneCalls + 1
    ELSE UNCHANGED <<finished, doneCalls>>

(* Step(): ignored once finished; FXL_CHECK(count_ > 0) otherwise; the     *)
(* count going to zero finishes.  `who` records which test stepped.        *)
Step(who) ==
  /\ stepsBy' = stepsBy \cup {who}
  /\ IF ~finished
       THEN /\ count > 0
            /\ count' = count - 1
            /\ IF count - 1 = 0 THEN Finished ELSE UNCHANGED <<finished, doneCalls>>
       ELSE UNCHANGED <<count, finished, doneCalls>>

(* Mutation of Cancel: the timeout does not finish the counter.          *)
CancelNoop ==
  /\ stepsBy' = stepsBy \cup {"timeout"}
  /\ UNCHANGED <<count, finished, doneCalls>>

(* Cancel(): safe at any time.                                             *)
Cancel ==
  /\ Finished
  /\ stepsBy' = stepsBy \cup {"timeout"}
  /\ UNCHANGED count

-----------------------------------------------------------------------------
(* Mutation of Init: the counter built with one test instead of two.       *)
InitOneTest ==
  /\ count = 1
  /\ finished = FALSE
  /\ doneCalls = 0
  /\ stepsBy = {}
  /\ msgStage = "wait_connected"
  /\ unstoppable = TRUE
  /\ timeout = TRUE
  /\ points = {"initialized"}
  /\ phase = "running"

(* Mutation of Init: the counter built one past the number of tests.      *)
InitExtraTest ==
  /\ count = kTotalSimultaneousTests + 1
  /\ finished = FALSE
  /\ doneCalls = 0
  /\ stepsBy = {}
  /\ msgStage = "wait_connected"
  /\ unstoppable = TRUE
  /\ timeout = TRUE
  /\ points = {"initialized"}
  /\ phase = "running"

(* ParentApp's constructor: the counter, the store Get for                 *)
(* one_agent_connected, the unstoppable agent's timer and the timeout.     *)
Init ==
  /\ count = kTotalSimultaneousTests
  /\ finished = FALSE
  /\ doneCalls = 0
  /\ stepsBy = {}
  /\ msgStage = "wait_connected"
  /\ unstoppable = TRUE
  /\ timeout = TRUE
  /\ points = {"initialized"}
  /\ phase = "running"

(* The store answers Get("one_agent_connected"): TestMessageQueue obtains  *)
(* the queue, installs the receiver and asks for the queue's token.        *)
OneAgentConnected ==
  /\ phase # "gone"
  /\ msgStage = "wait_connected"
  /\ points' = points \cup {"one_agent_connected"}
  /\ msgStage' = "wait_token"
  /\ UNCHANGED <<count, finished, doneCalls, stepsBy, unstoppable, timeout, phase>>

(* GetToken's reply: agent one is asked to send the test message.          *)
TokenReceived ==
  /\ phase # "gone"
  /\ msgStage = "wait_token"
  /\ msgStage' = "wait_message"
  /\ UNCHANGED <<count, finished, doneCalls, stepsBy, unstoppable, timeout, points, phase>>

(* The receiver callback: ack, msg_receiver_.reset() (the client that      *)
(* holds this very callback), the TestPoint, then done_cb, which is        *)
(* TestAgentController: close agent one's controller and Get               *)
(* "one_agent_stopped" from the store.  The statements after the reset     *)
(* read the destroyed closure's captures: they run, are lost, or crash the *)
(* process, as the build has it.                                           *)
MessageReceived ==
  /\ phase # "gone"
  /\ msgStage = "wait_message"
  /\ \E o \in ReceiverOutcomes :
       \/ o = "completes" /\ points' = points \cup {"msg_queue_communicated"}
                         /\ msgStage' = "wait_stopped" /\ UNCHANGED phase
       \/ o = "lost" /\ msgStage' = "lost" /\ UNCHANGED <<points, phase>>
       \/ o = "crash" /\ msgStage' = "lost" /\ phase' = "gone" /\ UNCHANGED points
  /\ UNCHANGED <<count, finished, doneCalls, stepsBy, unstoppable, timeout>>

(* The store answers Get("one_agent_stopped"): the TestPoint, then the     *)
(* scoped Step of the message-queue test.                                  *)
OneAgentStopped ==
  /\ phase # "gone"
  /\ msgStage = "wait_stopped"
  /\ points' = points \cup {"one_agent_stopped"}
  /\ msgStage' = "stepped"
  /\ Step("message_queue")
  /\ UNCHANGED <<unstoppable, timeout, phase>>

(* The 500 ms timer: close the unstoppable agent's controller and Step.    *)
UnstoppableTimer ==
  /\ phase # "gone"
  /\ unstoppable
  /\ unstoppable' = FALSE
  /\ Step("unstoppable_agent")
  /\ UNCHANGED <<msgStage, timeout, points, phase>>

(* The kTimeout task: steps_.Cancel().                                     *)
Timeout ==
  /\ phase # "gone"
  /\ timeout
  /\ timeout' = FALSE
  /\ Cancel
  /\ UNCHANGED <<msgStage, unstoppable, points, phase>>

(* Lifecycle.Terminate, which the framework may send at any time and sends *)
(* once the module called Done(): the TestPoint and modular::testing::Done, *)
(* which answers later.                                                     *)
Terminate ==
  /\ phase = "running"
  /\ points' = points \cup {"stopped"}
  /\ phase' = "terminating"
  /\ UNCHANGED <<count, finished, doneCalls, stepsBy, msgStage, unstoppable, timeout>>

(* The harness's done: the driver deletes ParentApp (its weak pointers die *)
(* with it) and main's callback quits the message loop.                    *)
TerminateDone ==
  /\ phase = "terminating"
  /\ phase' = "gone"
  /\ UNCHANGED <<count, finished, doneCalls, stepsBy, msgStage, unstoppable, timeout, points>>

Next ==
  \/ OneAgentConnected
  \/ TokenReceived
  \/ MessageReceived
  \/ OneAgentStopped
  \/ UnstoppableTimer
  \/ Timeout
  \/ Terminate
  \/ TerminateDone

(* The app's own delayed tasks run, the framework terminates a module that *)
(* called Done(), and the harness answers; the store and agent one are     *)
(* other programs and are not assumed to answer.                           *)
Fairness ==
  /\ WF_vars(UnstoppableTimer)
  /\ WF_vars(Timeout)
  /\ WF_vars(doneCalls > 0 /\ Terminate)
  /\ WF_vars(TerminateDone)

Spec == Init /\ [][Next]_vars /\ Fairness

-----------------------------------------------------------------------------
(* Properties                                                              *)

TypeOK ==
  /\ count \in 0 .. kTotalSimultaneousTests
  /\ finished \in BOOLEAN
  /\ doneCalls \in Nat
  /\ stepsBy \subseteq {"message_queue", "unstoppable_agent", "timeout"}
  /\ msgStage \in MsgStages
  /\ unstoppable \in BOOLEAN
  /\ timeout \in BOOLEAN
  /\ points \subseteq {"initialized", "one_agent_connected", "msg_queue_communicated",
                       "one_agent_stopped", "stopped"}
  /\ phase \in {"running", "terminating", "gone"}

(* ModuleContext.Done() is called at most once, whichever of the two tests *)
(* and the timeout reach the CounterTrigger and in whatever order.         *)
DoneAtMostOnce == doneCalls <= 1

(* The counter only finishes when both tests stepped or the timeout        *)
(* cancelled it: the module never reports Done with a test still running  *)
(* unless it timed out.                                                    *)
DoneOnlyWhenAllTestsDone ==
  finished =>
    \/ {"message_queue", "unstoppable_agent"} \subseteq stepsBy
    \/ "timeout" \in stepsBy

(* The module always terminates, even when agent one or the store never   *)
(* answers: the timeout cancels the counter.                               *)
AlwaysTerminates == <>(phase = "gone")

=============================================================================
