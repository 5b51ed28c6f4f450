-------------------------- MODULE DevUserShellSpec --------------------------
(***************************************************************************)
(* What a user shell promises the user runner, as DevUserShellApp keeps   *)
(* it: the story starts once, and only when both the view request and the *)
(* user shell context have arrived, in whichever order; the shell asks the *)
(* story to stop only once the story reports DONE, and logs out once,      *)
(* after that; a story controller that goes away ends the shell's part.   *)
(***************************************************************************)

CONSTANTS
  StoryStates       \* the states a story can report

VARIABLES
  gotView,          \* CreateView has delivered the view request
  gotContext,       \* Initialize has delivered the user shell context
  stage,            \* "idle", "started", "stopping", "loggedOut" or "lost"
  last              \* the story state last reported to the shell

vars == <<gotView, gotContext, stage, last>>

Init ==
  /\ gotView = FALSE
  /\ gotContext = FALSE
  /\ stage = "idle"
  /\ last = "INITIAL"

(* The story starts, at the earliest in the step that brings the second   *)
(* of the view request and the context.                                    *)
MayStart(view, context) ==
  \/ stage' = stage
  \/ view /\ context /\ stage = "idle" /\ stage' = "started"

CreateView ==
  /\ ~gotView
  /\ gotView' = TRUE
  /\ MayStart(TRUE, gotContext)
  /\ UNCHANGED <<gotContext, last>>

Initialize ==
  /\ ~gotContext
  /\ gotContext' = TRUE
  /\ MayStart(gotView, TRUE)
  /\ UNCHANGED <<gotView, last>>

Start ==
  /\ gotView /\ gotContext
  /\ stage = "idle"
  /\ stage' = "started"
  /\ UNCHANGED <<gotView, gotContext, last>>

(* The running story reports a state; DONE makes the shell ask it to stop. *)
Report(s) ==
  /\ stage \in {"started", "stopping"}
  /\ last' = s
  /\ stage' = IF s = "DONE" THEN "stopping" ELSE stage
  /\ UNCHANGED <<gotView, gotContext>>

Logout ==
  /\ stage = "stopping"
  /\ stage' = "loggedOut"
  /\ UNCHANGED <<gotView, gotContext, last>>

(* The story controller goes away before the shell logged out.             *)
Lose ==
  /\ stage \in {"started", "stopping"}
  /\ stage' = "lost"
  /\ UNCHANGED <<gotView, gotContext, last>>

Next ==
  \/ CreateView
  \/ Initialize
  \/ Start
  \/ \E s \in StoryStates : Report(s)
  \/ Logout
  \/ Lose

Spec == Init /\ [][Next]_vars

=============================================================================
