------------------------------- MODULE AgentTurn -------------------------------
(***************************************************************************)
(* One agent_task job from its first claim to its outcome: typing start,    *)
(* the Codex process, typing stop, and the three attempts of a task whose   *)
(* Codex fails.  While Codex runs it submits text deliveries through the    *)
(* runtime (TextDelivery), with which the task shares the session's thread; *)
(* the task may be cancelled, and the process may restart.  The job engine  *)
(* is reduced to claiming, waking and settling children; its own races are  *)
(* JobEngine's subject, so that a handler's last read and the write that    *)
(* follows are one step here.  The preflight and the prompt are not such a  *)
(* last read: they take long, and what dispatch_agent_task read before them *)
(* it writes back whole after them.                                         *)
(***************************************************************************)
EXTENDS TextDelivery

CONSTANTS
    Tries,       \* attempts at dispatch before a task fails (3 in the code)
    MaxRestarts  \* bound on restarts

ASSUME TurnAssumption == Tries \in Nat \ { 0 } /\ MaxRestarts \in Nat

VARIABLES
    row,        \* the task's row and its dispatch metadata
    start,      \* [0 .. Tries-1 -> Typing]: typing start children, by attempt
    stop,       \* [0 .. Tries-1 -> Typing]: typing stop children, by attempt
    stage,      \* what the worker of the claimed row is doing
    copy,       \* the row as a worker in preflight has read it
    cancelled,  \* history: a cancellation reached the running task, other than
                \* while it was in preflight
    noticed,    \* the "ChatGPT is unavailable" delivery was created
    restarts    \* restarts so far

taskVars == << row, start, stop, stage, copy, cancelled, noticed, restarts >>

vars == << taskVars, deliveryVars >>

Attempt == 0 .. Tries - 1

\* error: dispatch_error; outcome: Codex returned and its result was recorded;
\* cancel: the metadata flag.
Task == [ state : JobState, error : { "none", "plain", "infra" },
          attempts : 0 .. Tries, outcome : BOOLEAN, cancel : BOOLEAN ]

\* The task as it is created.
Created == [ state |-> "queued", error |-> "none", attempts |-> 0,
             outcome |-> FALSE, cancel |-> FALSE ]

\* unavailable: failed because Discord does not know the thread.
Typing == { Gone, "queued", "complete", "failed", "unavailable", "cancelled" }

Answered  == \E d \in Delivery : delivery[d].state # Gone
Submitted == Answered \/ noticed

\* Mutant: the flag in the metadata is not looked at.
CancelByState == row.state \in { "cancel_requested", "cancelled" }

CancelRequested == row.cancel \/ row.state \in { "cancel_requested", "cancelled" }

---------------------------------------------------------------------------
(***************************************************************************)
(* The engine and Discord, as far as the task sees them.                    *)
(***************************************************************************)

Claim ==
    /\ row.state = "queued" /\ stage = "idle"
    /\ row' = [ row EXCEPT !.state = "running" ]
    /\ stage' = "prepare"
    /\ UNCHANGED << start, stop, copy, cancelled, noticed, restarts, deliveryVars >>

\* resolve_waiting_jobs: every child has settled, and the handler shall look.
Resume ==
    /\ row.state = "waiting" /\ stage = "idle"
    /\ \E a \in Attempt : start[a] # Gone
    /\ \A a \in Attempt : start[a] # "queued" /\ stop[a] # "queued"
    /\ row' = [ row EXCEPT !.state = "queued" ]
    /\ UNCHANGED << start, stop, stage, copy, cancelled, noticed, restarts, deliveryVars >>

\* The start child posts the indicator; without a thread, or when the thread
\* turns out to be gone, it is skipped; or it fails.
StartSettles(a) ==
    /\ start[a] = "queued"
    /\ \/ /\ start' = [ start EXCEPT ![a] = "complete" ]
          /\ target' = IF target \in dead THEN NoThread ELSE target
       \/ /\ \E s \in { "failed", "unavailable" } : start' = [ start EXCEPT ![a] = s ]
          /\ UNCHANGED target
    /\ UNCHANGED << row, stop, stage, copy, cancelled, noticed, restarts, delivery, made, dead >>

StopSettles(a) ==
    /\ stop[a] = "queued"
    /\ \E s \in { "complete", "failed" } : stop' = [ stop EXCEPT ![a] = s ]
    /\ UNCHANGED << row, start, stage, copy, cancelled, noticed, restarts, deliveryVars >>

---------------------------------------------------------------------------
(***************************************************************************)
(* dispatch_claimed_agent_task_job.  A task is never claimed while one of   *)
(* its typing children is open, nor with its attempts used up: these early  *)
(* returns have no action.                                                  *)
(***************************************************************************)

LastStop == { a \in Attempt : stop[a] # Gone /\ \A b \in Attempt : stop[b] # Gone => b <= a }

\* agent_task_retry_after_stopped_error: the error belongs to an earlier
\* attempt whose typing has been stopped.
ErrorIsOld == row.error # "none" /\ \E a \in LastStop : row.attempts > a

\* What the handler works on once an old error is cleared.
Read == IF ErrorIsOld THEN [ row EXCEPT !.error = "none" ] ELSE row

HasOutcome == Read.error # "none" \/ Read.outcome

PutBack(state) == row' = [ Read EXCEPT !.state = state ]

\* wait_dispatched_job: a settled row stays as it is.
WaitAs(r) == row' = IF r.state \in Terminal THEN r ELSE [ r EXCEPT !.state = "waiting" ]

Leave == stage' = "idle"

StartTyping ==
    /\ stage = "prepare" /\ ~HasOutcome /\ Read.attempts < Tries
    /\ start[Read.attempts] = Gone
    /\ start' = [ start EXCEPT ![Read.attempts] = "queued" ]
    /\ WaitAs(Read)
    /\ Leave
    /\ UNCHANGED << stop, copy, cancelled, noticed, restarts, deliveryVars >>

StartFailed ==
    /\ stage = "prepare" /\ ~HasOutcome /\ Read.attempts < Tries
    /\ start[Read.attempts] \in { "failed", "cancelled" }
    /\ PutBack("failed")
    /\ Leave
    /\ UNCHANGED << start, stop, copy, cancelled, noticed, restarts, deliveryVars >>

\* dispatch_agent_task looks whether the task is cancelled, then goes on with the row
\* it has read.  A start child that failed for want of the thread is made good: the
\* session forgets the thread and the child is completed.
CheckTask ==
    /\ stage = "prepare" /\ ~HasOutcome /\ Read.attempts < Tries
    /\ start[Read.attempts] \in { "complete", "unavailable" }
    /\ start' = [ start EXCEPT ![Read.attempts] = "complete" ]
    /\ IF start[Read.attempts] = "unavailable" /\ target \in dead
       THEN ForgetThread(target) ELSE UNCHANGED target
    /\ row' = Read
    /\ IF CancelRequested THEN stage' = "plain" /\ UNCHANGED copy
       ELSE stage' = "preflight" /\ copy' = Read
    /\ UNCHANGED << stop, cancelled, noticed, restarts, delivery, made, dead >>

\* A tool does not answer, or the session or the prompt cannot be had.
PreflightFails ==
    /\ stage = "preflight"
    /\ stage' \in { "infra", "plain" }
    /\ copy' = Created
    /\ UNCHANGED << row, start, stop, cancelled, noticed, restarts, deliveryVars >>

\* The row is written back as it was read before the preflight, whatever has become of
\* it, and Codex is started.
StartCodex ==
    /\ stage = "preflight"
    /\ row' = copy
    /\ stage' = "codex"
    /\ copy' = Created
    /\ UNCHANGED << start, stop, cancelled, noticed, restarts, deliveryVars >>

\* `clankcord responses' from inside the Codex process.
SubmitText ==
    /\ stage = "codex"
    /\ \E d \in Delivery : Submit(d)
    /\ UNCHANGED << taskVars, target, made, dead >>

\* What came of the attempt: a result, an error of the task, or one of Codex.
Errors(s) == IF s = "codex" THEN { "none", "plain", "infra" } ELSE { s }

\* Codex exits: its result, or its error, is written to the row as it is now,
\* which then waits for the typing to stop.
CodexReturns ==
    /\ stage \in { "codex", "plain", "infra" }
    /\ \E e \in Errors(stage) :
         LET back == IF e = "none"
                     THEN [ row EXCEPT !.outcome = TRUE, !.error = "none", !.attempts = 0 ]
                     ELSE [ row EXCEPT !.error = e ]
         IN  WaitAs(back)
    /\ stop' = [ stop EXCEPT ![row.attempts] = "queued" ]
    /\ Leave
    /\ UNCHANGED << start, copy, cancelled, noticed, restarts, deliveryVars >>

---------------------------------------------------------------------------
(***************************************************************************)
(* finish_agent_task_after_typing_stop.                                     *)
(***************************************************************************)

Finishing(s) == stage = "prepare" /\ HasOutcome /\ \E a \in LastStop : stop[a] \in s

StopFailed ==
    /\ Finishing({ "failed", "cancelled" })
    /\ PutBack("failed")
    /\ Leave
    /\ UNCHANGED << start, stop, copy, cancelled, noticed, restarts, deliveryVars >>

\* complete_agent_task_job: complete, with or without a delivery to show.
FinishOutcome ==
    /\ Finishing({ "complete" }) /\ Read.error = "none"
    /\ PutBack(IF CancelRequested THEN "cancelled" ELSE "complete")
    /\ Leave
    /\ UNCHANGED << start, stop, copy, cancelled, noticed, restarts, deliveryVars >>

\* Mutant: a failed attempt is retried although it had answered.
FinishErrorBlindly ==
    /\ Finishing({ "complete" }) /\ Read.error # "none"
    /\ LET next == (CHOOSE a \in LastStop : TRUE) + 1
           last == Read.error = "infra" \/ next >= Tries
       IN  /\ row' = IF CancelRequested THEN [ Read EXCEPT !.state = "cancelled" ]
                     ELSE [ Read EXCEPT !.state = IF last THEN "failed" ELSE "queued",
                                        !.attempts = IF last THEN Tries ELSE next ]
    /\ Leave
    /\ UNCHANGED << start, stop, copy, cancelled, noticed, restarts, deliveryVars >>

\* fail_agent_task_job: a task that was answered is complete; otherwise it is
\* tried again, or fails, and an infrastructure error may be told to the user.
FinishError ==
    /\ Finishing({ "complete" }) /\ Read.error # "none"
    /\ LET next == (CHOOSE a \in LastStop : TRUE) + 1
           last == Read.error = "infra" \/ next >= Tries
       IN  \/ /\ CancelRequested
              /\ PutBack("cancelled")
              /\ UNCHANGED << noticed, delivery >>
           \/ /\ ~CancelRequested /\ Submitted
              /\ PutBack("complete")
              /\ UNCHANGED << noticed, delivery >>
           \/ /\ ~CancelRequested /\ ~Submitted
              /\ row' = [ Read EXCEPT !.state = IF last THEN "failed" ELSE "queued",
                                      !.attempts = IF last THEN Tries ELSE next ]
              /\ \/ UNCHANGED << noticed, delivery >>
                 \/ /\ Read.error = "infra"
                    /\ noticed' = TRUE
                    /\ \E d \in Delivery : Submit(d)
    /\ Leave
    /\ UNCHANGED << start, stop, copy, cancelled, restarts, target, made, dead >>

---------------------------------------------------------------------------
(***************************************************************************)
(* Cancellation and restart.                                                *)
(***************************************************************************)

CancelChildren(c) == [ a \in Attempt |-> IF c[a] = "queued" THEN "cancelled" ELSE c[a] ]

\* cancel_job_tree: a running task is asked to stop, any other is cancelled,
\* and the children that have not run go with it.
Cancel ==
    /\ row.state \in Cancellable
    /\ row' = IF row.state = "running"
              THEN [ row EXCEPT !.state = "cancel_requested", !.cancel = TRUE ]
              ELSE [ row EXCEPT !.state = "cancelled" ]
    /\ cancelled' = (cancelled \/ (row.state = "running" /\ stage # "preflight"))
    /\ start' = CancelChildren(start)
    /\ stop' = CancelChildren(stop)
    /\ UNCHANGED << stage, copy, noticed, restarts, deliveryVars >>

\* Mutant: start-up does not look for what the task had submitted.
RestartForgettingAnswers ==
    /\ restarts < MaxRestarts
    /\ restarts' = restarts + 1
    /\ row' = IF row.state = "running" THEN [ row EXCEPT !.state = "failed", !.error = "plain" ]
              ELSE row
    /\ stage' = "idle" /\ copy' = Created
    /\ UNCHANGED << start, stop, cancelled, noticed, deliveryVars >>

\* recover_interrupted_agent_tasks: a running task is complete when it had
\* answered and failed otherwise.
Restart ==
    /\ restarts < MaxRestarts
    /\ restarts' = restarts + 1
    /\ row' = CASE row.state = "running" /\ Submitted -> [ row EXCEPT !.state = "complete" ]
                [] row.state = "running" /\ ~Submitted ->
                     [ row EXCEPT !.state = "failed", !.error = "plain" ]
                [] OTHER -> row
    /\ stage' = "idle" /\ copy' = Created
    /\ UNCHANGED << start, stop, cancelled, noticed, deliveryVars >>

---------------------------------------------------------------------------
Init ==
    /\ row = Created
    /\ start = [ a \in Attempt |-> Gone ]
    /\ stop = [ a \in Attempt |-> Gone ]
    /\ stage = "idle" /\ copy = Created
    /\ cancelled = FALSE
    /\ DeliveryInit
    /\ noticed = FALSE
    /\ restarts = 0

Handler ==
    \/ StartTyping \/ StartFailed \/ CheckTask \/ PreflightFails \/ StartCodex
    \/ CodexReturns \/ StopFailed \/ FinishOutcome \/ FinishError

\* The deliveries go on whatever becomes of the task.
DeliveryStep(step) == step /\ UNCHANGED taskVars

DeliveryTurn(d) == HandleDelivery(d) \/ ResumeDelivery(d) \/ ChildStep(d)

TurnStep == \/ Claim \/ Resume \/ Handler
            \/ \E a \in Attempt : StartSettles(a) \/ StopSettles(a)

Next ==
    \/ TurnStep \/ SubmitText
    \/ \E d \in Delivery : DeliveryStep(DeliveryTurn(d))
    \/ \E t \in Thread : DeliveryStep(ThreadDies(t))
    \/ Cancel \/ Restart

Spec == Init /\ [][Next]_vars

\* Claims, handlers, the resolver and typing children go on; what the user, the
\* thread and the process do is open.
FairSpec ==
    /\ Spec
    /\ WF_vars(TurnStep)
    /\ \A d \in Delivery : WF_vars(DeliveryStep(DeliveryTurn(d)))


---------------------------------------------------------------------------
(***************************************************************************)
(* Properties.                                                              *)
(***************************************************************************)

\* Every variable has its type.
TypeOK ==
    /\ row \in Task
    /\ start \in [ Attempt -> Typing ]
    /\ stop \in [ Attempt -> Typing ]
    /\ stage \in { "idle", "prepare", "preflight", "codex", "plain", "infra" }
    /\ copy \in Task /\ cancelled \in BOOLEAN
    /\ noticed \in BOOLEAN
    /\ DeliveryTypeOK
    /\ restarts \in Nat

\* Once the task has answered, no other Codex process is started for it: the
\* user never gets a second answer to one request (fail_agent_task_job).
AnsweredNotRerun == [][stage # "codex" /\ stage' = "codex" => ~Submitted]_vars

\* A task that answered ends failed only when its typing could not be stopped:
\* neither a failed attempt nor a restart of the process hides the answer
\* (fail_agent_task_job, recover_interrupted_agent_tasks).
AnswerSurvivesFailure ==
    row.state = "failed" /\ Submitted /\ ~noticed =>
        \E a \in Attempt : start[a] \in { "failed", "cancelled" }
                            \/ stop[a] \in { "failed", "cancelled" }

\* A cancellation that reached the running task is not forgotten through errors,
\* retries and whole rows written back: the task does not end complete, unless a
\* restart recovered it (cancel_requested in the metadata, complete_agent_task_job).
\* One that arrives between the check before the preflight and the start of Codex is
\* overwritten, and is not counted: the start writes back the row read at the check
\* (dispatch_agent_task).
CancelIsKept == cancelled /\ row.state = "complete" => restarts > 0

\* The task and everything it submitted settles; only a task that was running
\* with a cancellation pending when the process stopped may stay as it is.
TurnSettles ==
    <>[] /\ row.state \in Terminal \/ (row.state = "cancel_requested" /\ restarts > 0)
         /\ \A d \in Delivery : delivery[d].state \in { Gone, "complete", "failed" }
=============================================================================
