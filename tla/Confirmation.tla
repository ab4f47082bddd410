---------------------------- MODULE Confirmation ----------------------------
(***************************************************************************)
(* One confirmation_required job: the card it posts, the approvals and      *)
(* cancellations that arrive as runtime_control jobs from buttons, HTTP and *)
(* the CLI, and the command an approval creates.  The confirmation's row is *)
(* written by its own worker, by every control and by the resolver, each    *)
(* from what it read earlier.  The job engine is reduced to what it does to *)
(* this row: claim, resolve, settle children, sweep, restart.               *)
(***************************************************************************)
EXTENDS JobKinds, Naturals, FiniteSets

CONSTANTS
    Slot,        \* permits that may claim the confirmation
    Control,     \* runtime_control jobs that target it
    ActionOf,    \* [Control -> { "approve", "cancel" }]
    Requester,   \* the controls that act for the user who asked
    Card,        \* bound on the cards that can be posted
    MaxRestarts  \* bound on restarts

ASSUME ConfirmationAssumption ==
    /\ ActionOf \in [Control -> { "approve", "cancel" }]
    /\ Requester \subseteq Control
    /\ Card \cap Control = {}
    /\ MaxRestarts \in Nat

VARIABLES
    row,        \* state of the confirmation's row
    child,      \* [Card \cup Control -> state]: cards, and the controls' commands
    worker,     \* [Slot -> Worker]: executions of prepare_confirmation_required_job
    control,    \* [Control -> ControlJob]
    resolving,  \* the resolver has read the row and will queue it
    restarts    \* restarts so far

confirmationVars == << row, child, worker, control, resolving, restarts >>

ChildState == { Gone, "queued", "complete", "failed" }

Plan == { "refuse", "note", "post", "send", "wait", "fail", "complete" }

Worker == [ pc : { "idle", "prepare", "read", "write" }, plan : Plan, seen : JobState ]

Idle == [ pc |-> "idle", plan |-> "wait", seen |-> "queued" ]

ControlJob == { "new", "write", "dispatch", "failed", "reread", "finish", "done", "refused",
                "lost" }

---------------------------------------------------------------------------
(***************************************************************************)
(* The job engine, as far as the confirmation sees it.                      *)
(***************************************************************************)

Children == { c \in Card \cup Control : child[c] # Gone }
Settled(c) == child[c] \in { "complete", "failed" }

Claim(s) ==
    /\ row = "queued" /\ worker[s].pc = "idle"
    /\ row' = "running"
    /\ worker' = [ worker EXCEPT ![s] =
                     [ pc |-> "prepare", plan |-> "wait", seen |-> "running" ] ]
    /\ UNCHANGED << child, control, resolving, restarts >>

\* A card is sent, or a command executed; or it fails.
ChildSettles(c) ==
    /\ child[c] = "queued"
    /\ \E s \in { "complete", "failed" } : child' = [ child EXCEPT ![c] = s ]
    /\ UNCHANGED << row, worker, control, resolving, restarts >>

ResolveRead ==
    /\ row = "waiting" /\ ~resolving
    /\ Children # {} /\ \A c \in Children : Settled(c)
    /\ resolving' = TRUE
    /\ UNCHANGED << row, child, worker, control, restarts >>

ResolvePut ==
    /\ resolving
    /\ row' = "queued"
    /\ resolving' = FALSE
    /\ UNCHANGED << child, worker, control, restarts >>

\* The stale sweep, once the worker is lost.
Sweep ==
    /\ row = "running" /\ \A s \in Slot : worker[s].pc = "idle"
    /\ row' = "failed_timeout"
    /\ UNCHANGED << child, worker, control, resolving, restarts >>

Restart ==
    /\ restarts < MaxRestarts
    /\ restarts' = restarts + 1
    /\ worker' = [ s \in Slot |-> Idle ]
    /\ control' = [ c \in Control |->
         IF control[c] \in { "new", "done", "refused" } THEN control[c] ELSE "lost" ]
    /\ resolving' = FALSE
    /\ UNCHANGED << row, child >>

---------------------------------------------------------------------------
(***************************************************************************)
(* The confirmation's own handler.  It decides from its children, and every *)
(* write that follows, its own and the dispatcher's, first reads the row.   *)
(***************************************************************************)

Step(s, pc, plan, seen) ==
    worker' = [ worker EXCEPT ![s] = [ pc |-> pc, plan |-> plan, seen |-> seen ] ]

\* Mutant: the card's outcome is not looked at.
PlansUnchecked ==
    CASE \E c \in Children : ~Settled(c) -> { "wait" }
      [] (\A c \in Children : Settled(c)) /\ Children \cap Card # {} -> { "post" }
      [] OTHER -> { "send" }

\* What the handler makes of its children.
Plans ==
    CASE \E c \in Children : ~Settled(c) -> { "wait" }
      [] (\A c \in Children : Settled(c)) /\ \E c \in Children : child[c] = "failed"
           -> { "note" }
      [] (\A c \in Children : child[c] = "complete") /\ Children \cap Card # {}
           -> { "post" }
      [] OTHER -> { "send" }

\* The children are listed; without an addressee the card is refused.
Prepare(s) ==
    /\ worker[s].pc = "prepare"
    /\ \E p \in Plans : Step(s, "read", p, worker[s].seen)
         \/ Step(s, "write", "refuse", worker[s].seen)
    /\ UNCHANGED << row, child, control, resolving, restarts >>

Read(s) ==
    /\ worker[s].pc = "read"
    /\ Step(s, "write", worker[s].plan, row)
    /\ UNCHANGED << row, child, control, resolving, restarts >>

Rewrite(s) ==
    LET w == worker[s]
    IN  /\ w.pc = "write"
        /\ \/ /\ w.plan \in { "refuse", "note" }
              /\ row' = w.seen
              /\ Step(s, "read", "fail", w.seen)
           \/ /\ w.plan = "post"
              /\ row' = "confirmation_pending"
              /\ Step(s, "read", "complete", w.seen)
           \/ /\ w.plan = "wait"
              /\ row' = IF w.seen \in Terminal THEN row ELSE "waiting"
              /\ worker' = [ worker EXCEPT ![s] = Idle ]
           \/ /\ w.plan = "fail"
              /\ row' = "failed"
              /\ worker' = [ worker EXCEPT ![s] = Idle ]
           \/ /\ w.plan = "complete"
              /\ row' = IF w.seen \in { "waiting", "queued", "confirmation_pending" }
                        THEN w.seen ELSE "complete"
              /\ worker' = [ worker EXCEPT ![s] = Idle ]
        /\ UNCHANGED << child, control, resolving, restarts >>

\* wait_dispatched_job creates the discord_text_send child.
SendCard(s) ==
    /\ worker[s].pc = "write" /\ worker[s].plan = "send"
    /\ \E k \in Card \ Children : child' = [ child EXCEPT ![k] = "queued" ]
    /\ row' = IF worker[s].seen \in Terminal THEN row ELSE "waiting"
    /\ worker' = [ worker EXCEPT ![s] = Idle ]
    /\ UNCHANGED << control, resolving, restarts >>

---------------------------------------------------------------------------
(***************************************************************************)
(* Controls.                                                                *)
(***************************************************************************)

MoveTo(c, pc) == control' = [ control EXCEPT ![c] = pc ]

\* Read the row; only the requester may decide, and only an undecided row.
BeginControl(c) ==
    /\ control[c] = "new"
    /\ MoveTo(c, IF row \in { "queued", "confirmation_pending" } /\ c \in Requester
                 THEN "write" ELSE "refused")
    /\ UNCHANGED << row, child, worker, resolving, restarts >>

ApproveConfirmation(c) ==
    /\ control[c] = "write" /\ ActionOf[c] = "approve"
    /\ row' = "approved"
    /\ MoveTo(c, "dispatch")
    /\ UNCHANGED << child, worker, resolving, restarts >>

CancelConfirmation(c) ==
    /\ control[c] = "write" /\ ActionOf[c] = "cancel"
    /\ row' = "cancelled"
    /\ MoveTo(c, "done")
    /\ UNCHANGED << child, worker, resolving, restarts >>

\* Mutant: the command is created without an edge that could wake the row.
DispatchDetached(c) ==
    /\ control[c] = "dispatch"
    /\ row' = "waiting"
    /\ MoveTo(c, "reread")
    /\ UNCHANGED << child, worker, resolving, restarts >>

\* create_command_job: the command becomes a child of the approved row.
DispatchCommand(c) ==
    /\ control[c] = "dispatch"
    /\ child' = [ child EXCEPT ![c] = "queued" ]
    /\ row' = "waiting"
    /\ MoveTo(c, "reread")
    /\ UNCHANGED << worker, resolving, restarts >>

\* ... unless that fails, which is recorded in a write of its own.
DispatchError(c) ==
    /\ control[c] = "dispatch"
    /\ MoveTo(c, "failed")
    /\ UNCHANGED << row, child, worker, resolving, restarts >>

RecordError(c) ==
    /\ control[c] = "failed"
    /\ row' = "approval_failed"
    /\ MoveTo(c, "done")
    /\ UNCHANGED << child, worker, resolving, restarts >>

\* An approved row that does not wait for the command is complete.
Reread(c) ==
    /\ control[c] = "reread"
    /\ MoveTo(c, IF row = "waiting" THEN "done" ELSE "finish")
    /\ UNCHANGED << row, child, worker, resolving, restarts >>

FinishApproval(c) ==
    /\ control[c] = "finish"
    /\ row' = "complete"
    /\ MoveTo(c, "done")
    /\ UNCHANGED << child, worker, resolving, restarts >>

---------------------------------------------------------------------------
ConfirmationInit ==
    /\ row = "queued"
    /\ child = [ c \in Card \cup Control |-> Gone ]
    /\ worker = [ s \in Slot |-> Idle ]
    /\ control = [ c \in Control |-> "new" ]
    /\ resolving = FALSE
    /\ restarts = 0

WorkerStep(s) == Prepare(s) \/ Read(s) \/ Rewrite(s) \/ SendCard(s)

\* A control that has begun goes on.
ControlStep(c) ==
    \/ ApproveConfirmation(c)
    \/ CancelConfirmation(c)
    \/ DispatchCommand(c)
    \/ DispatchError(c)
    \/ RecordError(c)
    \/ Reread(c)
    \/ FinishApproval(c)

ConfirmationNext ==
    \/ \E s \in Slot : Claim(s) \/ WorkerStep(s)
    \/ \E c \in Control : BeginControl(c) \/ ControlStep(c)
    \/ \E c \in Card \cup Control : ChildSettles(c)
    \/ ResolveRead
    \/ ResolvePut
    \/ Sweep
    \/ Restart

ConfirmationSpec == ConfirmationInit /\ [][ConfirmationNext]_confirmationVars

---------------------------------------------------------------------------
(***************************************************************************)
(* Properties.                                                              *)
(***************************************************************************)

\* Every variable has its type.
ConfirmationTypeOK ==
    /\ row \in JobState
    /\ child \in [Card \cup Control -> ChildState]
    /\ worker \in [Slot -> Worker]
    /\ control \in [Control -> ControlJob]
    /\ resolving \in BOOLEAN
    /\ restarts \in Nat

\* A confirmation that asks for a decision has posted its card, whatever order
\* the posting, the approvals and their commands settle in
\* (prepare_confirmation_required_job, complete_dispatched_job).
PendingIsPosted ==
    row = "confirmation_pending" => \E k \in Card : child[k] = "complete"

\* A command runs for an approval by whoever asked, and for nothing else, whatever a
\* racing decision has made of the row (approve_confirmation,
\* require_confirmation_actor).
CommandsApproved ==
    \A c \in Control : child[c] # Gone => ActionOf[c] = "approve" /\ c \in Requester

Overlap == \E s, t \in Slot : s # t /\ worker[s].pc # "idle" /\ worker[t].pc # "idle"

\* Unless executions of the row overlap again and again, it comes to rest:
\* settled, or pending for a decision; only a restart between an approval and
\* its command leaves it approved for good (approve_confirmation,
\* resolve_waiting_jobs, fail_stale_running_jobs).
ComesToRest ==
    \/ <>[]( \/ row \in Terminal \cup { "confirmation_pending" }
             \/ row = "approved" /\ restarts > 0 )
    \/ []<>Overlap

\* Claims, handlers, children, the resolver, the sweep and controls under way
\* go on; whether anybody decides, or the process restarts, is open.
Fairness ==
    /\ \A s \in Slot : WF_confirmationVars(Claim(s) \/ WorkerStep(s))
    /\ \A c \in Control : WF_confirmationVars(ControlStep(c))
    /\ \A c \in Card \cup Control : WF_confirmationVars(ChildSettles(c))
    /\ WF_confirmationVars(ResolveRead) /\ WF_confirmationVars(ResolvePut) /\ WF_confirmationVars(Sweep)

FairConfirmationSpec == ConfirmationSpec /\ Fairness
=============================================================================
