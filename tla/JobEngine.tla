----------------------------- MODULE JobEngine -----------------------------
(***************************************************************************)
(* The durable job engine: the jobs table and its dependency edges, the     *)
(* drain pass (stale sweep, resolution of waiting parents, claims by lane   *)
(* and ordering key), the workers that dispatch claimed jobs, the loop that *)
(* sleeps between drains, and what disturbs them: a second drain started    *)
(* over HTTP, administrative rewrites of rows, lost writes and restarts.    *)
(*                                                                         *)
(* Every database transaction is one action; a read and the write that      *)
(* follows it are two, with the row as it was read kept in between.  What a *)
(* handler does is abstracted to the decision it returns and the children   *)
(* it emits; the modules of single domains refine that.                     *)
(***************************************************************************)
EXTENDS JobKinds, Naturals, Sequences, FiniteSets

CONSTANTS
    Job,          \* the jobs of an instance; a job's number is its id
    NoJob,        \* not a job
    NoKey,        \* the empty ordering key
    KindOf,       \* [Job -> JobKind]
    KeyOf,        \* [Job -> ordering keys and NoKey]
    Batches,      \* [Job -> Seq(Seq(Job))]: children a handler emits, call by call
    Inline,       \* jobs whose handler inserts its child itself before it returns
    Roots,        \* jobs submitted from outside
    Slot,         \* worker permits
    LaneOf,       \* [Slot -> Lane]
    BatchLimit,   \* permits a drain takes of one lane at most
    Drainer,      \* "loop", and "http" where /v1/jobs/run-due is used
    Faults,       \* which disturbances an instance has
    Tick,         \* the maintenance chain keeps a queued job in the table
    MaxAttempts,  \* bound on retries of a job
    MaxRequests,  \* bound on administrative requests, drains over HTTP among them
    MaxRestarts   \* bound on restarts

FaultNames == { "hang", "lost_write", "lost_lookup", "retry", "cancel" }

Kids(j) == UNION { { Batches[j][n][m] : m \in DOMAIN Batches[j][n] } :
                   n \in DOMAIN Batches[j] }

ASSUME JobAssumption ==
    /\ IsFiniteSet(Job) /\ NoJob \notin Job
    /\ KindOf \in [Job -> JobKind]
    /\ DOMAIN KeyOf = Job
    /\ Batches \in [Job -> Seq(Seq(Job) \ { << >> })]
    /\ Inline \subseteq Job /\ Roots \subseteq Job

\* A child's id is fresh: it is emitted once, by one parent, and not submitted.
ASSUME ChildAssumption ==
    /\ \A j \in Job : Kids(j) \cap Roots = {}
    /\ \A i, j \in Job : i # j => Kids(i) \cap Kids(j) = {}
    /\ \A j \in Job : \A n \in DOMAIN Batches[j] : \A k, m \in DOMAIN Batches[j][n] :
         k # m => Batches[j][n][k] # Batches[j][n][m]

ASSUME EnvironmentAssumption ==
    /\ LaneOf \in [Slot -> Lane]
    /\ Drainer \subseteq { "loop", "http" } /\ "loop" \in Drainer
    /\ Faults \subseteq FaultNames /\ Tick \in BOOLEAN
    /\ BatchLimit \in Nat /\ MaxAttempts \in Nat /\ MaxRequests \in Nat /\ MaxRestarts \in Nat

VARIABLES
    row,        \* [Job -> Row]: the jobs table
    created,    \* Seq(Job): the jobs in the order of created_at
    deps,       \* set of <<parent, child>>: job_dependencies
    outcomes,   \* [Job -> Seq(state)]: operational_job_outcomes
    logged,     \* terminal jobs whose outcome carries their updated_at
    aged,       \* running rows older than the stale-running timeout
    worker,     \* [Slot -> Worker]: permits and the workers that hold them
    drain,      \* [Drainer -> Drain]: drain passes in progress
    notified,   \* the permit stored in the dispatch loop's Notify
    requests,   \* Seq of [job, row]: rewrites an administrative request still owes
    asked,      \* administrative requests so far
    restarts    \* restarts so far

store == << row, created, deps, outcomes, logged, aged >>
admin == << requests, asked >>
vars  == << store, worker, drain, notified, admin, restarts >>

---------------------------------------------------------------------------
(***************************************************************************)
(* Rows.                                                                    *)
(***************************************************************************)

\* delay: next_run_at is unset, in the future, or past; cancel: the metadata flag.
Row == [ state    : JobState \cup { Gone },
         delay    : { "none", "pending", "elapsed" },
         attempts : Nat,
         cancel   : BOOLEAN ]

Blank == [ state |-> Gone, delay |-> "none", attempts |-> 0, cancel |-> FALSE ]

InState(r, s) == [ r EXCEPT !.state = s ]

Fresh == InState(Blank, "queued")

IsTerminal(j) == row[j].state \in Terminal
Exists(j)     == row[j].state # Gone
Children(p)   == { c \in Job : << p, c >> \in deps }
\* Mutant: a child that is still queued does not keep its parent waiting.
OpenChildrenStarted(p) == { c \in Children(p) : row[c].state \in Open \ { "queued" } }

OpenChildren(p) == { c \in Children(p) : row[c].state \in Open }
Created       == { created[n] : n \in DOMAIN created }

\* One transaction that writes the rows of `new' whole, over whatever is there,
\* and records an outcome for each job it takes from open to terminal.
Upsert(new) ==
    LET settled == { j \in DOMAIN new : /\ new[j].state \in Terminal
                                        /\ row[j].state \notin Terminal }
    IN  /\ row' = [ j \in Job |-> IF j \in DOMAIN new THEN new[j] ELSE row[j] ]
        /\ outcomes' = [ j \in Job |-> IF j \in settled
                                       THEN Append(outcomes[j], new[j].state)
                                       ELSE outcomes[j] ]
        /\ logged' = (logged \ DOMAIN new) \cup settled
        /\ aged' = aged \ DOMAIN new

Update(j, r) == Upsert([ i \in { j } |-> r ]) /\ UNCHANGED << created, deps >>

\* Mutant: the parent is queued again at once instead of waiting for the child.
InsertChildEager(p, seen, c) ==
    /\ Upsert([ i \in { c } \cup (IF seen.state \in Terminal THEN {} ELSE { p })
                |-> IF i = c THEN Fresh ELSE InState(seen, "queued") ])
    /\ deps' = deps \cup { << p, c >> }
    /\ created' = Append(created, c)

\* create_child_job: the child, the edge, and the parent as the caller saw it, waiting.
InsertChild(p, seen, c) ==
    /\ Upsert([ i \in { c } \cup (IF seen.state \in Terminal THEN {} ELSE { p })
                |-> IF i = c THEN Fresh ELSE InState(seen, "waiting") ])
    /\ deps' = deps \cup { << p, c >> }
    /\ created' = Append(created, c)

---------------------------------------------------------------------------
(***************************************************************************)
(* Jobs arrive; time passes.                                                *)
(***************************************************************************)

\* handle_runtime_submission: insert, then wake the dispatch loop.
Submit(j) ==
    /\ j \in Roots \ Created
    /\ Upsert([ i \in { j } |-> Fresh ])
    /\ created' = Append(created, j)
    /\ notified' = TRUE
    /\ UNCHANGED << deps, worker, drain, admin, restarts >>

\* next_run_at passes.
Elapse(j) ==
    /\ row[j].delay = "pending"
    /\ row' = [ row EXCEPT ![j].delay = "elapsed" ]
    /\ UNCHANGED << created, deps, outcomes, logged, aged, worker, drain,
                    notified, admin, restarts >>

Busy == { s \in Slot : worker[s].pc \in { "run", "put", "children" } }

\* A running row passes the stale-running timeout: its worker is lost, or hangs.
Age(j) ==
    /\ row[j].state = "running" /\ KindOf[j] # "agent_task"
    /\ "hang" \in Faults \/ \A s \in Busy : worker[s].job # j
    /\ j \notin aged
    /\ aged' = aged \cup { j }
    /\ UNCHANGED << row, created, deps, outcomes, logged, worker, drain,
                    notified, admin, restarts >>

---------------------------------------------------------------------------
(***************************************************************************)
(* Workers.  A permit is free, held by a drain that is about to claim, or   *)
(* held by the worker of a claimed job, which runs the handler, writes its  *)
(* decision, and then drops the permit and wakes the loop.                  *)
(***************************************************************************)

Verdict == { "none", "complete", "fail", "retry", "wait", "children" }

Worker == [ pc      : { "free", "held", "run", "put", "children", "done" },
            job     : Job \cup { NoJob },
            seen    : Row,
            verdict : Verdict,
            rest    : Seq(Job) ]

Idle(pc) == [ pc |-> pc, job |-> NoJob, seen |-> Blank, verdict |-> "none",
              rest |-> << >> ]

\* Batches the handler of j has not emitted yet; it emits them in order.
Ahead(j) == { n \in DOMAIN Batches[j] :
                \A m \in DOMAIN Batches[j][n] : Batches[j][n][m] \notin Created }
NextBatch(j) == { Batches[j][n] : n \in { k \in Ahead(j) : \A m \in Ahead(j) : k <= m } }

\* What the handler of j may return, given the children it finds.
Decisions(j) ==
    CASE j \in Inline          -> { "complete", "fail" }
      [] j \notin Inline /\ OpenChildren(j) # {} -> { "wait" }
      [] j \notin Inline /\ OpenChildren(j) = {} /\ Ahead(j) # {}
                               -> { "children", "fail" }
      [] OTHER -> { "complete", "fail" }
                     \cup { v \in { "retry" } : /\ KindOf[j] \in RetryKinds
                                                /\ row[j].attempts < MaxAttempts }

\* The handler returns and the dispatcher reads the latest row.
Decide(s) ==
    LET j == worker[s].job
    IN  /\ worker[s].pc = "run"
        /\ \E v \in Decisions(j) :
             \E batch \in IF v = "children" THEN NextBatch(j) ELSE { << >> } :
               worker' = [ worker EXCEPT ![s] =
                 [ pc      |-> IF v = "children" THEN "children" ELSE "put",
                   job     |-> j,
                   seen    |-> IF Exists(j) THEN row[j] ELSE worker[s].seen,
                   verdict |-> v,
                   rest    |-> batch ] ]
        /\ UNCHANGED << store, drain, notified, admin, restarts >>

\* complete_dispatched_job, and complete_agent_task_job for an agent task.
Completed(j, seen) ==
    IF KindOf[j] = "agent_task"
    THEN IF seen.cancel \/ seen.state \in { "cancel_requested", "cancelled" }
         THEN InState(seen, "cancelled")
         ELSE InState(seen, "complete")
    ELSE IF seen.state \in { "waiting", "queued", "confirmation_pending" }
         THEN seen
         ELSE InState(seen, "complete")

\* requeue_dispatched_job.
Requeued(seen) ==
    [ seen EXCEPT !.state = "queued", !.delay = "pending", !.attempts = @ + 1 ]

Written(j, seen, v) ==
    CASE v = "complete" -> Completed(j, seen)
      [] v = "fail"     -> InState(seen, "failed")
      [] v = "retry"    -> Requeued(seen)
      [] OTHER          -> InState(seen, "waiting")

\* The dispatcher writes the row it read, changed by the decision.
Put(s) ==
    LET w == worker[s]
    IN  /\ w.pc = "put"
        /\ IF w.verdict = "wait" /\ w.seen.state \in Terminal
           THEN UNCHANGED store
           ELSE Update(w.job, Written(w.job, w.seen, w.verdict))
        /\ worker' = [ worker EXCEPT ![s] = Idle("done") ]
        /\ UNCHANGED << drain, notified, admin, restarts >>

\* wait_dispatched_job inserts the children one transaction after another,
\* each with the parent as it was read before the first.
PutChild(s) ==
    LET w == worker[s]
    IN  /\ w.pc = "children" /\ w.rest # << >>
        /\ InsertChild(w.job, w.seen, Head(w.rest))
        /\ worker' = [ worker EXCEPT ![s] =
             IF Len(w.rest) = 1 THEN Idle("done")
                                ELSE [ w EXCEPT !.rest = Tail(@) ] ]
        /\ UNCHANGED << drain, notified, admin, restarts >>

\* A handler that inserts its child itself, under the row it was claimed with.
PutInlineChild(s) ==
    LET w == worker[s]
    IN  /\ w.pc = "run" /\ w.job \in Inline
        /\ \E batch \in NextBatch(w.job) : InsertChild(w.job, w.seen, Head(batch))
        /\ UNCHANGED << worker, drain, notified, admin, restarts >>

\* Mutant: rows are collected although an open parent depends on them.
CollectAnyTerminal(s) ==
    /\ worker[s].pc = "run" /\ KindOf[worker[s].job] = "ephemeral_job_gc"
    /\ \E batch \in SUBSET { j \in Job : KindOf[j] \in EphemeralKinds /\ IsTerminal(j) } :
         /\ batch # {}
         /\ row' = [ j \in Job |-> IF j \in batch THEN Blank ELSE row[j] ]
         /\ deps' = { e \in deps : e[1] \notin batch /\ e[2] \notin batch }
         /\ logged' = logged \ batch
         /\ aged' = aged \ batch
    /\ UNCHANGED << outcomes, created, worker, drain, notified, admin, restarts >>

\* The garbage collector's handler deletes a batch of terminal ephemeral rows
\* whose retention has passed and that no open parent depends on, first
\* recording the outcomes that are missing.
CollectGarbage(s) ==
    /\ worker[s].pc = "run" /\ KindOf[worker[s].job] = "ephemeral_job_gc"
    /\ \E batch \in SUBSET { j \in Job :
                /\ KindOf[j] \in EphemeralKinds /\ IsTerminal(j)
                /\ \A p \in Job : j \in Children(p) => row[p].state \notin Open } :
         /\ batch # {}
         /\ row' = [ j \in Job |-> IF j \in batch THEN Blank ELSE row[j] ]
         /\ outcomes' = [ j \in Job |-> IF j \in batch \ logged
                                        THEN Append(outcomes[j], row[j].state)
                                        ELSE outcomes[j] ]
         /\ logged' = logged \ batch
         /\ aged' = aged \ batch
         /\ deps' = { e \in deps : e[1] \notin batch /\ e[2] \notin batch }
    /\ UNCHANGED << created, worker, drain, notified, admin, restarts >>

\* The database refuses the dispatcher's write: the error is only logged.
LoseWrite(s) ==
    /\ "lost_write" \in Faults
    /\ worker[s].pc \in { "put", "children" }
    /\ worker' = [ worker EXCEPT ![s] = Idle("done") ]
    /\ UNCHANGED << store, drain, notified, admin, restarts >>

\* Mutant: a worker that ends does not wake the loop.
ReleaseQuietly(s) ==
    /\ worker[s].pc = "done"
    /\ worker' = [ worker EXCEPT ![s] = Idle("free") ]
    /\ UNCHANGED << store, drain, notified, admin, restarts >>

Release(s) ==
    /\ worker[s].pc = "done"
    /\ worker' = [ worker EXCEPT ![s] = Idle("free") ]
    /\ notified' = TRUE
    /\ UNCHANGED << store, drain, admin, restarts >>

---------------------------------------------------------------------------
(***************************************************************************)
(* A drain: passes of sweep, resolve and schedule until one does nothing.   *)
(***************************************************************************)

Drain == [ pc    : { "idle", "asleep", "dozing", "stalled", "sweep", "sweeping", "select",
                     "resolving", "resolved", "kinds", "schedule", "claim",
                     "look" },
           todo  : SUBSET Job,                \* rows to sweep, parents to resolve
           cur   : Job \cup { NoJob },        \* the parent being resolved
           snap  : [ Job -> Row ],            \* rows about to be written
           kinds : SUBSET JobKind,            \* due kinds not scheduled yet
           kind  : JobKind \cup { "none" },   \* the kind being scheduled
           held  : SUBSET Slot,               \* the permits taken for it
           keys  : SUBSET { KeyOf[j] : j \in Job },  \* the ordering keys read as active
           did   : BOOLEAN ]                  \* this pass found something to do

NoRows == [ j \in Job |-> Blank ]

At(pc, did) == [ pc |-> pc, todo |-> {}, cur |-> NoJob, snap |-> NoRows,
                 kinds |-> {}, kind |-> "none", held |-> {}, keys |-> {},
                 did |-> did ]

DrainTo(d, state) == drain' = [ drain EXCEPT ![d] = state ]

\* After a pass that did something comes another; the loop then sleeps.
EndOfPass(d, did) ==
    CASE did                   -> At("sweep", FALSE)
      [] ~did /\ d = "loop"    -> At("look", FALSE)
      [] OTHER                 -> At("idle", FALSE)

\* next_queued_job_ready_at: with a queued job there is a timer to sleep on.
LookAhead(d) ==
    /\ drain[d].pc = "look"
    /\ DrainTo(d, At(IF Tick \/ \E j \in Job : row[j].state = "queued"
                     THEN "dozing" ELSE "asleep", FALSE))
    /\ UNCHANGED << store, worker, notified, admin, restarts >>

\* When that lookup fails the loop waits for a notification, whatever is queued.
LookupFails(d) ==
    /\ "lost_lookup" \in Faults
    /\ drain[d].pc = "look"
    /\ DrainTo(d, At("stalled", FALSE))
    /\ UNCHANGED << store, worker, notified, admin, restarts >>

Notified(d) ==
    /\ drain[d].pc \in { "asleep", "dozing", "stalled" } /\ notified
    /\ notified' = FALSE
    /\ DrainTo(d, At("sweep", FALSE))
    /\ UNCHANGED << store, worker, admin, restarts >>

TimerFires(d) ==
    /\ drain[d].pc = "dozing"
    /\ DrainTo(d, At("sweep", FALSE))
    /\ UNCHANGED << store, worker, notified, admin, restarts >>

\* POST /v1/jobs/run-due.
RunDue(d) ==
    /\ drain[d].pc = "idle" /\ asked < MaxRequests
    /\ asked' = asked + 1
    /\ DrainTo(d, At("sweep", FALSE))
    /\ UNCHANGED << store, worker, notified, requests, restarts >>

\* Mutant: only stale maintenance jobs are swept.
SweepMaintenance(d) ==
    LET stale == { j \in aged : row[j].state = "running" /\ KindOf[j] \in MaintenanceKinds }
    IN  /\ drain[d].pc = "sweep"
        /\ DrainTo(d, IF stale = {} THEN At("select", FALSE) ELSE
             [ At("sweeping", TRUE) EXCEPT
                 !.todo = stale,
                 !.snap = [ j \in Job |-> IF j \in stale THEN row[j] ELSE Blank ] ])
        /\ UNCHANGED << store, worker, notified, admin, restarts >>

\* fail_stale_running_jobs lists the stale rows, then rewrites each as listed.
SweepRead(d) ==
    LET stale == { j \in aged : row[j].state = "running" }
    IN  /\ drain[d].pc = "sweep"
        /\ DrainTo(d, IF stale = {} THEN At("select", FALSE) ELSE
             [ At("sweeping", TRUE) EXCEPT
                 !.todo = stale,
                 !.snap = [ j \in Job |-> IF j \in stale THEN row[j] ELSE Blank ] ])
        /\ UNCHANGED << store, worker, notified, admin, restarts >>

SweepPut(d, j) ==
    LET left == drain[d].todo \ { j }
    IN  /\ drain[d].pc = "sweeping" /\ j \in drain[d].todo
        /\ Update(j, InState(drain[d].snap[j], "failed_timeout"))
        /\ DrainTo(d, IF left = {} THEN At("select", TRUE) ELSE
             [ drain[d] EXCEPT !.todo = left, !.snap[j] = Blank ])
        /\ UNCHANGED << worker, notified, admin, restarts >>

\* resolve_waiting_jobs selects the waiting parents without an open child.
Resolvable(p) ==
    /\ row[p].state = "waiting" /\ Children(p) # {} /\ OpenChildren(p) = {}

NextParent(left, did) ==
    IF left = {} THEN At("kinds", did)
                 ELSE [ At("resolving", did) EXCEPT !.todo = left ]

ResolveSelect(d) ==
    /\ drain[d].pc = "select"
    /\ DrainTo(d, NextParent({ p \in Job : Resolvable(p) }, drain[d].did))
    /\ UNCHANGED << store, worker, notified, admin, restarts >>

\* Mutant: a child that timed out counts as one that completed.
ResolvedLeniently(p) ==
    LET states == { row[c].state : c \in Children(p) }
    IN  IF KindOf[p] \in ResumingKinds
        THEN [ row[p] EXCEPT !.state = "queued", !.delay = "none" ]
        ELSE InState(row[p], IF "cancelled" \in states THEN "cancelled"
                             ELSE IF "failed" \in states THEN "failed"
                             ELSE "complete")

\* A resuming parent is queued again; any other takes its children's outcome.
Resolved(p) ==
    LET states == { row[c].state : c \in Children(p) }
    IN  IF KindOf[p] \in ResumingKinds
        THEN [ row[p] EXCEPT !.state = "queued", !.delay = "none" ]
        ELSE InState(row[p], IF states = { "complete" } THEN "complete"
                             ELSE IF "cancelled" \in states THEN "cancelled"
                             ELSE "failed")

\* The children's states and the parent's row are read once more ...
ResolveRead(d, p) ==
    LET left == drain[d].todo \ { p }
    IN  /\ drain[d].pc = "resolving" /\ p \in drain[d].todo
        /\ DrainTo(d,
             IF Children(p) = {} \/ OpenChildren(p) # {}
             THEN NextParent(left, drain[d].did)
             ELSE [ At("resolved", TRUE) EXCEPT
                      !.todo = left, !.cur = p,
                      !.snap = [ NoRows EXCEPT ![p] = Resolved(p) ] ])
        /\ UNCHANGED << store, worker, notified, admin, restarts >>

\* ... and the parent is written, whatever has become of it.
ResolvePut(d) ==
    /\ drain[d].pc = "resolved"
    /\ Update(drain[d].cur, drain[d].snap[drain[d].cur])
    /\ DrainTo(d, NextParent(drain[d].todo, TRUE))
    /\ UNCHANGED << worker, notified, admin, restarts >>

IsDue(j) == row[j].state = "queued" /\ row[j].delay # "pending"

NextKind(d, left, did) ==
    IF left = {} THEN EndOfPass(d, did)
                 ELSE [ At("schedule", did) EXCEPT !.kinds = left ]

FindDueKinds(d) ==
    /\ drain[d].pc = "kinds"
    /\ DrainTo(d, NextKind(d, { KindOf[j] : j \in { i \in Job : IsDue(i) } },
                           drain[d].did))
    /\ UNCHANGED << store, worker, notified, admin, restarts >>

\* Mutant: an agent task gives its key up while it waits.
HoldsKeyRunning(j) == KeyOf[j] # NoKey /\ row[j].state \in { "running", "cancel_requested" }

\* active_ordering_keys: an agent task keeps its key while it waits.
HoldsKey(j) ==
    /\ KeyOf[j] # NoKey
    /\ \/ row[j].state \in { "running", "cancel_requested" }
       \/ row[j].state = "waiting" /\ KindOf[j] = "agent_task"

ActiveKeys == { KeyOf[j] : j \in { i \in Job : HoldsKey(i) } }

\* schedule_policy takes the lane's permits, then reads the active keys.
TakePermits(d, k) ==
    LET free == { s \in Slot : LaneOf[s] = PolicyLane(k) /\ worker[s].pc = "free" }
    IN  /\ drain[d].pc = "schedule" /\ k \in drain[d].kinds
        /\ \E held \in SUBSET free :
             /\ \/ held = free /\ Cardinality(free) <= BatchLimit
                \/ Cardinality(held) = BatchLimit
             /\ worker' = [ s \in Slot |-> IF s \in held THEN Idle("held")
                                                         ELSE worker[s] ]
             /\ DrainTo(d, [ At("claim", drain[d].did) EXCEPT
                               !.kinds = drain[d].kinds \ { k }, !.kind = k,
                               !.held = held, !.keys = ActiveKeys ])
        /\ UNCHANGED << store, notified, admin, restarts >>

\* Ready order where it is known: neither job has a next_run_at of its own, and
\* they are not audio segments, whose order also depends on wake activations.
Precedes(i, j) ==
    /\ row[i].delay = "none" /\ row[j].delay = "none"
    /\ KindOf[i] # "audio_segment"
    /\ \E m, n \in DOMAIN created : m < n /\ created[m] = i /\ created[n] = j

Claimable(d) == { j \in Job : /\ IsDue(j) /\ KindOf[j] = drain[d].kind
                              /\ KeyOf[j] = NoKey \/ KeyOf[j] \notin drain[d].keys }

\* How many candidates are looked at to claim n jobs of a kind.
Window(k, n) ==
    IF k = "audio_segment" THEN IF 128 * n <= 2048 THEN 128 * n ELSE 2048
                           ELSE IF 8 * n <= 512 THEN 8 * n ELSE 512

\* Mutant: a key that is free is given to several candidates.
IsClaimKeyShared(d, batch) ==
    /\ Cardinality(batch) <= Cardinality(drain[d].held)
    /\ \A j \in Claimable(d) \ batch :
         /\ Cardinality(batch) = Cardinality(drain[d].held)
         /\ \A i \in batch : ~Precedes(j, i)

\* claim_due_jobs goes down the first candidates in ready order, one per key,
\* until the permits are used up: a candidate it leaves has its key taken by an
\* earlier one, or comes after all it claims, for want of permits or beyond the
\* window.
IsClaim(d, batch) ==
    /\ Cardinality(batch) <= Cardinality(drain[d].held)
    /\ \A i, j \in batch : i # j => KeyOf[i] = NoKey \/ KeyOf[i] # KeyOf[j]
    /\ \A j \in Claimable(d) \ batch :
         \/ /\ KeyOf[j] # NoKey
            /\ \E i \in batch : KeyOf[i] = KeyOf[j] /\ ~Precedes(j, i)
         \/ /\ Cardinality(batch) = Cardinality(drain[d].held)
            /\ \A i \in batch : ~Precedes(j, i)
         \/ /\ Cardinality({ i \in Claimable(d) \ { j } : ~Precedes(j, i) })
                 >= Window(drain[d].kind, Cardinality(drain[d].held))
            /\ \A i \in batch : ~Precedes(j, i)

Running(j) == InState(row[j], "running")

Started(j) == [ pc |-> "run", job |-> j, seen |-> Running(j), verdict |-> "none",
                rest |-> << >> ]

\* Each claimed job is spawned on a permit; the permits left over are dropped.
Claim(d) ==
    /\ drain[d].pc = "claim"
    /\ \E batch \in SUBSET Claimable(d) :
         /\ IsClaim(d, batch)
         /\ Upsert([ j \in batch |-> Running(j) ])
         /\ \E seat \in [ batch -> drain[d].held ] :
              /\ \A i, j \in batch : i # j => seat[i] # seat[j]
              /\ worker' = [ s \in Slot |->
                   IF s \notin drain[d].held THEN worker[s]
                   ELSE IF \E j \in batch : seat[j] = s
                   THEN Started(CHOOSE j \in batch : seat[j] = s)
                   ELSE Idle("free") ]
         /\ DrainTo(d, NextKind(d, drain[d].kinds, drain[d].did \/ batch # {}))
    /\ UNCHANGED << created, deps, notified, admin, restarts >>

---------------------------------------------------------------------------
(***************************************************************************)
(* Administrative requests read rows and write them back later.             *)
(***************************************************************************)

Owe(writes) ==
    /\ requests = << >> /\ asked < MaxRequests
    /\ writes # << >>
    /\ requests' = writes
    /\ asked' = asked + 1
    /\ UNCHANGED << store, worker, drain, notified, restarts >>

\* retry_job_payload requeues a job whatever its state.
RetryJob(j) ==
    /\ "retry" \in Faults /\ Exists(j)
    /\ Owe(<< [ job |-> j, row |-> InState(row[j], "queued") ] >>)

CancelledRow(r) ==
    IF r.state = "running" THEN [ r EXCEPT !.state = "cancel_requested",
                                           !.cancel = TRUE ]
                           ELSE InState(r, "cancelled")

\* cancel_job_tree lists a root's descendants, then writes each one that was
\* cancellable when it was listed, the deepest first.
CancelTree(root) ==
    LET depth2 == UNION { Children(c) : c \in Children(root) }
        tree   == { j \in depth2 \cup Children(root) \cup { root } :
                      row[j].state \in Cancellable }
        level(j) == IF j = root THEN 0 ELSE IF j \in Children(root) THEN 1 ELSE 2
    IN  /\ "cancel" \in Faults
        /\ \E order \in [ 1 .. Cardinality(tree) -> tree ] :
             /\ \A m, n \in DOMAIN order :
                  m < n => order[m] # order[n] /\ level(order[m]) >= level(order[n])
             /\ Owe([ n \in DOMAIN order |->
                        [ job |-> order[n], row |-> CancelledRow(row[order[n]]) ] ])

RequestPut ==
    /\ requests # << >>
    /\ Update(Head(requests).job, Head(requests).row)
    /\ requests' = Tail(requests)
    /\ notified' = (notified \/ Len(requests) = 1)
    /\ UNCHANGED << worker, drain, asked, restarts >>

---------------------------------------------------------------------------
(***************************************************************************)
(* The process stops and a new one starts: workers, drains and requests in  *)
(* memory are lost.  Start-up settles the agent tasks left running, as      *)
(* complete when they had submitted their reply, then starts the loop.      *)
(***************************************************************************)
Restart ==
    LET interrupted == { j \in Job : /\ row[j].state = "running"
                                     /\ KindOf[j] = "agent_task" }
    IN  /\ restarts < MaxRestarts
        /\ restarts' = restarts + 1
        /\ \E replied \in SUBSET interrupted :
             Upsert([ j \in interrupted |->
                        InState(row[j], IF j \in replied THEN "complete"
                                                         ELSE "failed") ])
        /\ worker' = [ s \in Slot |-> Idle("free") ]
        /\ drain' = [ d \in Drainer |-> At(IF d = "loop" THEN "sweep" ELSE "idle",
                                           FALSE) ]
        /\ notified' = FALSE
        /\ requests' = << >>
        /\ UNCHANGED << created, deps, asked >>

---------------------------------------------------------------------------
Init ==
    /\ row = NoRows
    /\ created = << >>
    /\ deps = {}
    /\ outcomes = [ j \in Job |-> << >> ]
    /\ logged = {}
    /\ aged = {}
    /\ worker = [ s \in Slot |-> Idle("free") ]
    /\ drain = [ d \in Drainer |-> At(IF d = "loop" THEN "sweep" ELSE "idle", FALSE) ]
    /\ notified = FALSE
    /\ requests = << >>
    /\ asked = 0
    /\ restarts = 0

\* One step of the worker that holds permit s.
WorkerStep(s) ==
    \/ Decide(s)
    \/ Put(s)
    \/ PutChild(s)
    \/ PutInlineChild(s)
    \/ CollectGarbage(s)
    \/ LoseWrite(s)
    \/ Release(s)

\* One step of a drain in progress.
DrainStep(d) ==
    \/ SweepRead(d)
    \/ \E j \in Job : SweepPut(d, j)
    \/ ResolveSelect(d)
    \/ \E p \in Job : ResolveRead(d, p)
    \/ ResolvePut(d)
    \/ FindDueKinds(d)
    \/ \E k \in JobKind : TakePermits(d, k)
    \/ Claim(d)
    \/ LookAhead(d)
    \/ LookupFails(d)

Next ==
    \/ \E j \in Job : Submit(j) \/ Elapse(j) \/ Age(j)
    \/ \E s \in Slot : WorkerStep(s)
    \/ \E d \in Drainer : DrainStep(d) \/ Notified(d) \/ TimerFires(d) \/ RunDue(d)
    \/ \E j \in Job : RetryJob(j) \/ CancelTree(j)
    \/ RequestPut
    \/ Restart

Spec == Init /\ [][Next]_vars

---------------------------------------------------------------------------
(***************************************************************************)
(* Properties.                                                              *)
(***************************************************************************)

\* Every variable has its type.
TypeOK ==
    /\ row \in [Job -> Row]
    /\ created \in Seq(Job)
    /\ deps \in SUBSET (Job \X Job)
    /\ outcomes \in [Job -> Seq(JobState)]
    /\ logged \in SUBSET Job /\ aged \in SUBSET Job
    /\ worker \in [Slot -> Worker]
    /\ drain \in [Drainer -> Drain]
    /\ notified \in BOOLEAN
    /\ requests \in Seq([ job : Job, row : Row ])
    /\ asked \in Nat /\ restarts \in Nat

\* Nobody has asked for a second drain or a rewrite of rows, and no handler has
\* inserted a child of its own.
Undisturbed == asked = 0 /\ Created \cap Inline = {}

\* Two workers never execute the same job, nor two jobs of one ordering key: while
\* the engine is left alone, the key is its own from the start of a handler to the
\* write of its decision (active_ordering_keys, claim_due_jobs).
KeyExclusion ==
    Undisturbed => \A s, t \in Busy : s # t =>
        /\ worker[s].job # worker[t].job
        /\ KeyOf[worker[s].job] = NoKey
             \/ KeyOf[worker[s].job] # KeyOf[worker[t].job]

\* Of the agent tasks of one session at most one is under way, where a task is
\* under way from its typing-start child until it is terminal, whatever row
\* states and workers it passes through (claim order, resolve_waiting_jobs).
OneTurnPerSession ==
    \A i, j \in Job :
        ( /\ i # j /\ KindOf[i] = "agent_task" /\ KindOf[j] = "agent_task"
          /\ KeyOf[i] = KeyOf[j]
          /\ Children(i) # {} /\ row[i].state \in Open
          /\ Children(j) # {} ) => row[j].state \notin Open

\* A handler is entered again only when all the children its job waited for
\* have settled (resolve_waiting_jobs, create_child_job).
ChildrenSettleFirst ==
    \A s \in Slot : worker[s].pc = "run" /\ worker[s].job \notin Inline
                        => OpenChildren(worker[s].job) = {}

\* A waiting parent has an edge to wake it: one that has none is never selected
\* by the resolver (wait_dispatched_job, garbage_collect_ephemeral_jobs).
WaitingHasChild ==
    \A p \in Job : row[p].state = "waiting" => Children(p) # {}

\* A parent that is resolved by aggregation is complete only if every child
\* is (resolve_waiting_jobs, complete_dispatched_job).
CompleteMeansChildrenComplete ==
    \A p \in Job : row[p].state = "complete" /\ KindOf[p] \notin ResumingKinds =>
        \A c \in Children(p) : row[c].state = "complete"

\* When the loop sleeps without a timer, no other drain runs, no worker is at
\* work and no notification is stored, there is nothing for a pass to do
\* (spawn_dispatch_loop, drain_ready_jobs).  A lookup that failed is excepted: the
\* loop is then stalled until somebody notifies it.
NoLostWakeup ==
    ( /\ drain["loop"].pc = "asleep" /\ ~notified /\ requests = << >>
      /\ \A d \in Drainer \ { "loop" } : drain[d].pc = "idle"
      /\ \A s \in Slot : worker[s].pc = "free" ) =>
        \A j \in Job : row[j].state # "queued" /\ ~Resolvable(j)

\* A terminal job is never rewritten to another state; it can only be collected.
TerminalIsFinal ==
    [][ \A j \in Job : IsTerminal(j) => row'[j].state \in { row[j].state, Gone } ]_vars

\* How the table realises the contract of JobContract.
StatusOf(j) ==
    CASE ~Exists(j) /\ j \notin Created -> "none"
      [] ~Exists(j) /\ j \in Created    -> "settled"
      [] IsTerminal(j)                  -> "settled"
      [] row[j].state = "queued"        -> "ready"
      [] row[j].state = "waiting"       -> "parked"
      [] OTHER                          -> "active"

Contract == INSTANCE JobContract WITH
    status    <- [ j \in Job |-> StatusOf(j) ],
    needs     <- { e \in deps : row[e[1]].state \in Open },
    Reserving <- { j \in Job : KindOf[j] = "agent_task" }

\* The engine keeps the contract: keys are taken only when free and kept as
\* long as promised, parents wait for their children, nothing settles twice, as
\* long as the engine is left alone.
KeepsContract ==
    Contract!Init /\ [][ Undisturbed' => Contract!Next \/ UNCHANGED Contract!vars ]_vars

Settled(j) == row[j].state \in Terminal \cup { Gone }

\* Every job that is inserted settles (the whole engine).
EveryJobSettles == \A j \in Job : ~Settled(j) ~> Settled(j)

\* Handlers return, transactions finish, the loop and its timer run, time
\* passes; nothing is said of arrivals, requests, /v1/jobs/run-due, restarts.
Fairness ==
    /\ \A s \in Slot : WF_vars(Decide(s) \/ Put(s) \/ PutChild(s) \/ Release(s))
    /\ \A d \in Drainer : WF_vars(DrainStep(d)) /\ WF_vars(Notified(d) \/ TimerFires(d))
    /\ \A j \in Job : WF_vars(Elapse(j)) /\ WF_vars(Age(j))
    /\ WF_vars(RequestPut)

FairSpec == Spec /\ Fairness
===========================================================================
