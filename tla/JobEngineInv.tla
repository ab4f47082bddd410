--------------------------- MODULE JobEngineInv ---------------------------
(***************************************************************************)
(* The inductive invariant behind the exclusion of ordering keys, and the   *)
(* regime it holds in.  It relates what a worker, a drain and the collector *)
(* remember of a row to what the row has become since.                      *)
(***************************************************************************)
EXTENDS JobEngine

(***************************************************************************)
(* The calm regime: only the loop drains, nothing but a lost write, a       *)
(* failed lookup or a restart disturbs it, and a handler emits its children *)
(* one per decision, through the dispatcher.  Outside of it exclusion may   *)
(* be lost.                                                                 *)
(***************************************************************************)
Calm ==
    /\ Drainer = { "loop" }
    /\ Faults \subseteq { "lost_write", "lost_lookup" }
    /\ Inline = {}
    /\ \A j \in Job : \A n \in DOMAIN Batches[j] : Len(Batches[j][n]) = 1

NoRequests == requests = << >>

\* A job that was never created has no row.
RowsAreCreated == \A j \in Job : j \notin Created => row[j].state = Gone

\* A job at work is running in the table, and was when its worker last looked.
BusyRowsRun ==
    \A s \in Busy : /\ worker[s].job \in Job
                    /\ row[worker[s].job].state = "running"
                    /\ worker[s].seen.state = "running"

OneWorkerEach ==
    \A s, t \in Busy : s # t => worker[s].job # worker[t].job

\* The child that is about to be inserted is the parent's own and is new.
ChildIsNew ==
    \A s \in Slot : worker[s].pc = "children" =>
        /\ Len(worker[s].rest) = 1
        /\ Head(worker[s].rest) \in Kids(worker[s].job) \ Created

\* Rows that hold a key hold different ones.
KeysDiffer ==
    \A i, j \in Job : i # j /\ HoldsKey(i) /\ HoldsKey(j) => KeyOf[i] # KeyOf[j]

\* The keys a drain read before it claims include all that are held.
KeysRead ==
    drain["loop"].pc = "claim" =>
        \A j \in Job : HoldsKey(j) => KeyOf[j] \in drain["loop"].keys

\* A parent the drain has yet to resolve is still waiting, and the row it will
\* be given settles it or queues it.
ParentsStillWait ==
    /\ drain["loop"].pc \in { "resolving", "resolved" } =>
         \A p \in drain["loop"].todo : row[p].state = "waiting"
    /\ drain["loop"].pc = "resolved" =>
         LET p == drain["loop"].cur
         IN  /\ p \in Job \ drain["loop"].todo
             /\ row[p].state = "waiting"
             /\ drain["loop"].snap[p].state \in Terminal \cup { "queued" }

Abandoned(j) == row[j].state = "running" /\ \A s \in Busy : worker[s].job # j

\* A row that passed the stale-running timeout has lost its worker ...
AgedAreAbandoned == \A j \in aged : row[j].state = "running" => Abandoned(j)

\* ... and still has, when the sweep that listed it rewrites it.
SweptAreAbandoned ==
    drain["loop"].pc = "sweeping" => \A j \in drain["loop"].todo : Abandoned(j)

\* The invariant of the calm regime.
CalmInv ==
    /\ NoRequests
    /\ RowsAreCreated
    /\ BusyRowsRun
    /\ OneWorkerEach
    /\ ChildIsNew
    /\ KeysDiffer
    /\ KeysRead
    /\ ParentsStillWait
    /\ AgedAreAbandoned
    /\ SweptAreAbandoned

---------------------------------------------------------------------------
(***************************************************************************)
(* The trees of the calm regime: what the edges, the order of creation and  *)
(* the rows say of one another.                                             *)
(***************************************************************************)

CreatedOnce == \A m, n \in DOMAIN created : created[m] = created[n] => m = n

EdgesAreCreated == \A e \in deps : e[1] \in Created /\ e[2] \in Created

\* Only an approval or a cancellation puts a row in one of the other states.
PlainStates ==
    \A j \in Job : row[j].state \notin { "confirmation_pending", "approved", "cancel_requested" }

\* A job that is to be executed, or is, waits for nobody ...
AtWorkWaitsForNone ==
    \A p \in Job : row[p].state \in { "queued", "running" } => OpenChildren(p) = {}

\* ... and one that takes its outcome from its children has none yet.
DerivingStartsAlone ==
    \A p \in Job : row[p].state \in { "queued", "running" } /\ KindOf[p] \notin ResumingKinds
                     => Children(p) = {}

\* So no handler finds a child that is still open, and waits for it again.
VerdictsStand ==
    \A s \in Slot : worker[s].pc = "put" =>
        /\ worker[s].verdict \in { "complete", "fail", "retry" }
        /\ worker[s].verdict = "retry" => KindOf[worker[s].job] \in RetryKinds

\* The row the resolver is about to write is what the children say.
AnswerStands ==
    drain["loop"].pc = "resolved" =>
      LET p == drain["loop"].cur
          r == drain["loop"].snap[p]
      IN  /\ Children(p) # {} /\ OpenChildren(p) = {}
          /\ r.state = "queued" => r.delay = "none" /\ KindOf[p] \in ResumingKinds
          /\ r.state = "complete" => \A c \in Children(p) : row[c].state = "complete"

\* Only a retry puts a job off.
OthersAreDueAtOnce ==
    \A j \in Job : row[j].state = "queued" /\ KindOf[j] \notin RetryKinds
                     => row[j].delay = "none"

OpenTask(j) == KindOf[j] = "agent_task" /\ row[j].state \in Open

\* A task that is under way, even if it is queued between two children.
Begun(j) == OpenTask(j) /\ (row[j].state # "queued" \/ Children(j) # {})

CreatedBefore(i, j) == \E m, n \in DOMAIN created : m < n /\ created[m] = i /\ created[n] = j

\* A task that is under way is the only one of its session, and was created
\* before all that are to come: so the ready order gives it its key back.
BegunComesFirst ==
    \A i, j \in Job : i # j /\ Begun(i) /\ OpenTask(j) /\ KeyOf[i] = KeyOf[j]
                        => ~Begun(j) /\ CreatedBefore(i, j)

\* The key of an agent task is its session's.
TasksHaveKeys == \A j \in Job : KindOf[j] = "agent_task" => KeyOf[j] # NoKey

TreeRows ==
    /\ CreatedOnce
    /\ EdgesAreCreated
    /\ PlainStates
    /\ AtWorkWaitsForNone
    /\ DerivingStartsAlone
    /\ OthersAreDueAtOnce
    /\ WaitingHasChild
    /\ CompleteMeansChildrenComplete

TreeInv == TreeRows /\ VerdictsStand /\ AnswerStands

---------------------------------------------------------------------------
(***************************************************************************)
(* Nothing is forgotten: while nobody is about to wake the loop, what the   *)
(* last pass looked at is still as it found it.                             *)
(***************************************************************************)

\* Nobody but the loop itself has anything in hand.
Quiet ==
    /\ ~notified /\ requests = << >>
    /\ \A s \in Slot : worker[s].pc \in { "free", "held" }

NoneResolvable == \A p \in Job : ~Resolvable(p)

\* The permits a drain is about to give out are not anybody's yet.
PermitsHeld ==
    drain["loop"].pc = "claim" => \A s \in drain["loop"].held : worker[s].pc = "held"

LoopMissesNothing ==
    LET loop == drain["loop"]
    IN  Quiet =>
          /\ loop.pc = "asleep" =>
               NoneResolvable /\ \A j \in Job : row[j].state # "queued"
          /\ loop.pc = "look" => NoneResolvable
          /\ loop.pc \in { "kinds", "schedule", "claim" } /\ ~loop.did => NoneResolvable
          /\ loop.pc = "resolving" /\ ~loop.did =>
               \A p \in Job : Resolvable(p) => p \in loop.todo
===========================================================================
