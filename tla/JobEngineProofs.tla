-------------------------- MODULE JobEngineProofs --------------------------
(***************************************************************************)
(* Theorems about JobEngine, for any jobs, permits and bounds: its type     *)
(* invariant in every regime, and in the calm regime of JobEngineInv that   *)
(* two workers never share an ordering key and that settled jobs stay so.   *)
(***************************************************************************)
EXTENDS JobEngineInv, FiniteSetTheorems, SequenceTheorems, TLAPS

(***************************************************************************)
(* Rows, workers and drains are built type-correctly.                       *)
(***************************************************************************)

\* A row put in another state is a row that differs in nothing else.
LEMMA InStateType ==
    ASSUME NEW r \in Row, NEW s \in JobState \cup { Gone }
    PROVE  /\ InState(r, s) \in Row
           /\ InState(r, s).state = s
BY DEF InState, Row

\* The rows that jobs start from.
LEMMA BlankType == /\ Blank \in Row /\ Blank.state = Gone
                   /\ Fresh \in Row /\ Fresh.state = "queued"
                   /\ NoRows \in [Job -> Row]
<1>1. Blank \in Row /\ Blank.state = Gone
  BY DEF Blank, Row
<1>2. Fresh \in Row /\ Fresh.state = "queued"
  BY <1>1, InStateType DEF Fresh, JobState
<1>3. QED
  BY <1>1, <1>2 DEF NoRows

\* The states a worker is put in when it holds no job.
LEMMA IdleType == \A pc \in { "free", "held", "run", "done" } :
                      Idle(pc) \in Worker /\ Idle(pc).pc = pc
BY BlankType DEF Idle, Worker, Verdict

DrainPc == { "idle", "asleep", "dozing", "stalled", "sweep", "sweeping", "select",
             "resolving", "resolved", "kinds", "schedule", "claim", "look" }

\* Every place of a drain, and the places it moves on to.
LEMMA DrainType ==
    ASSUME NEW did \in BOOLEAN
    PROVE  /\ \A pc \in DrainPc : At(pc, did) \in Drain /\ At(pc, did).pc = pc
           /\ \A left \in SUBSET Job :
                /\ NextParent(left, did) \in Drain
                /\ NextParent(left, did).pc \in { "kinds", "resolving" }
                /\ NextParent(left, did).todo = left
           /\ \A d \in Drainer, left \in SUBSET JobKind :
                /\ NextKind(d, left, did) \in Drain
                /\ NextKind(d, left, did).pc \in { "sweep", "look", "idle", "schedule" }
<1>1. \A pc \in DrainPc, b \in BOOLEAN :
          At(pc, b) \in Drain /\ At(pc, b).pc = pc /\ At(pc, b).todo = {}
  BY BlankType DEF At, Drain, DrainPc
<1>2. \A pc \in DrainPc, left \in SUBSET Job :
          /\ [ At(pc, did) EXCEPT !.todo = left ] \in Drain
          /\ [ At(pc, did) EXCEPT !.todo = left ].pc = pc
          /\ [ At(pc, did) EXCEPT !.todo = left ].todo = left
  BY <1>1 DEF Drain
<1>3. \A pc \in DrainPc, left \in SUBSET JobKind :
          /\ [ At(pc, did) EXCEPT !.kinds = left ] \in Drain
          /\ [ At(pc, did) EXCEPT !.kinds = left ].pc = pc
  BY <1>1 DEF Drain
<1>4. \A d \in Drainer : /\ EndOfPass(d, did) \in Drain
                         /\ EndOfPass(d, did).pc \in { "sweep", "look", "idle" }
  BY <1>1 DEF EndOfPass, DrainPc
<1>5. ASSUME NEW left \in SUBSET Job
      PROVE  /\ NextParent(left, did) \in Drain
             /\ NextParent(left, did).pc \in { "kinds", "resolving" }
             /\ NextParent(left, did).todo = left
  <2>1. CASE left = {}
    BY <1>1, <2>1 DEF NextParent, DrainPc
  <2>2. CASE left # {}
    BY <1>2, <2>2 DEF NextParent, DrainPc
  <2>3. QED
    BY <2>1, <2>2
<1>6. ASSUME NEW d \in Drainer, NEW left \in SUBSET JobKind
      PROVE  /\ NextKind(d, left, did) \in Drain
             /\ NextKind(d, left, did).pc \in { "sweep", "look", "idle", "schedule" }
  BY <1>3, <1>4 DEF NextKind, DrainPc
<1>7. QED
  BY <1>1, <1>5, <1>6

\* The decisions of a handler.
LEMMA DecisionsType == \A j \in Job : Decisions(j) \subseteq Verdict
<1> TAKE j \in Job
<1>1. CASE j \in Inline
  BY <1>1 DEF Decisions, Verdict
<1>2. CASE j \notin Inline /\ OpenChildren(j) # {}
  BY <1>2 DEF Decisions, Verdict
<1>3. CASE j \notin Inline /\ OpenChildren(j) = {} /\ Ahead(j) # {}
  BY <1>3 DEF Decisions, Verdict
<1>4. CASE j \notin Inline /\ OpenChildren(j) = {} /\ Ahead(j) = {}
  BY <1>4 DEF Decisions, Verdict
<1>5. QED
  BY <1>1, <1>2, <1>3, <1>4

\* What a handler emits next is one of its batches.
LEMMA NextBatchType ==
    ASSUME NEW j \in Job, NEW batch \in NextBatch(j)
    PROVE  \E n \in DOMAIN Batches[j] :
             /\ batch = Batches[j][n] /\ batch \in Seq(Job) /\ batch # << >>
             /\ \A m \in DOMAIN batch : batch[m] \in Kids(j) \ Created
<1>1. Batches[j] \in Seq(Seq(Job) \ { << >> })
  BY JobAssumption
<1>2. PICK n \in Ahead(j) : batch = Batches[j][n]
  BY DEF NextBatch
<1>3. /\ n \in DOMAIN Batches[j]
      /\ \A m \in DOMAIN batch : batch[m] \notin Created
  BY <1>2 DEF Ahead
<1>4. batch \in Seq(Job) \ { << >> }
  BY <1>1, <1>2, <1>3
<1>5. \A m \in DOMAIN batch : batch[m] \in Kids(j)
  BY <1>2, <1>3 DEF Kids
<1>6. QED
  BY <1>2, <1>3, <1>4, <1>5

\* What the dispatcher writes is a row, and not one that is running.
LEMMA WrittenType ==
    ASSUME NEW j \in Job, NEW seen \in Row, NEW v \in Verdict
    PROVE  Written(j, seen, v) \in Row
<1>1. Completed(j, seen) \in Row
  BY InStateType DEF Completed, JobState
<1>2. Requeued(seen) \in Row
  <2> DEFINE r1 == InState(seen, "queued")
             r2 == [ r1 EXCEPT !.delay = "pending" ]
             r3 == [ r2 EXCEPT !.attempts = seen.attempts + 1 ]
  <2>1. r1 \in Row
    BY InStateType DEF JobState
  <2>2. r2 \in Row
    <3> HIDE DEF r1
    <3> QED BY <2>1 DEF Row
  <2>3. r3 \in Row
    <3>1. seen.attempts + 1 \in Nat
      BY DEF Row
    <3> HIDE DEF r2
    <3> QED BY <2>2, <3>1 DEF Row
  <2>4. Requeued(seen) = r3
    BY DEF Requeued, InState
  <2>5. QED
    BY <2>3, <2>4
<1>3. InState(seen, "failed") \in Row /\ InState(seen, "waiting") \in Row
  BY InStateType DEF JobState
<1>4. QED
  BY <1>1, <1>2, <1>3 DEF Written

\* Upsert keeps the types of what it writes.
LEMMA UpsertType ==
    ASSUME TypeOK, NEW new, DOMAIN new \subseteq Job,
           \A j \in DOMAIN new : new[j] \in Row, Upsert(new)
    PROVE  /\ row' \in [Job -> Row]
           /\ outcomes' \in [Job -> Seq(JobState)]
           /\ logged' \in SUBSET Job
           /\ aged' \in SUBSET Job
<1>1. row' \in [Job -> Row]
  BY DEF TypeOK, Upsert
<1>2. outcomes' \in [Job -> Seq(JobState)]
  <2> DEFINE settled == { j \in DOMAIN new : /\ new[j].state \in Terminal
                                             /\ row[j].state \notin Terminal }
             after(j) == IF j \in settled THEN Append(outcomes[j], new[j].state)
                                          ELSE outcomes[j]
  <2>1. outcomes' = [ j \in Job |-> after(j) ]
    BY DEF Upsert
  <2>2. Terminal \subseteq JobState
    BY DEF Terminal, JobState
  <2>3. \A j \in Job : after(j) \in Seq(JobState)
    BY <2>2 DEF TypeOK
  <2>4. QED
    BY <2>1, <2>3
<1>3. logged' \in SUBSET Job /\ aged' \in SUBSET Job
  BY DEF TypeOK, Upsert
<1>4. QED
  BY <1>1, <1>2, <1>3

\* The rows the resolver and the canceller write.
LEMMA ResolvedType == TypeOK => \A p \in Job : Resolved(p) \in Row
<1> SUFFICES ASSUME TypeOK, NEW p \in Job
             PROVE  Resolved(p) \in Row
  OBVIOUS
<1> DEFINE r1 == InState(row[p], "queued")
           r2 == [ r1 EXCEPT !.delay = "none" ]
<1>1. row[p] \in Row
  BY DEF TypeOK
<1>2. \A s \in { "complete", "cancelled", "failed" } : InState(row[p], s) \in Row
  BY <1>1, InStateType DEF JobState
<1>3. r1 \in Row
  BY <1>1, InStateType DEF JobState
<1>4. r2 \in Row
  <2> HIDE DEF r1
  <2> QED BY <1>3 DEF Row
<1>5. CASE KindOf[p] \in ResumingKinds
  <2>1. Resolved(p) = r2
    BY <1>5 DEF Resolved, InState
  <2>2. QED
    BY <1>4, <2>1
<1>6. CASE KindOf[p] \notin ResumingKinds
  BY <1>2, <1>6 DEF Resolved
<1>7. QED
  BY <1>5, <1>6

LEMMA CancelledRowType == \A r \in Row : CancelledRow(r) \in Row
<1> TAKE r \in Row
<1> DEFINE r1 == InState(r, "cancel_requested")
           r2 == [ r1 EXCEPT !.cancel = TRUE ]
<1>1. r1 \in Row /\ InState(r, "cancelled") \in Row
  BY InStateType DEF JobState
<1>2. r2 \in Row
  <2> HIDE DEF r1
  <2> QED BY <1>1 DEF Row
<1>3. CASE r.state = "running"
  <2>1. CancelledRow(r) = r2
    BY <1>3 DEF CancelledRow, InState
  <2>2. QED
    BY <1>2, <2>1
<1>4. CASE r.state # "running"
  BY <1>1, <1>4 DEF CancelledRow
<1>5. QED
  BY <1>3, <1>4

(***************************************************************************)
(* The type invariant, action by action.                                    *)
(***************************************************************************)

\* TypeOK, and that workers and drains that act have a job to act on.
BusyHaveJobs   == \A s \in Busy : worker[s].job \in Job
ResolvedHasJob == \A d \in Drainer : drain[d].pc = "resolved" => drain[d].cur \in Job

TypeInv == TypeOK /\ BusyHaveJobs /\ ResolvedHasJob

\* The part of TypeOK that is about the database.
StoreOK ==
    /\ row \in [Job -> Row]
    /\ created \in Seq(Job)
    /\ deps \in SUBSET (Job \X Job)
    /\ outcomes \in [Job -> Seq(JobState)]
    /\ logged \in SUBSET Job /\ aged \in SUBSET Job

\* One row is written.
LEMMA UpdateType ==
    ASSUME TypeOK, NEW j \in Job, NEW r \in Row, Update(j, r)
    PROVE  StoreOK'
<1> DEFINE new == [ i \in { j } |-> r ]
<1>1. DOMAIN new \subseteq Job /\ \A i \in DOMAIN new : new[i] \in Row
  OBVIOUS
<1>2. Upsert(new) /\ created' = created /\ deps' = deps
  BY DEF Update
<1> HIDE DEF new
<1>3. QED
  BY <1>1, <1>2, UpsertType DEF StoreOK, TypeOK

\* A child is inserted and its parent written.
LEMMA InsertChildType ==
    ASSUME TypeOK, NEW p \in Job, NEW seen \in Row, NEW c \in Job,
           InsertChild(p, seen, c)
    PROVE  StoreOK'
<1> DEFINE both == { c } \cup (IF seen.state \in Terminal THEN {} ELSE { p })
           new == [ i \in both |-> IF i = c THEN Fresh ELSE InState(seen, "waiting") ]
<1>1. DOMAIN new \subseteq Job
  OBVIOUS
<1>2. \A i \in DOMAIN new : new[i] \in Row
  BY BlankType, InStateType DEF JobState
<1>3. Upsert(new) /\ created' = Append(created, c) /\ deps' = deps \cup { << p, c >> }
  BY DEF InsertChild
<1>4. created' \in Seq(Job) /\ deps' \in SUBSET (Job \X Job)
  BY <1>3 DEF TypeOK
<1> HIDE DEF new
<1>5. QED
  BY <1>1, <1>2, <1>3, <1>4, UpsertType DEF StoreOK

LEMMA ArrivalType ==
    ASSUME TypeInv, NEW j \in Job, Submit(j) \/ Elapse(j) \/ Age(j)
    PROVE  TypeInv'
<1> USE DEF TypeInv
<1>1. UNCHANGED << worker, drain >>
  BY DEF Submit, Elapse, Age
<1>2. BusyHaveJobs' /\ ResolvedHasJob'
  BY <1>1 DEF BusyHaveJobs, ResolvedHasJob, Busy
<1>3. CASE Submit(j)
  <2> DEFINE new == [ i \in { j } |-> Fresh ]
  <2>1. DOMAIN new \subseteq Job /\ \A i \in DOMAIN new : new[i] \in Row
    BY BlankType
  <2>2. Upsert(new) /\ created' = Append(created, j) /\ deps' = deps
    BY <1>3 DEF Submit
  <2>3. created' \in Seq(Job) /\ deps' \in SUBSET (Job \X Job)
    BY <2>2 DEF TypeOK
  <2> HIDE DEF new
  <2>4. StoreOK'
    BY <2>1, <2>2, <2>3, UpsertType DEF StoreOK
  <2>5. QED
    BY <1>2, <1>3, <2>4 DEF Submit, StoreOK, TypeOK, admin
<1>4. CASE Elapse(j)
  <2>1. [ row[j] EXCEPT !.delay = "elapsed" ] \in Row
    BY DEF TypeOK, Row
  <2>2. row' \in [Job -> Row]
    BY <1>4, <2>1 DEF Elapse, TypeOK
  <2>3. QED
    BY <1>2, <1>4, <2>2 DEF Elapse, TypeOK, admin
<1>5. CASE Age(j)
  BY <1>2, <1>5 DEF Age, TypeOK, admin
<1>6. QED
  BY <1>3, <1>4, <1>5

\* A worker is written whole; one that is idle needs no job.
LEMMA WorkerType ==
    ASSUME TypeInv, NEW s \in Slot, NEW w \in Worker,
           w.pc \in { "run", "put", "children" } => w.job \in Job,
           worker' = [ worker EXCEPT ![s] = w ]
    PROVE  worker' \in [Slot -> Worker] /\ BusyHaveJobs'
<1>1. worker' \in [Slot -> Worker]
  BY DEF TypeInv, TypeOK
<1>2. \A t \in Slot : worker'[t] = IF t = s THEN w ELSE worker[t]
  BY DEF TypeInv, TypeOK
<1>3. BusyHaveJobs'
  BY <1>2 DEF TypeInv, BusyHaveJobs, Busy
<1>4. QED
  BY <1>1, <1>3

LEMMA WorkerStepType ==
    ASSUME TypeInv, NEW s \in Slot, WorkerStep(s)
    PROVE  TypeInv'
<1> DEFINE w == worker[s]
<1>1. /\ w.job \in Job \cup { NoJob } /\ w.seen \in Row /\ w.rest \in Seq(Job)
      /\ w.verdict \in Verdict /\ w.pc \in { "free", "held", "run", "put", "children", "done" }
      /\ w \in Worker
  BY DEF TypeInv, TypeOK, Worker
<1>2. w.pc \in { "run", "put", "children" } => w.job \in Job
  BY DEF TypeInv, BusyHaveJobs, Busy
<1>3. drain' = drain /\ requests' = requests /\ asked' = asked /\ restarts' = restarts
  BY DEF WorkerStep, Decide, Put, PutChild, PutInlineChild, CollectGarbage, LoseWrite,
         Release, admin
<1>4. ResolvedHasJob' /\ drain' \in [Drainer -> Drain]
      /\ requests' \in Seq([ job : Job, row : Row ]) /\ asked' \in Nat /\ restarts' \in Nat
  BY <1>3 DEF TypeInv, TypeOK, ResolvedHasJob
<1>5. notified' \in BOOLEAN
  BY DEF WorkerStep, Decide, Put, PutChild, PutInlineChild, CollectGarbage, LoseWrite,
         Release, TypeInv, TypeOK
<1>6. ASSUME StoreOK', worker' \in [Slot -> Worker], BusyHaveJobs'
      PROVE  TypeInv'
  BY <1>4, <1>5, <1>6 DEF TypeInv, TypeOK, StoreOK
<1>7. UNCHANGED store => StoreOK'
  BY DEF StoreOK, TypeInv, TypeOK, store
<1>8. CASE Decide(s)
  <2>1. PICK v \in Decisions(w.job) :
          \E batch \in IF v = "children" THEN NextBatch(w.job) ELSE { << >> } :
            worker' = [ worker EXCEPT ![s] =
              [ pc      |-> IF v = "children" THEN "children" ELSE "put",
                job     |-> w.job,
                seen    |-> IF Exists(w.job) THEN row[w.job] ELSE worker[s].seen,
                verdict |-> v,
                rest    |-> batch ] ]
    BY <1>8 DEF Decide
  <2>2. PICK batch \in IF v = "children" THEN NextBatch(w.job) ELSE { << >> } :
            worker' = [ worker EXCEPT ![s] =
              [ pc      |-> IF v = "children" THEN "children" ELSE "put",
                job     |-> w.job,
                seen    |-> IF Exists(w.job) THEN row[w.job] ELSE worker[s].seen,
                verdict |-> v,
                rest    |-> batch ] ]
    BY <2>1
  <2>3. w.job \in Job
    BY <1>2, <1>8 DEF Decide
  <2>4. v \in Verdict /\ batch \in Seq(Job)
    <3>1. v \in Verdict
      BY <2>3, DecisionsType
    <3>2. CASE v = "children"
      BY <2>2, <2>3, <3>1, <3>2, NextBatchType
    <3>3. CASE v # "children"
      BY <2>2, <3>1, <3>3
    <3>4. QED
      BY <3>1, <3>2, <3>3
  <2> DEFINE seen == IF Exists(w.job) THEN row[w.job] ELSE worker[s].seen
             pc   == IF v = "children" THEN "children" ELSE "put"
             new  == [ pc |-> pc, job |-> w.job, seen |-> seen,
                       verdict |-> v, rest |-> batch ]
  <2>5. seen \in Row
    BY <1>1, <2>3 DEF TypeInv, TypeOK
  <2>6. new \in Worker /\ new.job \in Job
    <3> HIDE DEF seen
    <3> QED BY <2>3, <2>4, <2>5 DEF Worker
  <2>7. worker' = [ worker EXCEPT ![s] = new ]
    BY <2>2
  <2> HIDE DEF new
  <2>8. worker' \in [Slot -> Worker] /\ BusyHaveJobs'
    BY <2>6, <2>7, WorkerType
  <2>9. QED
    BY <1>6, <1>7, <1>8, <2>8 DEF Decide
<1>9. CASE Put(s)
  <2>1. worker' \in [Slot -> Worker] /\ BusyHaveJobs'
    BY <1>9, IdleType, WorkerType DEF Put
  <2>2. w.job \in Job /\ Written(w.job, w.seen, w.verdict) \in Row
    BY <1>1, <1>2, <1>9, WrittenType DEF Put
  <2>3. StoreOK'
    BY <1>7, <1>9, <2>2, UpdateType DEF Put, TypeInv
  <2>4. QED
    BY <1>6, <2>1, <2>3
<1>10. CASE PutChild(s)
  <2>1. w.job \in Job /\ w.rest # << >> /\ Head(w.rest) \in Job /\ Tail(w.rest) \in Seq(Job)
    BY <1>1, <1>2, <1>10 DEF PutChild
  <2>2. StoreOK'
    BY <1>1, <1>10, <2>1, InsertChildType DEF PutChild, TypeInv
  <2>3. [ w EXCEPT !.rest = Tail(w.rest) ] \in Worker
        /\ [ w EXCEPT !.rest = Tail(w.rest) ].job = w.job
    BY <1>1, <2>1 DEF Worker
  <2>4. CASE Len(w.rest) = 1
    <3>1. worker' = [ worker EXCEPT ![s] = Idle("done") ]
      BY <1>10, <2>4 DEF PutChild
    <3>2. QED
      BY <1>6, <2>2, <3>1, IdleType, WorkerType
  <2>5. CASE Len(w.rest) # 1
    <3>1. worker' = [ worker EXCEPT ![s] = [ w EXCEPT !.rest = Tail(w.rest) ] ]
      BY <1>10, <2>5 DEF PutChild
    <3>2. QED
      BY <1>6, <2>1, <2>2, <2>3, <3>1, WorkerType
  <2>6. QED
    BY <2>4, <2>5
<1>11. CASE PutInlineChild(s)
  <2>1. PICK batch \in NextBatch(w.job) : InsertChild(w.job, w.seen, Head(batch))
    BY <1>11 DEF PutInlineChild
  <2>2. w.job \in Job
    BY <1>2, <1>11 DEF PutInlineChild
  <2>3. Head(batch) \in Job
    BY <2>2, NextBatchType
  <2>4. StoreOK'
    BY <1>1, <2>1, <2>2, <2>3, InsertChildType DEF TypeInv
  <2>5. worker' \in [Slot -> Worker] /\ BusyHaveJobs'
    BY <1>11 DEF PutInlineChild, TypeInv, TypeOK, BusyHaveJobs, Busy
  <2>6. QED
    BY <1>6, <2>4, <2>5
<1>12. CASE CollectGarbage(s)
  <2>1. PICK batch \in SUBSET { j \in Job : IsTerminal(j) } :
          /\ row' = [ j \in Job |-> IF j \in batch THEN Blank ELSE row[j] ]
          /\ outcomes' = [ j \in Job |-> IF j \in batch \ logged
                                         THEN Append(outcomes[j], row[j].state)
                                         ELSE outcomes[j] ]
          /\ logged' = logged \ batch
          /\ aged' = aged \ batch
          /\ deps' = { e \in deps : e[1] \notin batch /\ e[2] \notin batch }
    BY <1>12 DEF CollectGarbage
  <2>2. row' \in [Job -> Row]
    BY <2>1, BlankType DEF TypeInv, TypeOK
  <2>3. outcomes' \in [Job -> Seq(JobState)]
    <3> DEFINE after(j) == IF j \in batch \ logged THEN Append(outcomes[j], row[j].state)
                                                  ELSE outcomes[j]
    <3>1. \A j \in batch : row[j].state \in JobState
      BY <2>1 DEF IsTerminal, Terminal, JobState
    <3>2. \A j \in Job : after(j) \in Seq(JobState)
      BY <3>1 DEF TypeInv, TypeOK
    <3>3. outcomes' = [ j \in Job |-> after(j) ]
      BY <2>1
    <3>4. QED
      BY <3>2, <3>3
  <2>4. StoreOK'
    BY <1>12, <2>1, <2>2, <2>3 DEF CollectGarbage, StoreOK, TypeInv, TypeOK
  <2>5. worker' \in [Slot -> Worker] /\ BusyHaveJobs'
    BY <1>12 DEF CollectGarbage, TypeInv, TypeOK, BusyHaveJobs, Busy
  <2>6. QED
    BY <1>6, <2>4, <2>5
<1>13. CASE LoseWrite(s)
  <2>1. worker' \in [Slot -> Worker] /\ BusyHaveJobs'
    BY <1>13, IdleType, WorkerType DEF LoseWrite
  <2>2. QED
    BY <1>6, <1>7, <1>13, <2>1 DEF LoseWrite
<1>14. CASE Release(s)
  <2>1. worker' \in [Slot -> Worker] /\ BusyHaveJobs'
    BY <1>14, IdleType, WorkerType DEF Release
  <2>2. QED
    BY <1>6, <1>7, <1>14, <2>1 DEF Release
<1>15. QED
  BY <1>8, <1>9, <1>10, <1>11, <1>12, <1>13, <1>14 DEF WorkerStep

\* A drain is moved to another place.
LEMMA PlaceType ==
    ASSUME TypeInv, NEW d \in Drainer, NEW x \in Drain,
           x.pc = "resolved" => x.cur \in Job, DrainTo(d, x)
    PROVE  drain' \in [Drainer -> Drain] /\ ResolvedHasJob'
<1>1. drain' = [ drain EXCEPT ![d] = x ]
  BY DEF DrainTo
<1>2. drain' \in [Drainer -> Drain] /\ \A e \in Drainer : drain'[e] = IF e = d THEN x ELSE drain[e]
  BY <1>1 DEF TypeInv, TypeOK
<1>3. QED
  BY <1>2 DEF TypeInv, ResolvedHasJob

LEMMA DrainStepType ==
    ASSUME TypeInv, NEW d \in Drainer,
           DrainStep(d) \/ Notified(d) \/ TimerFires(d) \/ RunDue(d)
    PROVE  TypeInv'
<1> DEFINE x == drain[d]
<1>1. /\ x \in Drain /\ x.todo \in SUBSET Job /\ x.cur \in Job \cup { NoJob }
      /\ x.snap \in [Job -> Row] /\ x.kinds \in SUBSET JobKind /\ x.held \in SUBSET Slot
      /\ x.did \in BOOLEAN
  BY DEF TypeInv, TypeOK, Drain
<1>2. requests' = requests /\ asked' \in Nat /\ restarts' = restarts /\ notified' \in BOOLEAN
  <2>1. asked \in Nat /\ notified \in BOOLEAN
    BY DEF TypeInv, TypeOK
  <2>2. requests' = requests /\ restarts' = restarts /\ notified' \in BOOLEAN
    BY <2>1 DEF DrainStep, SweepRead, SweepPut, ResolveSelect, ResolveRead, ResolvePut,
         FindDueKinds, TakePermits, Claim, LookAhead, LookupFails, Notified, TimerFires, RunDue, admin
  <2>3. asked' = asked \/ asked' = asked + 1
    BY DEF DrainStep, SweepRead, SweepPut, ResolveSelect, ResolveRead, ResolvePut,
         FindDueKinds, TakePermits, Claim, LookAhead, LookupFails, Notified, TimerFires, RunDue, admin
  <2>4. QED
    BY <2>1, <2>2, <2>3
<1>3. ASSUME StoreOK', worker' \in [Slot -> Worker], BusyHaveJobs',
             drain' \in [Drainer -> Drain], ResolvedHasJob'
      PROVE  TypeInv'
  BY <1>2, <1>3 DEF TypeInv, TypeOK, StoreOK
<1>4. ASSUME UNCHANGED store
      PROVE  StoreOK'
  BY <1>4 DEF StoreOK, TypeInv, TypeOK, store
<1>5. ASSUME UNCHANGED worker
      PROVE  worker' \in [Slot -> Worker] /\ BusyHaveJobs'
  BY <1>5 DEF TypeInv, TypeOK, BusyHaveJobs, Busy
<1>6. ASSUME UNCHANGED << store, worker >>, NEW y \in Drain,
             y.pc = "resolved" => y.cur \in Job, DrainTo(d, y)
      PROVE  TypeInv'
  BY <1>3, <1>4, <1>5, <1>6, PlaceType
<1>7. CASE SweepRead(d)
  <2> DEFINE stale == { j \in aged : row[j].state = "running" }
             snap == [ j \in Job |-> IF j \in stale THEN row[j] ELSE Blank ]
             y == [ At("sweeping", TRUE) EXCEPT !.todo = stale, !.snap = snap ]
  <2>1. stale \in SUBSET Job /\ snap \in [Job -> Row]
    BY BlankType DEF TypeInv, TypeOK
  <2>2. y \in Drain /\ y.pc = "sweeping"
    <3> HIDE DEF stale, snap
    <3> QED BY <2>1, BlankType DEF At, Drain
  <2>3. At("select", FALSE) \in Drain /\ At("select", FALSE).pc = "select"
    BY DrainType DEF DrainPc
  <2>4. DrainTo(d, IF stale = {} THEN At("select", FALSE) ELSE y) /\ UNCHANGED << store, worker >>
    BY <1>7 DEF SweepRead
  <2> HIDE DEF y
  <2>5. QED
    BY <1>6, <2>2, <2>3, <2>4
<1>8. ASSUME NEW j \in Job, SweepPut(d, j)
      PROVE  TypeInv'
  <2> DEFINE left == x.todo \ { j }
             y == [ x EXCEPT !.todo = left, !.snap[j] = Blank ]
  <2>1. y \in Drain /\ y.pc = "sweeping"
    BY <1>1, <1>8, BlankType DEF SweepPut, Drain
  <2>2. At("select", TRUE) \in Drain /\ At("select", TRUE).pc = "select"
    BY DrainType DEF DrainPc
  <2>3. DrainTo(d, IF left = {} THEN At("select", TRUE) ELSE y) /\ UNCHANGED worker
    BY <1>8 DEF SweepPut
  <2>4. InState(x.snap[j], "failed_timeout") \in Row
    BY <1>1, InStateType DEF JobState
  <2>5. StoreOK'
    BY <1>8, <2>4, UpdateType DEF SweepPut, TypeInv
  <2> HIDE DEF y
  <2>6. drain' \in [Drainer -> Drain] /\ ResolvedHasJob'
    BY <2>1, <2>2, <2>3, PlaceType
  <2>7. QED
    BY <1>3, <1>5, <2>3, <2>5, <2>6
<1>9. CASE ResolveSelect(d)
  BY <1>1, <1>6, <1>9, DrainType DEF ResolveSelect
<1>10. ASSUME NEW p \in Job, ResolveRead(d, p)
       PROVE  TypeInv'
  <2> DEFINE left == x.todo \ { p }
             snap == [ NoRows EXCEPT ![p] = Resolved(p) ]
             y == [ At("resolved", TRUE) EXCEPT !.todo = left, !.cur = p, !.snap = snap ]
  <2>1. left \in SUBSET Job /\ snap \in [Job -> Row]
    BY <1>1, BlankType, ResolvedType DEF TypeInv
  <2>2. y \in Drain /\ y.cur = p
    <3> HIDE DEF left, snap
    <3> QED BY <2>1, BlankType DEF At, Drain
  <2>3. NextParent(left, x.did) \in Drain /\ NextParent(left, x.did).pc # "resolved"
    BY <1>1, DrainType
  <2>4. /\ DrainTo(d, IF Children(p) = {} \/ OpenChildren(p) # {}
                      THEN NextParent(left, x.did) ELSE y)
        /\ UNCHANGED << store, worker >>
    BY <1>10 DEF ResolveRead
  <2> HIDE DEF y, left
  <2>5. QED
    BY <1>6, <2>2, <2>3, <2>4
<1>11. CASE ResolvePut(d)
  <2>1. x.cur \in Job /\ x.snap[x.cur] \in Row
    BY <1>1, <1>11 DEF ResolvePut, TypeInv, ResolvedHasJob
  <2>2. StoreOK'
    BY <1>11, <2>1, UpdateType DEF ResolvePut, TypeInv
  <2>3. drain' \in [Drainer -> Drain] /\ ResolvedHasJob'
    BY <1>1, <1>11, DrainType, PlaceType DEF ResolvePut
  <2>4. QED
    BY <1>3, <1>5, <1>11, <2>2, <2>3 DEF ResolvePut
<1>12. CASE FindDueKinds(d)
  <2>1. { KindOf[j] : j \in { i \in Job : IsDue(i) } } \in SUBSET JobKind
    BY JobAssumption
  <2>2. QED
    BY <1>1, <1>6, <1>12, <2>1, DrainType DEF FindDueKinds
<1>13. ASSUME NEW k \in JobKind, TakePermits(d, k)
       PROVE  TypeInv'
  <2>1. PICK held \in SUBSET Slot :
          /\ worker' = [ s \in Slot |-> IF s \in held THEN Idle("held") ELSE worker[s] ]
          /\ DrainTo(d, [ At("claim", drain[d].did) EXCEPT
                            !.kinds = drain[d].kinds \ { k }, !.kind = k,
                            !.held = held, !.keys = ActiveKeys ])
    BY <1>13 DEF TakePermits
  <2> DEFINE y == [ At("claim", x.did) EXCEPT !.kinds = x.kinds \ { k }, !.kind = k,
                      !.held = held, !.keys = ActiveKeys ]
  <2>2. ActiveKeys \in SUBSET { KeyOf[j] : j \in Job }
    BY DEF ActiveKeys
  <2>3. y \in Drain /\ y.pc = "claim"
    BY <1>1, <2>2, BlankType DEF At, Drain
  <2> HIDE DEF y
  <2>4. drain' \in [Drainer -> Drain] /\ ResolvedHasJob'
    BY <2>1, <2>3, PlaceType DEF y
  <2>5. worker' \in [Slot -> Worker]
    BY <2>1, IdleType DEF TypeInv, TypeOK
  <2>6. BusyHaveJobs'
    BY <2>1, IdleType DEF TypeInv, BusyHaveJobs, Busy
  <2>7. QED
    BY <1>3, <1>4, <1>13, <2>4, <2>5, <2>6 DEF TakePermits
<1>14. CASE Claim(d)
  <2>1. PICK batch \in SUBSET Claimable(d) :
          /\ Upsert([ j \in batch |-> Running(j) ])
          /\ \E seat \in [ batch -> drain[d].held ] :
                 worker' = [ s \in Slot |->
                   IF s \notin drain[d].held THEN worker[s]
                   ELSE IF \E j \in batch : seat[j] = s
                   THEN Started(CHOOSE j \in batch : seat[j] = s)
                   ELSE Idle("free") ]
          /\ DrainTo(d, NextKind(d, drain[d].kinds, drain[d].did \/ batch # {}))
    BY <1>14 DEF Claim
  <2>2. PICK seat \in [ batch -> drain[d].held ] :
                 worker' = [ s \in Slot |->
                   IF s \notin drain[d].held THEN worker[s]
                   ELSE IF \E j \in batch : seat[j] = s
                   THEN Started(CHOOSE j \in batch : seat[j] = s)
                   ELSE Idle("free") ]
    BY <2>1
  <2>3. batch \subseteq Job /\ \A j \in batch : Running(j) \in Row
    BY <2>1, InStateType DEF Claimable, Running, JobState, TypeInv, TypeOK
  <2>4. StoreOK'
    <3> DEFINE new == [ j \in batch |-> Running(j) ]
    <3>1. DOMAIN new \subseteq Job /\ \A j \in DOMAIN new : new[j] \in Row
      BY <2>3
    <3>2. Upsert(new) /\ created' = created /\ deps' = deps
      BY <1>14, <2>1 DEF Claim
    <3> HIDE DEF new
    <3>3. QED
      BY <3>1, <3>2, UpsertType DEF StoreOK, TypeInv, TypeOK
  <2>5. drain' \in [Drainer -> Drain] /\ ResolvedHasJob'
    BY <1>1, <2>1, DrainType, PlaceType
  <2>6. \A j \in batch : Started(j) \in Worker /\ Started(j).job \in Job
    BY <2>3 DEF Started, Worker, Verdict
  <2>7. ASSUME NEW s \in Slot
        PROVE  \/ worker'[s] = worker[s]
               \/ worker'[s] = Idle("free")
               \/ \E j \in batch : worker'[s] = Started(j)
    <3>1. CASE s \notin drain[d].held
      BY <2>2, <3>1
    <3>2. CASE s \in drain[d].held /\ ~\E j \in batch : seat[j] = s
      BY <2>2, <3>2
    <3>3. CASE s \in drain[d].held /\ \E j \in batch : seat[j] = s
      BY <2>2, <3>3
    <3>4. QED
      BY <3>1, <3>2, <3>3
  <2>8. ASSUME NEW s \in Slot
        PROVE  /\ worker'[s] \in Worker
               /\ worker'[s].pc \in { "run", "put", "children" } => worker'[s].job \in Job
    <3>1. CASE worker'[s] = worker[s]
      BY <3>1 DEF TypeInv, TypeOK, BusyHaveJobs, Busy
    <3>2. CASE worker'[s] = Idle("free")
      BY <3>2, IdleType
    <3>3. CASE \E j \in batch : worker'[s] = Started(j)
      BY <2>6, <3>3
    <3>4. QED
      BY <2>7, <3>1, <3>2, <3>3
  <2>9. worker' \in [Slot -> Worker] /\ BusyHaveJobs'
    <3>1. worker' = [ s \in Slot |-> worker'[s] ]
      BY <2>2
    <3>2. QED
      BY <2>8, <3>1 DEF BusyHaveJobs, Busy
  <2>10. QED
    BY <1>3, <2>4, <2>5, <2>9
<1>15. CASE LookAhead(d) \/ LookupFails(d)
  <2>1. \A pc \in { "dozing", "asleep", "stalled" } : At(pc, FALSE) \in Drain /\ At(pc, FALSE).pc = pc
    BY DrainType DEF DrainPc
  <2>2. QED
    BY <1>6, <1>15, <2>1 DEF LookAhead, LookupFails
<1>16. CASE Notified(d) \/ TimerFires(d) \/ RunDue(d)
  <2>1. At("sweep", FALSE) \in Drain /\ At("sweep", FALSE).pc = "sweep"
    BY DrainType DEF DrainPc
  <2>2. QED
    BY <1>6, <1>16, <2>1 DEF Notified, TimerFires, RunDue
<1>17. QED
  BY <1>7, <1>8, <1>9, <1>10, <1>11, <1>12, <1>13, <1>14, <1>15, <1>16 DEF DrainStep

LEMMA AdminType ==
    ASSUME TypeInv, (\E j \in Job : RetryJob(j) \/ CancelTree(j)) \/ RequestPut
    PROVE  TypeInv'
<1>1. worker' = worker /\ drain' = drain /\ restarts' = restarts /\ notified' \in BOOLEAN
  BY DEF RetryJob, CancelTree, Owe, RequestPut, TypeInv, TypeOK
<1>2. BusyHaveJobs' /\ ResolvedHasJob'
  BY <1>1 DEF TypeInv, BusyHaveJobs, ResolvedHasJob, Busy
<1>3. ASSUME NEW writes \in Seq([ job : Job, row : Row ]), Owe(writes)
      PROVE  TypeInv'
  BY <1>1, <1>2, <1>3 DEF Owe, TypeInv, TypeOK, store
<1>4. ASSUME NEW j \in Job, RetryJob(j)
      PROVE  TypeInv'
  <2>1. InState(row[j], "queued") \in Row
    BY InStateType DEF TypeInv, TypeOK, JobState
  <2>2. << [ job |-> j, row |-> InState(row[j], "queued") ] >> \in Seq([ job : Job, row : Row ])
    BY <2>1
  <2>3. QED
    BY <1>3, <1>4, <2>2 DEF RetryJob
<1>5. ASSUME NEW root \in Job, CancelTree(root)
      PROVE  TypeInv'
  <2> DEFINE depth2 == UNION { Children(c) : c \in Children(root) }
             tree   == { j \in depth2 \cup Children(root) \cup { root } :
                           row[j].state \in Cancellable }
  <2>1. PICK order \in [ 1 .. Cardinality(tree) -> tree ] :
          Owe([ n \in DOMAIN order |->
                  [ job |-> order[n], row |-> CancelledRow(row[order[n]]) ] ])
    BY <1>5 DEF CancelTree
  <2>2. tree \subseteq Job
    BY DEF Children
  <2>3. Cardinality(tree) \in Nat
    BY <2>2, JobAssumption, FS_Subset, FS_CardinalityType
  <2> DEFINE size == Cardinality(tree)
             writes == [ n \in 1 .. size |->
                           [ job |-> order[n], row |-> CancelledRow(row[order[n]]) ] ]
  <2>4. \A n \in 1 .. size : order[n] \in Job /\ CancelledRow(row[order[n]]) \in Row
    BY <2>1, <2>2, CancelledRowType DEF TypeInv, TypeOK
  <2>5. writes \in [ 1 .. size -> [ job : Job, row : Row ] ]
    <3> HIDE DEF size
    <3> QED BY <2>4
  <2>6. writes \in Seq([ job : Job, row : Row ])
    <3> HIDE DEF writes
    <3> QED BY <2>3, <2>5, SeqDef
  <2>7. Owe(writes)
    BY <2>1
  <2> HIDE DEF writes
  <2>8. QED
    BY <1>3, <2>6, <2>7
<1>6. CASE RequestPut
  <2> DEFINE Write == [ job : Job, row : Row ]
  <2>1. Head(requests) \in Write /\ Tail(requests) \in Seq(Write)
    <3>1. requests \in Seq(Write) /\ requests # << >>
      BY <1>6 DEF RequestPut, TypeInv, TypeOK
    <3> HIDE DEF Write
    <3>2. QED
      BY <3>1, HeadTailProperties
  <2>2. StoreOK'
    BY <1>6, <2>1, UpdateType DEF RequestPut, TypeInv
  <2>3. QED
    BY <1>1, <1>2, <1>6, <2>1, <2>2 DEF RequestPut, TypeInv, TypeOK, StoreOK
<1>7. QED
  BY <1>4, <1>5, <1>6

\* Where a drain starts.
LEMMA FirstPlaceType ==
    /\ [ d \in Drainer |-> At(IF d = "loop" THEN "sweep" ELSE "idle", FALSE) ]
         \in [ Drainer -> Drain ]
    /\ \A d \in Drainer : At(IF d = "loop" THEN "sweep" ELSE "idle", FALSE).pc # "resolved"
BY DrainType DEF DrainPc

LEMMA RestartType == TypeInv /\ Restart => TypeInv'
<1> SUFFICES ASSUME TypeInv, Restart
             PROVE  TypeInv'
  OBVIOUS
<1> DEFINE interrupted == { j \in Job : /\ row[j].state = "running"
                                        /\ KindOf[j] = "agent_task" }
<1>1. PICK replied \in SUBSET interrupted :
        Upsert([ j \in interrupted |->
                   InState(row[j], IF j \in replied THEN "complete" ELSE "failed") ])
  BY DEF Restart
<1> DEFINE new == [ j \in interrupted |->
                      InState(row[j], IF j \in replied THEN "complete" ELSE "failed") ]
<1>2. DOMAIN new \subseteq Job /\ \A j \in DOMAIN new : new[j] \in Row
  BY InStateType DEF TypeInv, TypeOK, JobState
<1>3. Upsert(new) /\ created' = created /\ deps' = deps
  BY <1>1 DEF Restart
<1>4. StoreOK'
  <2> HIDE DEF new
  <2> QED BY <1>2, <1>3, UpsertType DEF StoreOK, TypeInv, TypeOK
<1>5. worker' \in [Slot -> Worker] /\ BusyHaveJobs'
  BY IdleType DEF Restart, BusyHaveJobs, Busy
<1>6. drain' \in [Drainer -> Drain] /\ ResolvedHasJob'
  BY FirstPlaceType DEF Restart, ResolvedHasJob
<1>7. /\ notified' \in BOOLEAN /\ requests' \in Seq([ job : Job, row : Row ])
      /\ asked' \in Nat /\ restarts' \in Nat
  <2>1. notified' = FALSE /\ requests' = << >> /\ asked' = asked /\ restarts' = restarts + 1
    BY DEF Restart
  <2>2. asked \in Nat /\ restarts \in Nat
    BY DEF TypeInv, TypeOK
  <2>3. requests' \in Seq([ job : Job, row : Row ])
    BY <2>1, EmptySeq
  <2>4. notified' \in BOOLEAN
    BY <2>1, Zenon
  <2>5. asked' \in Nat /\ restarts' \in Nat
    BY <2>1, <2>2
  <2>6. QED
    BY <2>3, <2>4, <2>5
<1>8. QED
  BY <1>4, <1>5, <1>6, <1>7 DEF TypeInv, TypeOK, StoreOK

LEMMA InitType == Init => TypeInv
<1> SUFFICES ASSUME Init
             PROVE  TypeInv
  OBVIOUS
<1>1. StoreOK
  BY BlankType DEF Init, StoreOK
<1>2. worker \in [Slot -> Worker] /\ BusyHaveJobs
  BY IdleType DEF Init, BusyHaveJobs, Busy
<1>3. drain \in [Drainer -> Drain] /\ ResolvedHasJob
  BY FirstPlaceType DEF Init, ResolvedHasJob
<1>4. requests \in Seq([ job : Job, row : Row ])
  BY EmptySeq DEF Init
<1>5. QED
  BY <1>1, <1>2, <1>3, <1>4 DEF Init, TypeInv, TypeOK, StoreOK

LEMMA NextType == TypeInv /\ [Next]_vars => TypeInv'
<1> SUFFICES ASSUME TypeInv, [Next]_vars
             PROVE  TypeInv'
  OBVIOUS
<1>1. CASE \E j \in Job : Submit(j) \/ Elapse(j) \/ Age(j)
  BY <1>1, ArrivalType
<1>2. CASE \E s \in Slot : WorkerStep(s)
  BY <1>2, WorkerStepType
<1>3. CASE \E d \in Drainer : DrainStep(d) \/ Notified(d) \/ TimerFires(d) \/ RunDue(d)
  BY <1>3, DrainStepType
<1>4. CASE (\E j \in Job : RetryJob(j) \/ CancelTree(j)) \/ RequestPut
  BY <1>4, AdminType
<1>5. CASE Restart
  BY <1>5, RestartType
<1>6. CASE UNCHANGED vars
  BY <1>6 DEF vars, store, admin, TypeInv, TypeOK, BusyHaveJobs, ResolvedHasJob, Busy
<1>7. QED
  BY <1>1, <1>2, <1>3, <1>4, <1>5, <1>6 DEF Next

\* Every variable keeps its type, with any handlers, faults and second drain
\* (the row, worker and drain values of the whole engine).
THEOREM TypeCorrect == Spec => []TypeOK
<1>1. Spec => []TypeInv
  BY InitType, NextType, PTL DEF Spec
<1>2. TypeInv => TypeOK
  BY DEF TypeInv
<1>3. QED
  BY <1>1, <1>2, PTL

(***************************************************************************)
(* The calm regime.  First what the writes do to the rows, and what it      *)
(* takes to leave each part of the invariant undisturbed.                   *)
(***************************************************************************)

\* A settled row is not rewritten by the step: what TerminalIsFinal says of it.
SettledStay == \A j \in Job : IsTerminal(j) => row'[j].state \in { row[j].state, Gone }

\* The step claims no key, ends no wait, and leaves abandoned rows abandoned.
KeysOnlyFreed  == \A j \in Job : HoldsKey(j)' => HoldsKey(j)
WaitingStay    == \A j \in Job : row[j].state = "waiting" => row'[j].state = "waiting"
AbandonedStay  == \A j \in Job : Abandoned(j) => Abandoned(j)'

\* The workers that are at work after the step were, and have not moved.
BusyKept == \A s \in Slot : s \in Busy' => s \in Busy /\ worker'[s] = worker[s]

\* Update writes one row.
LEMMA UpdateRows ==
    ASSUME TypeInv, NEW j \in Job, NEW r \in Row, Update(j, r)
    PROVE  /\ row' = [ row EXCEPT ![j] = r ]
           /\ row'[j] = r /\ \A i \in Job \ { j } : row'[i] = row[i]
           /\ aged' = aged \ { j }
           /\ Created' = Created
<1> DEFINE new == [ i \in { j } |-> r ]
<1>1. /\ row' = [ i \in Job |-> IF i \in DOMAIN new THEN new[i] ELSE row[i] ]
      /\ aged' = aged \ DOMAIN new
      /\ created' = created
  BY DEF Update, Upsert
<1>2. DOMAIN new = { j } /\ new[j] = r
  OBVIOUS
<1> HIDE DEF new
<1>3. QED
  BY <1>1, <1>2 DEF TypeInv, TypeOK, Created

\* A job that is appended to the order of creation is created.
LEMMA AppendCreated ==
    ASSUME TypeInv, NEW j \in Job, created' = Append(created, j)
    PROVE  Created' = Created \cup { j }
<1>1. created \in Seq(Job) /\ Len(created) \in Nat /\ DOMAIN created = 1 .. Len(created)
  BY LenProperties DEF TypeInv, TypeOK
<1>2. /\ DOMAIN created' = 1 .. Len(created) + 1
      /\ created'[Len(created) + 1] = j
      /\ \A n \in 1 .. Len(created) : created'[n] = created[n]
  BY <1>1
<1>3. 1 .. Len(created) + 1 = (1 .. Len(created)) \cup { Len(created) + 1 }
  BY <1>1
<1>4. QED
  BY <1>1, <1>2, <1>3 DEF Created

\* InsertChild writes the child and its running parent.
LEMMA InsertChildRows ==
    ASSUME TypeInv, NEW p \in Job, NEW seen \in Row, NEW c \in Job, c # p,
           seen.state = "running", InsertChild(p, seen, c)
    PROVE  /\ row'[c].state = "queued" /\ row'[p].state = "waiting"
           /\ \A i \in Job \ { c, p } : row'[i] = row[i]
           /\ aged' = aged \ { c, p }
           /\ Created' = Created \cup { c }
           /\ row'[c].delay = "none" /\ created' = Append(created, c)
           /\ deps' = deps \cup { << p, c >> }
<1> DEFINE new == [ i \in { c } \cup (IF seen.state \in Terminal THEN {} ELSE { p }) |->
                      IF i = c THEN Fresh ELSE InState(seen, "waiting") ]
<1>1. /\ row' = [ i \in Job |-> IF i \in DOMAIN new THEN new[i] ELSE row[i] ]
      /\ aged' = aged \ DOMAIN new
      /\ created' = Append(created, c) /\ deps' = deps \cup { << p, c >> }
  BY DEF InsertChild, Upsert
<1>2. DOMAIN new = { c, p } /\ new[c] = Fresh /\ new[p] = InState(seen, "waiting")
  BY DEF Terminal
<1>3. Fresh.state = "queued" /\ Fresh.delay = "none" /\ InState(seen, "waiting").state = "waiting"
  BY BlankType, InStateType DEF JobState, Fresh, InState, Blank
<1> HIDE DEF new
<1>4. QED
  BY <1>1, <1>2, <1>3, AppendCreated

\* From a row that was running the dispatcher writes one that holds no key
\* anew: it is settled, queued or waiting.
LEMMA WrittenState ==
    ASSUME NEW j \in Job, NEW seen \in Row, seen.state = "running", NEW v \in Verdict
    PROVE  Written(j, seen, v).state \in
             { "complete", "failed", "cancelled", "queued", "waiting" }
<1>1. Completed(j, seen).state \in { "complete", "cancelled" }
  BY InStateType DEF Completed, JobState
<1>2. Requeued(seen).state = "queued"
  <2> DEFINE r1 == InState(seen, "queued")
             r2 == [ r1 EXCEPT !.delay = "pending" ]
             r3 == [ r2 EXCEPT !.attempts = seen.attempts + 1 ]
  <2>1. r1 \in Row /\ r1.state = "queued"
    BY InStateType DEF JobState
  <2>2. r2 \in Row /\ r2.state = "queued"
    <3> HIDE DEF r1
    <3> QED BY <2>1 DEF Row
  <2>3. r3.state = "queued"
    <3> HIDE DEF r2
    <3> QED BY <2>2 DEF Row
  <2>4. Requeued(seen) = r3
    BY DEF Requeued, InState
  <2>5. QED
    BY <2>3, <2>4
<1>3. InState(seen, "failed").state = "failed" /\ InState(seen, "waiting").state = "waiting"
  BY InStateType DEF JobState
<1>4. QED
  BY <1>1, <1>2, <1>3 DEF Written

\* A step that leaves the drain alone need only mind the rows.
LEMMA DrainUntouched ==
    ASSUME CalmInv, drain' = drain, KeysOnlyFreed, WaitingStay, AbandonedStay,
           "loop" \in Drainer, TypeInv
    PROVE  KeysDiffer' /\ KeysRead' /\ ParentsStillWait' /\ SweptAreAbandoned'
<1>1. KeysDiffer' /\ KeysRead'
  BY DEF CalmInv, KeysDiffer, KeysRead, KeysOnlyFreed
<1>2. drain["loop"].todo \in SUBSET Job
  BY DEF TypeInv, TypeOK, Drain
<1>3. ParentsStillWait'
  BY <1>2 DEF CalmInv, ParentsStillWait, WaitingStay
<1>4. SweptAreAbandoned'
  BY <1>2 DEF CalmInv, SweptAreAbandoned, AbandonedStay
<1>5. QED
  BY <1>1, <1>3, <1>4

\* A step that starts no work need only mind the rows of those at work.
LEMMA WorkersUntouched ==
    ASSUME TypeInv, CalmInv, BusyKept,
           \A s \in Busy' : row'[worker[s].job].state = "running",
           \A s \in Busy' : worker[s].pc = "children" => Head(worker[s].rest) \notin Created'
    PROVE  BusyRowsRun' /\ OneWorkerEach' /\ ChildIsNew'
<1>1. BusyRowsRun'
  BY DEF CalmInv, BusyRowsRun, BusyKept, Busy
<1>2. OneWorkerEach'
  BY DEF CalmInv, OneWorkerEach, BusyKept, Busy
<1>3. ChildIsNew'
  BY DEF CalmInv, ChildIsNew, BusyKept, Busy
<1>4. QED
  BY <1>1, <1>2, <1>3

\* A step of the drain that touches neither rows nor work need only mind the drain.
LEMMA StoreUntouched ==
    ASSUME TypeInv, CalmInv, UNCHANGED << store, requests >>, BusyKept
    PROVE  /\ NoRequests' /\ RowsAreCreated' /\ BusyRowsRun' /\ OneWorkerEach'
           /\ ChildIsNew' /\ KeysDiffer' /\ AgedAreAbandoned'
           /\ SettledStay /\ KeysOnlyFreed /\ WaitingStay /\ AbandonedStay
<1>1. UNCHANGED << row, created, aged, requests >> /\ Created' = Created
  BY DEF store, Created
<1>2. NoRequests' /\ RowsAreCreated'
  BY <1>1 DEF CalmInv, NoRequests, RowsAreCreated
<1>3. BusyRowsRun' /\ OneWorkerEach' /\ ChildIsNew'
  <2>1. \A s \in Busy' : s \in Busy
    BY DEF BusyKept, Busy
  <2>2. \A s \in Busy' : row'[worker[s].job].state = "running"
    BY <1>1, <2>1 DEF CalmInv, BusyRowsRun
  <2>3. \A s \in Busy' : worker[s].pc = "children" => Head(worker[s].rest) \notin Created'
    BY <1>1, <2>1 DEF CalmInv, ChildIsNew, Busy
  <2>4. QED
    BY <2>2, <2>3, WorkersUntouched
<1>4. KeysOnlyFreed /\ KeysDiffer'
  BY <1>1 DEF CalmInv, KeysOnlyFreed, KeysDiffer, HoldsKey
<1>5. AbandonedStay /\ AgedAreAbandoned'
  <2>1. AbandonedStay
    BY <1>1 DEF AbandonedStay, Abandoned, BusyKept, Busy
  <2>2. QED
    BY <1>1, <2>1 DEF CalmInv, AgedAreAbandoned, AbandonedStay, TypeInv, TypeOK
<1>6. SettledStay /\ WaitingStay
  BY <1>1 DEF SettledStay, WaitingStay
<1>7. QED
  BY <1>1, <1>2, <1>3, <1>4, <1>5, <1>6

(***************************************************************************)
(* The invariant of the calm regime, action by action.                      *)
(***************************************************************************)

LEMMA CalmArrival ==
    ASSUME Calm, TypeInv, CalmInv, NEW j \in Job, Submit(j) \/ Elapse(j) \/ Age(j)
    PROVE  CalmInv' /\ SettledStay
<1>1. drain' = drain /\ worker' = worker /\ requests' = requests
  BY DEF Submit, Elapse, Age, admin
<1>2. Busy' = Busy /\ BusyKept /\ NoRequests' /\ "loop" \in Drainer
  BY <1>1, EnvironmentAssumption DEF Busy, BusyKept, CalmInv, NoRequests
<1>3. CASE Submit(j)
  <2>1. row[j].state = Gone /\ row[j].state = "gone"
    BY <1>3 DEF Submit, CalmInv, RowsAreCreated, Gone
  <2> DEFINE new == [ i \in { j } |-> Fresh ]
  <2>2. /\ row' = [ i \in Job |-> IF i \in DOMAIN new THEN new[i] ELSE row[i] ]
        /\ aged' = aged \ DOMAIN new
        /\ created' = Append(created, j)
    BY <1>3 DEF Submit, Upsert
  <2>3. DOMAIN new = { j } /\ new[j] = Fresh
    OBVIOUS
  <2> HIDE DEF new
  <2>4. /\ row'[j].state = "queued" /\ \A i \in Job \ { j } : row'[i] = row[i]
        /\ aged' = aged \ { j } /\ Created' = Created \cup { j }
    BY <2>2, <2>3, BlankType, AppendCreated
  <2>5. RowsAreCreated' /\ SettledStay
    BY <2>1, <2>4 DEF CalmInv, RowsAreCreated, SettledStay, IsTerminal, Terminal
  <2>6. KeysOnlyFreed /\ WaitingStay /\ AbandonedStay
    BY <1>1, <1>2, <2>1, <2>4 DEF KeysOnlyFreed, WaitingStay, AbandonedStay, Abandoned, HoldsKey
  <2>7. AgedAreAbandoned'
    BY <2>4, <2>6 DEF CalmInv, AgedAreAbandoned, AbandonedStay, TypeInv, TypeOK
  <2>8. \A s \in Busy' : worker[s].job \in Job \ { j } /\ row'[worker[s].job].state = "running"
    BY <1>2, <2>1, <2>4 DEF CalmInv, BusyRowsRun
  <2>9. ASSUME NEW s \in Busy', worker[s].pc = "children"
         PROVE  Head(worker[s].rest) \notin Created'
    <3>1. s \in Slot /\ worker[s].job \in Job /\ Head(worker[s].rest) \in Kids(worker[s].job) \ Created
      BY <1>2, <2>8, <2>9 DEF CalmInv, ChildIsNew, Busy
    <3>2. j \in Roots
      BY <1>3 DEF Submit
    <3>3. QED
      BY <2>4, <3>1, <3>2, ChildAssumption
  <2>10. QED
    BY <1>1, <1>2, <2>5, <2>6, <2>7, <2>8, <2>9, DrainUntouched, WorkersUntouched DEF CalmInv
<1>4. CASE Elapse(j)
  <2>1. /\ \A i \in Job : row'[i].state = row[i].state
        /\ aged' = aged /\ Created' = Created
    BY <1>4 DEF Elapse, Created, TypeInv, TypeOK, Row
  <2>2. RowsAreCreated' /\ SettledStay
    BY <2>1 DEF CalmInv, RowsAreCreated, SettledStay
  <2>3. KeysOnlyFreed /\ WaitingStay /\ AbandonedStay
    BY <1>1, <1>2, <2>1 DEF KeysOnlyFreed, WaitingStay, AbandonedStay, Abandoned, HoldsKey
  <2>4. AgedAreAbandoned'
    BY <2>1, <2>3 DEF CalmInv, AgedAreAbandoned, AbandonedStay, TypeInv, TypeOK
  <2>5. \A s \in Busy' : row'[worker[s].job].state = "running"
    BY <1>2, <2>1 DEF CalmInv, BusyRowsRun
  <2>6. \A s \in Busy' : worker[s].pc = "children" => Head(worker[s].rest) \notin Created'
    BY <1>2, <2>1 DEF CalmInv, ChildIsNew, Busy
  <2>7. QED
    BY <1>1, <1>2, <2>2, <2>3, <2>4, <2>5, <2>6, DrainUntouched, WorkersUntouched DEF CalmInv
<1>5. CASE Age(j)
  <2>1. row' = row /\ Created' = Created /\ aged' = aged \cup { j }
    BY <1>5 DEF Age, Created
  <2>2. Abandoned(j)
    BY <1>5 DEF Age, Abandoned, Calm
  <2>3. RowsAreCreated' /\ SettledStay
    BY <2>1 DEF CalmInv, RowsAreCreated, SettledStay
  <2>4. KeysOnlyFreed /\ WaitingStay /\ AbandonedStay
    BY <1>1, <1>2, <2>1 DEF KeysOnlyFreed, WaitingStay, AbandonedStay, Abandoned, HoldsKey
  <2>5. AgedAreAbandoned'
    BY <2>1, <2>2, <2>4 DEF CalmInv, AgedAreAbandoned, AbandonedStay, TypeInv, TypeOK
  <2>6. \A s \in Busy' : row'[worker[s].job].state = "running"
    BY <1>2, <2>1 DEF CalmInv, BusyRowsRun
  <2>7. \A s \in Busy' : worker[s].pc = "children" => Head(worker[s].rest) \notin Created'
    BY <1>2, <2>1 DEF CalmInv, ChildIsNew, Busy
  <2>8. QED
    BY <1>1, <1>2, <2>3, <2>4, <2>5, <2>6, <2>7, DrainUntouched, WorkersUntouched DEF CalmInv
<1>6. QED
  BY <1>3, <1>4, <1>5

\* A worker that is idle after the step has let its job go, and no other moved.
LEMMA WorkerLeaves ==
    ASSUME TypeInv, NEW s \in Slot, NEW pc \in { "free", "done" },
           worker' = [ worker EXCEPT ![s] = Idle(pc) ]
    PROVE  Busy' = Busy \ { s } /\ BusyKept
<1>1. \A t \in Slot : worker'[t] = IF t = s THEN Idle(pc) ELSE worker[t]
  BY DEF TypeInv, TypeOK
<1>2. QED
  BY <1>1, IdleType DEF Busy, BusyKept

LEMMA CalmWorkerStep ==
    ASSUME Calm, TypeInv, CalmInv, NEW s \in Slot, WorkerStep(s)
    PROVE  CalmInv' /\ SettledStay
<1> DEFINE w == worker[s]
           j == w.job
<1>1. drain' = drain /\ requests' = requests
  BY DEF WorkerStep, Decide, Put, PutChild, PutInlineChild, CollectGarbage, LoseWrite,
         Release, admin
<1>2. NoRequests' /\ "loop" \in Drainer
  BY <1>1, EnvironmentAssumption DEF CalmInv, NoRequests
<1>3. w \in Worker /\ w.seen \in Row /\ w.verdict \in Verdict /\ w.rest \in Seq(Job)
  BY DEF TypeInv, TypeOK, Worker
<1>4. s \in Busy => /\ j \in Job /\ row[j].state = "running" /\ w.seen.state = "running"
                    /\ j \in Created
                    /\ \A t \in Busy \ { s } : worker[t].job # j
  BY DEF CalmInv, BusyRowsRun, OneWorkerEach, RowsAreCreated, Gone
<1>5. CASE Decide(s)
  <2>1. s \in Busy /\ w.pc = "run"
    BY <1>5 DEF Decide, Busy
  <2>2. UNCHANGED << row, created, aged >> /\ Created' = Created
    BY <1>5 DEF Decide, store, Created
  <2>3. PICK v \in Decisions(j) :
          \E batch \in IF v = "children" THEN NextBatch(j) ELSE { << >> } :
            worker' = [ worker EXCEPT ![s] =
              [ pc |-> IF v = "children" THEN "children" ELSE "put", job |-> j,
                seen |-> IF Exists(j) THEN row[j] ELSE w.seen, verdict |-> v, rest |-> batch ] ]
    BY <1>5 DEF Decide
  <2>4. PICK batch \in IF v = "children" THEN NextBatch(j) ELSE { << >> } :
            worker' = [ worker EXCEPT ![s] =
              [ pc |-> IF v = "children" THEN "children" ELSE "put", job |-> j,
                seen |-> IF Exists(j) THEN row[j] ELSE w.seen, verdict |-> v, rest |-> batch ] ]
    BY <2>3
  <2>5. /\ worker'[s].pc \in { "put", "children" }
        /\ worker'[s].job = j
        /\ worker'[s].seen.state = "running"
        /\ worker'[s].rest = batch
        /\ worker'[s].pc = "children" => batch \in NextBatch(j)
        /\ \A t \in Slot \ { s } : worker'[t] = worker[t]
    BY <1>4, <2>1, <2>4 DEF TypeInv, TypeOK
  <2>6. Busy' = Busy /\ \A t \in Slot : worker'[t].job = worker[t].job
    BY <2>1, <2>5 DEF Busy
  <2>7. BusyRowsRun' /\ OneWorkerEach'
    BY <1>4, <2>1, <2>2, <2>5, <2>6 DEF CalmInv, BusyRowsRun, OneWorkerEach, Busy
  <2>8. ChildIsNew'
    <3>1. ASSUME worker'[s].pc = "children"
          PROVE  Len(batch) = 1 /\ Head(batch) \in Kids(j) \ Created'
      <4>1. PICK n \in DOMAIN Batches[j] :
              /\ batch = Batches[j][n] /\ batch \in Seq(Job) /\ batch # << >>
              /\ \A m \in DOMAIN batch : batch[m] \in Kids(j) \ Created
        BY <1>4, <2>1, <2>5, <3>1, NextBatchType
      <4>2. Len(batch) = 1
        BY <1>4, <2>1, <4>1 DEF Calm
      <4>3. QED
        BY <2>2, <4>1, <4>2
    <3>2. QED
      BY <2>2, <2>5, <3>1 DEF CalmInv, ChildIsNew
  <2>9. KeysOnlyFreed /\ WaitingStay /\ AbandonedStay /\ SettledStay /\ RowsAreCreated'
    BY <2>2, <2>6 DEF CalmInv, KeysOnlyFreed, WaitingStay, AbandonedStay, Abandoned,
                      HoldsKey, SettledStay, RowsAreCreated, Busy
  <2>10. AgedAreAbandoned'
    BY <2>2, <2>9 DEF CalmInv, AgedAreAbandoned, AbandonedStay, TypeInv, TypeOK
  <2>11. QED
    BY <1>1, <1>2, <2>7, <2>8, <2>9, <2>10, DrainUntouched DEF CalmInv
<1>6. CASE Put(s)
  <2> DEFINE r == Written(j, w.seen, w.verdict)
  <2>1. s \in Busy
    BY <1>6 DEF Put, Busy
  <2>2. r \in Row /\ r.state \in { "complete", "failed", "cancelled", "queued", "waiting" }
    BY <1>3, <1>4, <2>1, WrittenType, WrittenState
  <2>3. Update(j, r)
    BY <1>4, <1>6, <2>1 DEF Put, Terminal
  <2> HIDE DEF r
  <2>4. /\ row'[j] = r /\ \A i \in Job \ { j } : row'[i] = row[i]
        /\ aged' = aged \ { j } /\ Created' = Created
    BY <1>4, <2>1, <2>2, <2>3, UpdateRows
  <2>5. Busy' = Busy \ { s } /\ BusyKept
    BY <1>6, WorkerLeaves DEF Put
  <2>6. \A t \in Busy' : worker[t].job \in Job \ { j } /\ row'[worker[t].job].state = "running"
    BY <1>4, <2>1, <2>4, <2>5 DEF CalmInv, BusyRowsRun
  <2>7. \A t \in Busy' : worker[t].pc = "children" => Head(worker[t].rest) \notin Created'
    BY <2>4, <2>5 DEF CalmInv, ChildIsNew, Busy
  <2>8. KeysOnlyFreed /\ WaitingStay /\ SettledStay
    BY <1>4, <2>1, <2>2, <2>4 DEF KeysOnlyFreed, WaitingStay, SettledStay, HoldsKey, IsTerminal, Terminal
  <2>9. AbandonedStay
    BY <1>4, <2>1, <2>4, <2>5 DEF AbandonedStay, Abandoned, BusyKept, Busy
  <2>10. RowsAreCreated'
    BY <1>4, <2>1, <2>4 DEF CalmInv, RowsAreCreated
  <2>11. AgedAreAbandoned'
    BY <2>4, <2>9 DEF CalmInv, AgedAreAbandoned, AbandonedStay, TypeInv, TypeOK
  <2>12. QED
    BY <1>1, <1>2, <2>5, <2>6, <2>7, <2>8, <2>9, <2>10, <2>11, DrainUntouched, WorkersUntouched
       DEF CalmInv
<1>7. CASE PutChild(s)
  <2> DEFINE c == Head(w.rest)
  <2>1. s \in Busy /\ w.pc = "children" /\ InsertChild(j, w.seen, c)
    BY <1>7 DEF PutChild, Busy
  <2>2. Len(w.rest) = 1 /\ c \in Kids(j) \ Created /\ c \in Job
    BY <1>3, <1>7, <2>1 DEF CalmInv, ChildIsNew, PutChild
  <2>3. worker' = [ worker EXCEPT ![s] = Idle("done") ]
    BY <1>7, <2>2 DEF PutChild
  <2> HIDE DEF c
  <2>4. row[c].state = Gone /\ row[c].state = "gone" /\ c # j
    BY <1>4, <2>1, <2>2 DEF CalmInv, RowsAreCreated, Gone
  <2>5. /\ row'[c].state = "queued" /\ row'[j].state = "waiting"
        /\ \A i \in Job \ { c, j } : row'[i] = row[i]
        /\ aged' = aged \ { c, j } /\ Created' = Created \cup { c }
    BY <1>3, <1>4, <2>1, <2>2, <2>4, InsertChildRows
  <2>6. Busy' = Busy \ { s } /\ BusyKept
    BY <2>3, WorkerLeaves
  <2>7. \A t \in Busy' : worker[t].job \in Job \ { c, j } /\ row'[worker[t].job].state = "running"
    BY <1>4, <2>1, <2>4, <2>5, <2>6 DEF CalmInv, BusyRowsRun
  <2>8. ASSUME NEW t \in Busy', worker[t].pc = "children"
        PROVE  Head(worker[t].rest) \notin Created'
    <3>1. Head(worker[t].rest) \in Kids(worker[t].job) \ Created
      BY <2>6, <2>8 DEF CalmInv, ChildIsNew, Busy
    <3>2. worker[t].job \in Job /\ worker[t].job # j /\ j \in Job
      BY <1>4, <2>1, <2>7, <2>8
    <3>3. Kids(worker[t].job) \cap Kids(j) = {}
      BY <3>2, ChildAssumption
    <3>4. QED
      BY <2>2, <2>5, <3>1, <3>3
  <2>9. KeysOnlyFreed /\ WaitingStay /\ SettledStay
    BY <1>4, <2>1, <2>4, <2>5 DEF KeysOnlyFreed, WaitingStay, SettledStay, HoldsKey, IsTerminal, Terminal
  <2>10. AbandonedStay
    BY <1>4, <2>1, <2>4, <2>5, <2>6 DEF AbandonedStay, Abandoned, BusyKept, Busy
  <2>11. RowsAreCreated'
    BY <1>4, <2>1, <2>5 DEF CalmInv, RowsAreCreated
  <2>12. AgedAreAbandoned'
    BY <2>5, <2>10 DEF CalmInv, AgedAreAbandoned, AbandonedStay, TypeInv, TypeOK
  <2>13. QED
    BY <1>1, <1>2, <2>6, <2>7, <2>8, <2>9, <2>10, <2>11, <2>12, DrainUntouched, WorkersUntouched
       DEF CalmInv
<1>8. CASE PutInlineChild(s)
  BY <1>8 DEF PutInlineChild, Calm
<1>9. CASE CollectGarbage(s)
  <2>1. PICK batch \in SUBSET { i \in Job : IsTerminal(i) } :
          /\ row' = [ i \in Job |-> IF i \in batch THEN Blank ELSE row[i] ]
          /\ aged' = aged \ batch
    BY <1>9 DEF CollectGarbage
  <2>2. Created' = Created /\ worker' = worker /\ Busy' = Busy /\ BusyKept
    BY <1>9 DEF CollectGarbage, Created, Busy, BusyKept
  <2>3. /\ \A i \in batch : row[i].state \in Terminal /\ row'[i].state = Gone
        /\ \A i \in Job \ batch : row'[i] = row[i]
    BY <2>1, BlankType DEF IsTerminal
  <2>4. \A t \in Busy' : worker[t].job \in Job \ batch /\ row'[worker[t].job].state = "running"
    BY <2>2, <2>3 DEF CalmInv, BusyRowsRun, Terminal
  <2>5. \A t \in Busy' : worker[t].pc = "children" => Head(worker[t].rest) \notin Created'
    BY <2>2 DEF CalmInv, ChildIsNew, Busy
  <2>6. KeysOnlyFreed /\ WaitingStay /\ SettledStay /\ RowsAreCreated'
    BY <2>2, <2>3 DEF CalmInv, KeysOnlyFreed, WaitingStay, SettledStay, RowsAreCreated,
                      HoldsKey, Terminal, Gone
  <2>7. AbandonedStay
    BY <2>2, <2>3 DEF AbandonedStay, Abandoned, Terminal
  <2>8. AgedAreAbandoned'
    BY <2>1, <2>3, <2>7 DEF CalmInv, AgedAreAbandoned, AbandonedStay, TypeInv, TypeOK
  <2>9. QED
    BY <1>1, <1>2, <2>2, <2>4, <2>5, <2>6, <2>7, <2>8, DrainUntouched, WorkersUntouched
       DEF CalmInv
<1>10. CASE LoseWrite(s) \/ Release(s)
  <2>1. UNCHANGED << store, requests >>
    BY <1>10 DEF LoseWrite, Release, admin
  <2>2. BusyKept
    BY <1>10, WorkerLeaves DEF LoseWrite, Release
  <2>3. QED
    BY <1>1, <1>2, <2>1, <2>2, StoreUntouched, DrainUntouched DEF CalmInv
<1>11. QED
  BY <1>5, <1>6, <1>7, <1>8, <1>9, <1>10 DEF WorkerStep

\* Places where a drain remembers no rows and no keys.
LEMMA QuietPlace ==
    ASSUME drain'["loop"].pc \notin { "claim", "resolving", "resolved", "sweeping" }
    PROVE  KeysRead' /\ ParentsStillWait' /\ SweptAreAbandoned'
BY DEF KeysRead, ParentsStillWait, SweptAreAbandoned

\* A drain moves on to resolve parents that wait.
LEMMA ParentPlace ==
    ASSUME TypeInv, NEW left \in SUBSET Job, NEW did \in BOOLEAN,
           \A p \in left : row'[p].state = "waiting",
           drain'["loop"] = NextParent(left, did)
    PROVE  KeysRead' /\ ParentsStillWait' /\ SweptAreAbandoned'
BY DrainType DEF KeysRead, ParentsStillWait, SweptAreAbandoned

\* The rows the resolver computes are settled or queued.
LEMMA ResolvedState ==
    ASSUME TypeInv, NEW p \in Job
    PROVE  Resolved(p).state \in Terminal \cup { "queued" }
<1> DEFINE r1 == InState(row[p], "queued")
           r2 == [ r1 EXCEPT !.delay = "none" ]
<1>1. row[p] \in Row
  BY DEF TypeInv, TypeOK
<1>2. \A t \in { "complete", "cancelled", "failed" } : InState(row[p], t).state = t
  BY <1>1, InStateType DEF JobState
<1>3. r1 \in Row /\ r1.state = "queued"
  BY <1>1, InStateType DEF JobState
<1>4. r2.state = "queued"
  <2> HIDE DEF r1
  <2> QED BY <1>3 DEF Row
<1>5. CASE KindOf[p] \in ResumingKinds
  <2>1. Resolved(p) = r2
    BY <1>5 DEF Resolved, InState
  <2>2. QED
    BY <1>4, <2>1
<1>6. CASE KindOf[p] \notin ResumingKinds
  BY <1>2, <1>6 DEF Resolved, Terminal
<1>7. QED
  BY <1>5, <1>6

LEMMA CalmDrainStep ==
    ASSUME Calm, TypeInv, CalmInv, NEW d \in Drainer,
           DrainStep(d) \/ Notified(d) \/ TimerFires(d) \/ RunDue(d)
    PROVE  CalmInv' /\ SettledStay
<1> DEFINE x == drain["loop"]
<1>1. d = "loop" /\ "loop" \in Drainer
  BY DEF Calm
<1>2. /\ x \in Drain /\ x.todo \in SUBSET Job /\ x.cur \in Job \cup { NoJob }
      /\ x.snap \in [Job -> Row] /\ x.kinds \in SUBSET JobKind /\ x.held \in SUBSET Slot
      /\ x.did \in BOOLEAN
  BY <1>1 DEF TypeInv, TypeOK, Drain
<1>3. requests' = requests /\ NoRequests'
  BY DEF DrainStep, SweepRead, SweepPut, ResolveSelect, ResolveRead, ResolvePut, FindDueKinds,
         TakePermits, Claim, LookAhead, LookupFails, Notified, TimerFires, RunDue, admin, CalmInv, NoRequests
<1>4. \A y : DrainTo(d, y) => drain'["loop"] = y
  BY <1>1 DEF DrainTo, TypeInv, TypeOK
<1>5. ASSUME UNCHANGED << store, worker >>, KeysRead', ParentsStillWait', SweptAreAbandoned'
      PROVE  CalmInv' /\ SettledStay
  <2>1. BusyKept
    BY <1>5 DEF BusyKept, Busy
  <2>2. QED
    BY <1>3, <1>5, <2>1, StoreUntouched DEF CalmInv
<1>6. ASSUME UNCHANGED << store, worker >>, NEW y, DrainTo(d, y),
             y.pc \notin { "claim", "resolving", "resolved", "sweeping" }
      PROVE  CalmInv' /\ SettledStay
  BY <1>4, <1>5, <1>6, QuietPlace
\* One row that nobody works on is written.
<1>7. ASSUME NEW j \in Job, NEW r \in Row, Update(j, r), UNCHANGED worker,
             row[j].state \in { "running", "waiting" }, \A s \in Busy : worker[s].job # j,
             r.state \in Terminal \cup { "queued" },
             KeysRead', ParentsStillWait', SweptAreAbandoned'
      PROVE  CalmInv' /\ SettledStay
  <2>1. /\ row'[j] = r /\ \A i \in Job \ { j } : row'[i] = row[i]
        /\ aged' = aged \ { j } /\ Created' = Created
    BY <1>7, UpdateRows
  <2>2. Busy' = Busy /\ BusyKept
    BY <1>7 DEF Busy, BusyKept
  <2>3. \A t \in Busy' : row'[worker[t].job].state = "running"
    BY <1>7, <2>1, <2>2 DEF CalmInv, BusyRowsRun
  <2>4. \A t \in Busy' : worker[t].pc = "children" => Head(worker[t].rest) \notin Created'
    BY <2>1, <2>2 DEF CalmInv, ChildIsNew, Busy
  <2>5. KeysOnlyFreed /\ SettledStay
    BY <1>7, <2>1 DEF KeysOnlyFreed, SettledStay, HoldsKey, IsTerminal, Terminal
  <2>6. RowsAreCreated'
    BY <1>7, <2>1 DEF CalmInv, RowsAreCreated, Gone
  <2>7. AgedAreAbandoned'
    BY <1>7, <2>1, <2>2 DEF CalmInv, AgedAreAbandoned, Abandoned, TypeInv, TypeOK
  <2>8. KeysDiffer'
    BY <2>5 DEF CalmInv, KeysDiffer, KeysOnlyFreed
  <2>9. QED
    BY <1>3, <1>7, <2>2, <2>3, <2>4, <2>5, <2>6, <2>7, <2>8, WorkersUntouched DEF CalmInv
<1>8. CASE SweepRead(d)
  <2> DEFINE stale == { j \in aged : row[j].state = "running" }
             snap == [ j \in Job |-> IF j \in stale THEN row[j] ELSE Blank ]
             y == [ At("sweeping", TRUE) EXCEPT !.todo = stale, !.snap = snap ]
  <2>1. y.pc = "sweeping" /\ y.todo = stale
    <3> HIDE DEF stale, snap
    <3> QED BY DEF At
  <2>2. \A j \in stale : Abandoned(j)
    BY DEF CalmInv, AgedAreAbandoned
  <2>3. UNCHANGED << store, worker >>
        /\ drain'["loop"] = IF stale = {} THEN At("select", FALSE) ELSE y
    BY <1>4, <1>8 DEF SweepRead
  <2>4. At("select", FALSE).pc = "select"
    BY DrainType DEF DrainPc
  <2>5. \A j \in stale : Abandoned(j)'
    BY <2>2, <2>3 DEF Abandoned, store, Busy
  <2> HIDE DEF y, stale
  <2>6. KeysRead' /\ ParentsStillWait' /\ SweptAreAbandoned'
    BY <2>1, <2>3, <2>4, <2>5 DEF KeysRead, ParentsStillWait, SweptAreAbandoned
  <2>7. QED
    BY <1>5, <2>3, <2>6
<1>9. ASSUME NEW j \in Job, SweepPut(d, j)
      PROVE  CalmInv' /\ SettledStay
  <2> DEFINE left == x.todo \ { j }
             y == [ x EXCEPT !.todo = left, !.snap[j] = Blank ]
             r == InState(x.snap[j], "failed_timeout")
  <2>1. x.pc = "sweeping" /\ \A i \in x.todo : Abandoned(i)
    BY <1>1, <1>9 DEF SweepPut, CalmInv, SweptAreAbandoned
  <2>2. r \in Row /\ r.state \in Terminal
    BY <1>2, InStateType DEF JobState, Terminal
  <2>3. Update(j, r) /\ UNCHANGED worker /\ j \in x.todo
        /\ drain'["loop"] = IF left = {} THEN At("select", TRUE) ELSE y
    BY <1>1, <1>4, <1>9 DEF SweepPut
  <2>4. row[j].state = "running" /\ \A s \in Busy : worker[s].job # j
    BY <2>1, <2>3 DEF Abandoned
  <2>5. At("select", TRUE).pc = "select"
    BY DrainType DEF DrainPc
  <2>6. y.pc = "sweeping" /\ y.todo = left
    BY <1>2, <2>1 DEF Drain
  <2> HIDE DEF r
  <2>7. \A i \in Job \ { j } : row'[i] = row[i]
    BY <2>2, <2>3, UpdateRows
  <2>8. \A i \in left : Abandoned(i)'
    BY <1>2, <2>1, <2>3, <2>7 DEF Abandoned, Busy
  <2> HIDE DEF y, left
  <2>9. KeysRead' /\ ParentsStillWait' /\ SweptAreAbandoned'
    BY <2>3, <2>5, <2>6, <2>8 DEF KeysRead, ParentsStillWait, SweptAreAbandoned
  <2>10. QED
    BY <1>7, <2>2, <2>3, <2>4, <2>9
<1>10. CASE ResolveSelect(d)
  <2> DEFINE ready == { p \in Job : Resolvable(p) }
  <2>1. drain'["loop"] = NextParent(ready, x.did) /\ UNCHANGED << store, worker >>
    BY <1>1, <1>4, <1>10 DEF ResolveSelect
  <2>2. \A p \in ready : row'[p].state = "waiting"
    BY <2>1 DEF Resolvable, store
  <2>3. KeysRead' /\ ParentsStillWait' /\ SweptAreAbandoned'
    BY <1>2, <2>1, <2>2, ParentPlace
  <2>4. QED
    BY <1>5, <2>1, <2>3
<1>11. ASSUME NEW p \in Job, ResolveRead(d, p)
       PROVE  CalmInv' /\ SettledStay
  <2> DEFINE left == x.todo \ { p }
             snap == [ NoRows EXCEPT ![p] = Resolved(p) ]
             y == [ At("resolved", TRUE) EXCEPT !.todo = left, !.cur = p, !.snap = snap ]
  <2>1. x.pc = "resolving" /\ p \in x.todo /\ \A i \in x.todo : row[i].state = "waiting"
    BY <1>1, <1>11 DEF ResolveRead, CalmInv, ParentsStillWait
  <2>2. /\ drain'["loop"] = IF Children(p) = {} \/ OpenChildren(p) # {}
                            THEN NextParent(left, x.did) ELSE y
        /\ UNCHANGED << store, worker >>
    BY <1>1, <1>4, <1>11 DEF ResolveRead
  <2>3. \A i \in left \cup { p } : row'[i].state = "waiting"
    BY <2>1, <2>2 DEF store
  <2>4. y.pc = "resolved" /\ y.todo = left /\ y.cur = p /\ y.snap = snap
    <3> HIDE DEF left, snap
    <3> QED BY DEF At
  <2>5. snap[p].state \in Terminal \cup { "queued" }
    BY BlankType, ResolvedState
  <2> HIDE DEF y, snap
  <2>6. KeysRead' /\ ParentsStillWait' /\ SweptAreAbandoned'
    <3>1. CASE Children(p) = {} \/ OpenChildren(p) # {}
      BY <1>2, <2>2, <2>3, <3>1, ParentPlace
    <3>2. CASE ~(Children(p) = {} \/ OpenChildren(p) # {})
      <4>1. drain'["loop"] = y
        BY <2>2, <3>2
      <4>2. QED
        BY <2>3, <2>4, <2>5, <4>1 DEF KeysRead, ParentsStillWait, SweptAreAbandoned
    <3>3. QED
      BY <3>1, <3>2
  <2>7. QED
    BY <1>5, <2>2, <2>6
<1>12. CASE ResolvePut(d)
  <2> DEFINE p == x.cur
             r == x.snap[p]
  <2>1. /\ x.pc = "resolved" /\ Update(p, r) /\ UNCHANGED worker
        /\ drain'["loop"] = NextParent(x.todo, TRUE)
    BY <1>1, <1>4, <1>12 DEF ResolvePut
  <2>2. /\ p \in Job \ x.todo /\ row[p].state = "waiting"
        /\ r.state \in Terminal \cup { "queued" }
        /\ \A i \in x.todo : row[i].state = "waiting"
    BY <2>1 DEF CalmInv, ParentsStillWait
  <2>3. r \in Row
    BY <1>2, <2>2
  <2>4. \A s \in Busy : worker[s].job # p
    BY <2>2 DEF CalmInv, BusyRowsRun
  <2> HIDE DEF r, p
  <2>5. \A i \in Job \ { p } : row'[i] = row[i]
    BY <2>1, <2>2, <2>3, UpdateRows
  <2>6. \A i \in x.todo : row'[i].state = "waiting"
    BY <1>2, <2>2, <2>5
  <2>7. KeysRead' /\ ParentsStillWait' /\ SweptAreAbandoned'
    BY <1>2, <2>1, <2>6, ParentPlace
  <2>8. QED
    BY <1>7, <2>1, <2>2, <2>3, <2>4, <2>7
<1>13. CASE FindDueKinds(d)
  <2>1. { KindOf[j] : j \in { i \in Job : IsDue(i) } } \in SUBSET JobKind
    BY JobAssumption
  <2>2. QED
    BY <1>1, <1>2, <1>6, <1>13, <2>1, DrainType DEF FindDueKinds
<1>14. ASSUME NEW k \in JobKind, TakePermits(d, k)
       PROVE  CalmInv' /\ SettledStay
  <2>1. PICK held \in SUBSET Slot :
          /\ worker' = [ s \in Slot |-> IF s \in held THEN Idle("held") ELSE worker[s] ]
          /\ drain'["loop"] = [ At("claim", drain[d].did) EXCEPT
                            !.kinds = drain[d].kinds \ { k }, !.kind = k,
                            !.held = held, !.keys = ActiveKeys ]
    BY <1>4, <1>14 DEF TakePermits
  <2>2. drain'["loop"].pc = "claim" /\ drain'["loop"].keys = ActiveKeys
    BY <2>1 DEF At
  <2>3. UNCHANGED store
    BY <1>14 DEF TakePermits
  <2>4. \A s \in Slot : worker'[s] = worker[s] \/ worker'[s].pc = "held"
    BY <2>1, IdleType
  <2>5. BusyKept
    BY <2>4 DEF BusyKept, Busy
  <2>6. KeysRead'
    BY <2>2, <2>3 DEF KeysRead, ActiveKeys, HoldsKey, store
  <2>7. ParentsStillWait' /\ SweptAreAbandoned'
    BY <2>2 DEF ParentsStillWait, SweptAreAbandoned
  <2>8. QED
    BY <1>3, <2>3, <2>5, <2>6, <2>7, StoreUntouched DEF CalmInv
<1>15. CASE Claim(d)
  <2>1. PICK batch \in SUBSET Claimable(d) :
          /\ IsClaim(d, batch)
          /\ Upsert([ j \in batch |-> Running(j) ])
          /\ \E seat \in [ batch -> drain[d].held ] :
               /\ \A i, j \in batch : i # j => seat[i] # seat[j]
               /\ worker' = [ s \in Slot |->
                   IF s \notin drain[d].held THEN worker[s]
                   ELSE IF \E j \in batch : seat[j] = s
                   THEN Started(CHOOSE j \in batch : seat[j] = s)
                   ELSE Idle("free") ]
          /\ DrainTo(d, NextKind(d, drain[d].kinds, drain[d].did \/ batch # {}))
    BY <1>15 DEF Claim
  <2>2. PICK seat \in [ batch -> drain[d].held ] :
               worker' = [ s \in Slot |->
                   IF s \notin drain[d].held THEN worker[s]
                   ELSE IF \E j \in batch : seat[j] = s
                   THEN Started(CHOOSE j \in batch : seat[j] = s)
                   ELSE Idle("free") ]
    BY <2>1
  <2>3. /\ batch \subseteq Job
        /\ \A j \in batch : /\ row[j].state = "queued"
                            /\ KeyOf[j] = NoKey \/ KeyOf[j] \notin x.keys
                            /\ Started(j).pc = "run" /\ Started(j).job = j
                            /\ Started(j).seen.state = "running"
                            /\ Running(j).state = "running"
    BY <1>1, <2>1, InStateType DEF Claimable, IsDue, Started, Running, JobState, TypeInv, TypeOK
  <2>4. /\ \A j \in batch : row'[j].state = "running"
        /\ \A j \in Job \ batch : row'[j] = row[j]
        /\ aged' = aged \ batch
    <3> DEFINE new == [ j \in batch |-> Running(j) ]
    <3>1. /\ row' = [ j \in Job |-> IF j \in DOMAIN new THEN new[j] ELSE row[j] ]
          /\ aged' = aged \ DOMAIN new
      BY <2>1 DEF Upsert
    <3>2. DOMAIN new = batch /\ \A j \in batch : new[j] = Running(j)
      OBVIOUS
    <3> HIDE DEF new
    <3>3. QED
      BY <2>3, <3>1, <3>2
  <2>5. created' = created /\ Created' = Created
    BY <1>15 DEF Claim, Created
  <2>6. ASSUME NEW s \in Slot
        PROVE  \/ worker'[s] = worker[s]
               \/ worker'[s] = Idle("free")
               \/ \E j \in batch : seat[j] = s /\ worker'[s] = Started(j)
    <3>1. CASE s \notin drain[d].held
      BY <2>2, <3>1
    <3>2. CASE s \in drain[d].held /\ ~\E j \in batch : seat[j] = s
      BY <2>2, <3>2
    <3>3. CASE s \in drain[d].held /\ \E j \in batch : seat[j] = s
      BY <2>2, <3>3
    <3>4. QED
      BY <3>1, <3>2, <3>3
  <2>7. ASSUME NEW s \in Busy'
        PROVE  /\ s \in Slot
               /\ \/ s \in Busy /\ worker'[s] = worker[s]
                  \/ \E j \in batch : seat[j] = s /\ worker'[s] = Started(j)
    BY <2>6, <2>7, IdleType DEF Busy
  <2>8. \A s \in Busy : worker[s].job \in Job \ batch
    BY <2>3 DEF CalmInv, BusyRowsRun
  <2>9. BusyRowsRun'
    BY <2>3, <2>4, <2>7, <2>8 DEF CalmInv, BusyRowsRun
  <2>10. OneWorkerEach'
    BY <2>3, <2>7, <2>8 DEF CalmInv, OneWorkerEach
  <2>11. ChildIsNew'
    BY <2>3, <2>5, <2>7 DEF CalmInv, ChildIsNew, Busy
  <2>12. KeysDiffer'
    <3>1. ASSUME NEW j \in Job, HoldsKey(j)'
          PROVE  KeyOf[j] # NoKey /\ (j \in batch \/ HoldsKey(j))
      BY <2>4, <3>1 DEF HoldsKey
    <3>2. ASSUME NEW i \in Job, NEW j \in Job, HoldsKey(i), j \in batch, KeyOf[j] # NoKey
          PROVE  KeyOf[i] # KeyOf[j]
      BY <1>1, <1>15, <2>3, <3>2 DEF CalmInv, KeysRead, Claim
    <3>3. ASSUME NEW i \in batch, NEW j \in batch, i # j, KeyOf[i] # NoKey
          PROVE  KeyOf[i] # KeyOf[j]
      BY <2>1, <3>3 DEF IsClaim
    <3>4. QED
      BY <3>1, <3>2, <3>3 DEF CalmInv, KeysDiffer
  <2>13. RowsAreCreated'
    BY <2>3, <2>4, <2>5 DEF CalmInv, RowsAreCreated, Gone
  <2>14. AgedAreAbandoned'
    <3>1. SUFFICES ASSUME NEW j \in aged', row'[j].state = "running", NEW s \in Busy'
                   PROVE  worker'[s].job # j
      BY DEF AgedAreAbandoned, Abandoned
    <3>2. j \in Job \ batch /\ j \in aged /\ row[j].state = "running"
      BY <2>4, <3>1 DEF TypeInv, TypeOK
    <3>3. \A t \in Busy : worker[t].job # j
      BY <3>2 DEF CalmInv, AgedAreAbandoned, Abandoned
    <3>4. QED
      BY <2>3, <2>7, <3>2, <3>3
  <2>15. SettledStay
    BY <2>3, <2>4 DEF SettledStay, IsTerminal, Terminal
  <2>16. KeysRead' /\ ParentsStillWait' /\ SweptAreAbandoned'
    <3> DEFINE did == x.did \/ batch # {}
    <3>1. did \in BOOLEAN
      OBVIOUS
    <3>2. drain'["loop"] = NextKind(d, x.kinds, did)
      BY <1>1, <1>4, <2>1
    <3> HIDE DEF did
    <3>3. drain'["loop"].pc \in { "sweep", "look", "idle", "schedule" }
      BY <1>2, <3>1, <3>2, DrainType
    <3>4. QED
      BY <3>3, QuietPlace
  <2>17. QED
    BY <1>3, <2>9, <2>10, <2>11, <2>12, <2>13, <2>14, <2>15, <2>16 DEF CalmInv
<1>16. CASE LookAhead(d) \/ LookupFails(d)
  <2>1. \A pc \in { "dozing", "asleep", "stalled" } : At(pc, FALSE).pc = pc
    BY DrainType DEF DrainPc
  <2>2. QED
    BY <1>6, <1>16, <2>1 DEF LookAhead, LookupFails
<1>17. CASE Notified(d) \/ TimerFires(d) \/ RunDue(d)
  <2>1. At("sweep", FALSE).pc = "sweep"
    BY DrainType DEF DrainPc
  <2>2. QED
    BY <1>6, <1>17, <2>1 DEF Notified, TimerFires, RunDue
<1>18. QED
  BY <1>8, <1>9, <1>10, <1>11, <1>12, <1>13, <1>14, <1>15, <1>16, <1>17 DEF DrainStep

LEMMA CalmRestart ==
    ASSUME Calm, TypeInv, CalmInv, Restart
    PROVE  CalmInv' /\ SettledStay
<1> DEFINE interrupted == { j \in Job : /\ row[j].state = "running"
                                        /\ KindOf[j] = "agent_task" }
<1>1. PICK replied \in SUBSET interrupted :
        Upsert([ j \in interrupted |->
                   InState(row[j], IF j \in replied THEN "complete" ELSE "failed") ])
  BY DEF Restart
<1> DEFINE new == [ j \in interrupted |->
                      InState(row[j], IF j \in replied THEN "complete" ELSE "failed") ]
<1>2. /\ row' = [ j \in Job |-> IF j \in DOMAIN new THEN new[j] ELSE row[j] ]
      /\ aged' = aged \ DOMAIN new
  BY <1>1 DEF Upsert
<1>3. \A j \in interrupted : new[j].state \in { "complete", "failed" }
  BY InStateType DEF TypeInv, TypeOK, JobState
<1>4. DOMAIN new = interrupted
  OBVIOUS
<1> HIDE DEF new
<1>5. /\ \A j \in Job : \/ row'[j] = row[j]
                        \/ row[j].state = "running" /\ row'[j].state \in { "complete", "failed" }
      /\ aged' \subseteq aged
  <2>1. \A j \in Job \ interrupted : row'[j] = row[j]
    BY <1>2, <1>4
  <2>2. \A j \in interrupted : row'[j] = new[j] /\ row[j].state = "running"
    BY <1>2, <1>4
  <2>3. aged' \subseteq aged
    BY <1>2
  <2>4. QED
    BY <1>3, <2>1, <2>2, <2>3
<1>6. Busy' = {} /\ \A s \in Slot : worker'[s].pc = "free"
  BY IdleType DEF Restart, Busy
<1>7. BusyRowsRun' /\ OneWorkerEach' /\ ChildIsNew'
  BY <1>6 DEF BusyRowsRun, OneWorkerEach, ChildIsNew
<1>8. KeysDiffer' /\ SettledStay
  BY <1>5 DEF CalmInv, KeysDiffer, HoldsKey, SettledStay, IsTerminal, Terminal
<1>9. RowsAreCreated' /\ NoRequests'
  BY <1>5 DEF Restart, CalmInv, RowsAreCreated, NoRequests, Created, Gone
<1>10. AgedAreAbandoned'
  BY <1>6 DEF AgedAreAbandoned, Abandoned
<1>11. KeysRead' /\ ParentsStillWait' /\ SweptAreAbandoned'
  <2>1. drain'["loop"].pc = "sweep"
    BY EnvironmentAssumption, DrainType DEF Restart, DrainPc
  <2>2. QED
    BY <2>1, QuietPlace
<1>12. QED
  BY <1>7, <1>8, <1>9, <1>10, <1>11 DEF CalmInv

LEMMA CalmInit == Calm /\ Init => CalmInv
<1> SUFFICES ASSUME Calm, Init
             PROVE  CalmInv
  OBVIOUS
<1>1. Busy = {} /\ \A s \in Slot : worker[s].pc = "free"
  BY IdleType DEF Init, Busy
<1>2. BusyRowsRun /\ OneWorkerEach /\ ChildIsNew /\ AgedAreAbandoned /\ NoRequests
  BY <1>1 DEF Init, BusyRowsRun, OneWorkerEach, ChildIsNew, AgedAreAbandoned, NoRequests
<1>3. \A j \in Job : row[j].state = Gone /\ row[j].state = "gone"
  BY BlankType DEF Init, NoRows, Gone
<1>4. RowsAreCreated /\ KeysDiffer
  BY <1>3 DEF RowsAreCreated, KeysDiffer, HoldsKey
<1>5. drain["loop"].pc = "sweep"
  BY EnvironmentAssumption, DrainType DEF Init, DrainPc
<1>6. KeysRead /\ ParentsStillWait /\ SweptAreAbandoned
  BY <1>5 DEF KeysRead, ParentsStillWait, SweptAreAbandoned
<1>7. QED
  BY <1>2, <1>4, <1>6 DEF CalmInv

LEMMA CalmNext ==
    Calm /\ TypeInv /\ CalmInv /\ [Next]_vars => CalmInv' /\ SettledStay
<1> SUFFICES ASSUME Calm, TypeInv, CalmInv, [Next]_vars
             PROVE  CalmInv' /\ SettledStay
  OBVIOUS
<1>1. CASE \E j \in Job : Submit(j) \/ Elapse(j) \/ Age(j)
  BY <1>1, CalmArrival
<1>2. CASE \E s \in Slot : WorkerStep(s)
  BY <1>2, CalmWorkerStep
<1>3. CASE \E d \in Drainer : DrainStep(d) \/ Notified(d) \/ TimerFires(d) \/ RunDue(d)
  BY <1>3, CalmDrainStep
<1>4. CASE (\E j \in Job : RetryJob(j) \/ CancelTree(j)) \/ RequestPut
  <2>1. "retry" \notin Faults /\ "cancel" \notin Faults /\ requests = << >>
    BY DEF Calm, CalmInv, NoRequests
  <2>2. QED
    BY <1>4, <2>1 DEF RetryJob, CancelTree, RequestPut
<1>5. CASE Restart
  BY <1>5, CalmRestart
<1>6. CASE UNCHANGED vars
  <2>1. UNCHANGED << store, requests >> /\ BusyKept /\ drain' = drain
    BY <1>6 DEF vars, admin, BusyKept, Busy
  <2>2. "loop" \in Drainer
    BY EnvironmentAssumption
  <2>3. QED
    BY <2>1, <2>2, StoreUntouched, DrainUntouched DEF CalmInv
<1>7. QED
  BY <1>1, <1>2, <1>3, <1>4, <1>5, <1>6 DEF Next

\* In the calm regime the invariant is inductive (JobEngineInv).
THEOREM CalmInvariant == Calm => (Spec => [](TypeInv /\ CalmInv))
<1> SUFFICES ASSUME Calm
             PROVE  Spec => [](TypeInv /\ CalmInv)
  OBVIOUS
<1>1. Init => TypeInv /\ CalmInv
  BY InitType, CalmInit
<1>2. TypeInv /\ CalmInv /\ [Next]_vars => TypeInv' /\ CalmInv'
  BY NextType, CalmNext
<1>3. QED
  BY <1>1, <1>2, PTL DEF Spec

\* In the calm regime two workers never execute one job or two jobs of one
\* ordering key, across restarts and lost writes (active_ordering_keys,
\* claim_due_jobs).
THEOREM CalmKeysExclusive == Calm => (Spec => []KeyExclusion)
<1>1. TypeInv /\ CalmInv => KeyExclusion
  <2> SUFFICES ASSUME TypeInv, CalmInv, NEW s \in Busy, NEW t \in Busy, s # t
               PROVE  /\ worker[s].job # worker[t].job
                      /\ \/ KeyOf[worker[s].job] = NoKey
                         \/ KeyOf[worker[s].job] # KeyOf[worker[t].job]
    BY DEF KeyExclusion
  <2> DEFINE i == worker[s].job
             j == worker[t].job
  <2>1. i \in Job /\ j \in Job /\ i # j
    BY DEF CalmInv, BusyRowsRun, OneWorkerEach
  <2>2. row[i].state = "running" /\ row[j].state = "running"
    BY DEF CalmInv, BusyRowsRun
  <2>3. KeyOf[i] # NoKey /\ KeyOf[j] # NoKey => KeyOf[i] # KeyOf[j]
    BY <2>1, <2>2 DEF CalmInv, KeysDiffer, HoldsKey
  <2>4. QED
    BY <2>1, <2>3
<1>2. QED
  BY <1>1, CalmInvariant, PTL

\* In the calm regime a settled job is never taken to another state, whichever
\* write was delayed or lost (upsert_job_rows).
THEOREM CalmTerminalIsFinal == Calm => (Spec => TerminalIsFinal)
<1> SUFFICES ASSUME Calm
             PROVE  Spec => TerminalIsFinal
  OBVIOUS
<1>1. TypeInv /\ CalmInv /\ [Next]_vars =>
        [ \A j \in Job : IsTerminal(j) => row'[j].state \in { row[j].state, Gone } ]_vars
  BY CalmNext DEF SettledStay
<1>2. Spec => [](TypeInv /\ CalmInv)
  BY CalmInvariant
<1>3. Spec => [][Next]_vars
  BY DEF Spec
<1>4. QED
  BY <1>1, <1>2, <1>3, PTL DEF TerminalIsFinal

(***************************************************************************)
(* Nothing is forgotten, for any faults, handlers and requests, while the   *)
(* loop is the only drain.                                                  *)
(***************************************************************************)

OnlyLoop == Drainer = { "loop" }

WakeInv == TypeInv /\ PermitsHeld /\ LoopMissesNothing

\* What the places of a drain remember.
LEMMA PlaceFields ==
    ASSUME NEW pc \in DrainPc, NEW did \in BOOLEAN
    PROVE  At(pc, did).pc = pc /\ At(pc, did).did = did /\ At(pc, did).todo = {}
BY DEF At

LEMMA NextParentFields ==
    ASSUME NEW left \in SUBSET Job, NEW did \in BOOLEAN
    PROVE  /\ NextParent(left, did).did = did
           /\ left = {} => NextParent(left, did).pc = "kinds"
           /\ left # {} => NextParent(left, did).pc = "resolving"
           /\ NextParent(left, did).todo = left
BY BlankType DEF NextParent, At

LEMMA NextKindFields ==
    ASSUME NEW d \in Drainer, NEW left \in SUBSET JobKind, NEW did \in BOOLEAN
    PROVE  /\ NextKind(d, left, did).pc \in { "sweep", "look", "idle", "schedule" }
           /\ NextKind(d, left, did).pc = "look" => ~did
           /\ NextKind(d, left, did).pc = "schedule" => NextKind(d, left, did).did = did
BY DEF NextKind, EndOfPass, At

\* Whoever has something in hand after the step will wake the loop.
LEMMA NotQuiet == ASSUME ~Quiet' PROVE LoopMissesNothing'
BY DEF LoopMissesNothing

\* Nothing that the loop has looked at has changed, nor the loop.
LEMMA LoopUntouched ==
    ASSUME TypeInv, LoopMissesNothing, Quiet' => Quiet, drain' = drain, deps' = deps,
           \A j \in Job : row'[j].state = row[j].state
    PROVE  LoopMissesNothing'
<1>1. \A p \in Job : Children(p)' = Children(p)
  BY DEF Children
<1>2. \A p \in Job : OpenChildren(p)' = OpenChildren(p)
  BY <1>1 DEF OpenChildren, Children
<1>3. \A p \in Job : Resolvable(p)' <=> Resolvable(p)
  BY <1>1, <1>2 DEF Resolvable
<1>4. QED
  BY <1>3 DEF LoopMissesNothing, NoneResolvable

\* A worker that has stepped has its permit still, or has woken the loop.
LEMMA WorkerStepWakes ==
    ASSUME TypeInv, NEW s \in Slot, WorkerStep(s)
    PROVE  ~Quiet'
<1> DEFINE w == worker[s]
<1>1. \A pc \in { "run", "put", "children", "done" } : pc \notin { "free", "held" }
  OBVIOUS
<1>2. worker \in [Slot -> Worker]
  BY DEF TypeInv, TypeOK
<1>3. CASE Decide(s)
  <2>1. worker'[s].pc \in { "put", "children" }
    BY <1>2, <1>3 DEF Decide
  <2>2. QED
    BY <2>1 DEF Quiet
<1>4. CASE Put(s)
  <2>1. worker'[s].pc = "done"
    BY <1>2, <1>4, IdleType DEF Put
  <2>2. QED
    BY <2>1 DEF Quiet
<1>5. CASE PutChild(s)
  <2>1. worker'[s] = IF Len(w.rest) = 1 THEN Idle("done") ELSE [ w EXCEPT !.rest = Tail(w.rest) ]
    BY <1>2, <1>5 DEF PutChild
  <2>2. [ w EXCEPT !.rest = Tail(w.rest) ].pc = "children"
    BY <1>2, <1>5 DEF PutChild, Worker
  <2>3. worker'[s].pc \in { "done", "children" }
    BY <2>1, <2>2, IdleType
  <2>4. QED
    BY <2>3 DEF Quiet
<1>6. CASE PutInlineChild(s)
  BY <1>6 DEF PutInlineChild, Quiet
<1>7. CASE CollectGarbage(s)
  BY <1>7 DEF CollectGarbage, Quiet
<1>8. CASE LoseWrite(s)
  <2>1. worker'[s].pc = "done"
    BY <1>2, <1>8, IdleType DEF LoseWrite
  <2>2. QED
    BY <2>1 DEF Quiet
<1>9. CASE Release(s)
  BY <1>9 DEF Release, Quiet
<1>10. QED
  BY <1>3, <1>4, <1>5, <1>6, <1>7, <1>8, <1>9 DEF WorkerStep

\* A step of the loop's own pass.
LEMMA LoopStepMissesNothing ==
    ASSUME OnlyLoop, WakeInv, NEW d \in Drainer,
           DrainStep(d) \/ Notified(d) \/ TimerFires(d) \/ RunDue(d)
    PROVE  LoopMissesNothing'
<1> DEFINE x == drain[d]
<1>1. d = "loop" /\ \A y : DrainTo(d, y) => drain'["loop"] = y
  BY DEF OnlyLoop, DrainTo, WakeInv, TypeInv, TypeOK
<1>2. x \in Drain /\ x.todo \in SUBSET Job /\ x.kinds \in SUBSET JobKind /\ x.did \in BOOLEAN
  BY DEF WakeInv, TypeInv, TypeOK, Drain
<1>3. ASSUME drain'["loop"].pc \in { "sweep", "sweeping", "select", "resolved", "dozing", "stalled",
                                    "idle" }
      PROVE  LoopMissesNothing'
  BY <1>3 DEF LoopMissesNothing
<1>4. ASSUME drain'["loop"].did <=> TRUE,
             drain'["loop"].pc \notin { "asleep", "look" }
      PROVE  LoopMissesNothing'
  BY <1>4 DEF LoopMissesNothing
<1>5. ASSUME UNCHANGED << row, deps >>
      PROVE  \A p \in Job : Resolvable(p)' <=> Resolvable(p)
  BY <1>5 DEF Resolvable, OpenChildren, Children
<1>6. ASSUME UNCHANGED << row, deps >>, NoneResolvable,
             drain'["loop"].pc \in { "kinds", "schedule", "claim", "look" }
      PROVE  LoopMissesNothing'
  <2>1. NoneResolvable'
    BY <1>5, <1>6 DEF NoneResolvable
  <2>2. drain'["loop"].pc \notin { "asleep", "resolving" }
    BY <1>6
  <2>3. QED
    BY <2>1, <2>2 DEF LoopMissesNothing
<1>7. ASSUME UNCHANGED << row, deps >>, drain'["loop"].pc # "asleep",
             Quiet' /\ (drain'["loop"].pc = "look" \/ ~drain'["loop"].did) => NoneResolvable,
             drain'["loop"].pc # "resolving"
      PROVE  LoopMissesNothing'
  BY <1>5, <1>7 DEF LoopMissesNothing, NoneResolvable
<1>8. CASE SweepRead(d)
  <2> DEFINE stale == { j \in aged : row[j].state = "running" }
             snap == [ j \in Job |-> IF j \in stale THEN row[j] ELSE Blank ]
  <2>1. At("sweeping", TRUE).pc = "sweeping" /\ At("select", FALSE).pc = "select"
    BY PlaceFields DEF DrainPc
  <2>2. [ At("sweeping", TRUE) EXCEPT !.todo = stale, !.snap = snap ].pc = "sweeping"
    <3> HIDE DEF stale, snap
    <3> QED BY DEF At
  <2>3. QED
    BY <1>1, <1>3, <1>8, <2>1, <2>2 DEF SweepRead
<1>9. ASSUME NEW j \in Job, SweepPut(d, j)
      PROVE  LoopMissesNothing'
  <2> DEFINE left == x.todo \ { j }
             y == [ x EXCEPT !.todo = left, !.snap[j] = Blank ]
  <2>1. y.pc = "sweeping"
    BY <1>2, <1>9 DEF SweepPut, Drain
  <2>2. At("select", TRUE).pc = "select"
    BY PlaceFields DEF DrainPc
  <2>3. QED
    BY <1>1, <1>3, <1>9, <2>1, <2>2 DEF SweepPut
<1>10. CASE ResolveSelect(d)
  <2> DEFINE todo == { p \in Job : Resolvable(p) }
  <2>1. drain'["loop"] = NextParent(todo, x.did) /\ UNCHANGED << row, deps >>
    BY <1>1, <1>10 DEF ResolveSelect, store
  <2>2. todo \in SUBSET Job
    OBVIOUS
  <2>3. CASE todo = {}
    <3>1. NoneResolvable
      BY <2>3 DEF NoneResolvable
    <3> HIDE DEF todo
    <3>2. QED
      BY <1>2, <1>6, <2>1, <2>2, <2>3, <3>1, NextParentFields
  <2>4. CASE todo # {}
    <3>1. \A p \in Job : Resolvable(p) => p \in todo
      OBVIOUS
    <3> HIDE DEF todo
    <3>2. drain'["loop"].pc = "resolving" /\ drain'["loop"].todo = todo
      BY <1>2, <2>1, <2>2, <2>4, NextParentFields
    <3>3. QED
      BY <1>5, <2>1, <3>1, <3>2 DEF LoopMissesNothing
  <2>5. QED
    BY <2>3, <2>4
<1>11. ASSUME NEW p \in Job, ResolveRead(d, p)
       PROVE  LoopMissesNothing'
  <2> DEFINE left == x.todo \ { p }
             snap == [ NoRows EXCEPT ![p] = Resolved(p) ]
             y == [ At("resolved", TRUE) EXCEPT !.todo = left, !.cur = p, !.snap = snap ]
  <2>1. /\ drain'["loop"] = IF Children(p) = {} \/ OpenChildren(p) # {}
                            THEN NextParent(left, x.did) ELSE y
        /\ UNCHANGED << row, deps, worker, notified, requests >> /\ x.pc = "resolving"
    BY <1>1, <1>11 DEF ResolveRead, store, admin
  <2>2. y.pc = "resolved"
    <3> HIDE DEF left, snap
    <3> QED BY DEF At
  <2>3. CASE Children(p) = {} \/ OpenChildren(p) # {}
    <3>1. ~Resolvable(p)
      BY <2>3 DEF Resolvable
    <3>2. drain'["loop"] = NextParent(left, x.did) /\ left \in SUBSET Job
      BY <1>2, <2>1, <2>3
    <3>3. Quiet' => Quiet
      BY <2>1 DEF Quiet
    <3>4. Quiet' /\ ~x.did => \A q \in Job : Resolvable(q) => q \in left
      BY <1>1, <2>1, <3>1, <3>3 DEF WakeInv, LoopMissesNothing
    <3> HIDE DEF left
    <3>5. drain'["loop"].did = x.did /\ drain'["loop"].todo = left
      BY <1>2, <3>2, NextParentFields
    <3>6. CASE left = {}
      <4>1. Quiet' /\ ~drain'["loop"].did => NoneResolvable
        BY <3>4, <3>5, <3>6 DEF NoneResolvable
      <4>2. drain'["loop"].pc = "kinds"
        BY <1>2, <3>2, <3>6, NextParentFields
      <4>3. QED
        BY <1>7, <2>1, <4>1, <4>2
    <3>7. CASE left # {}
      <4>1. drain'["loop"].pc = "resolving"
        BY <1>2, <3>2, <3>7, NextParentFields
      <4>2. QED
        BY <1>5, <2>1, <3>4, <3>5, <4>1 DEF LoopMissesNothing
    <3>8. QED
      BY <3>6, <3>7
  <2>4. CASE ~(Children(p) = {} \/ OpenChildren(p) # {})
    <3> HIDE DEF y
    <3>1. QED
      BY <1>3, <2>1, <2>2, <2>4
  <2>5. QED
    BY <2>3, <2>4
<1>12. CASE ResolvePut(d)
  <2>1. drain'["loop"] = NextParent(x.todo, TRUE)
    BY <1>1, <1>12 DEF ResolvePut
  <2>2. (drain'["loop"].did <=> TRUE) /\ drain'["loop"].pc \in { "kinds", "resolving" }
    <3> DEFINE did == TRUE
    <3>1. did \in BOOLEAN /\ drain'["loop"] = NextParent(x.todo, did)
      BY <2>1, Zenon
    <3> HIDE DEF did
    <3>2. drain'["loop"].did = did /\ drain'["loop"].pc \in { "kinds", "resolving" }
      BY <1>2, <3>1, NextParentFields
    <3>3. QED
      BY <3>2 DEF did
  <2>3. QED
    BY <1>4, <2>2
<1>13. CASE FindDueKinds(d)
  <2> DEFINE left == { KindOf[j] : j \in { i \in Job : IsDue(i) } }
  <2>1. left \in SUBSET JobKind
    BY JobAssumption
  <2>2. /\ drain'["loop"] = NextKind(d, left, x.did) /\ x.pc = "kinds"
        /\ UNCHANGED << row, deps, worker, notified, requests >>
    BY <1>1, <1>13 DEF FindDueKinds, store, admin
  <2> HIDE DEF left
  <2>3. Quiet' /\ ~x.did => NoneResolvable
    BY <1>1, <2>2 DEF WakeInv, LoopMissesNothing, Quiet
  <2>4. /\ drain'["loop"].pc \in { "sweep", "look", "idle", "schedule" }
        /\ drain'["loop"].pc = "look" => ~x.did
        /\ drain'["loop"].pc = "schedule" => drain'["loop"].did = x.did
    BY <1>2, <2>1, <2>2, NextKindFields
  <2>5. QED
    BY <1>3, <1>7, <2>2, <2>3, <2>4
<1>14. ASSUME NEW k \in JobKind, TakePermits(d, k)
       PROVE  LoopMissesNothing'
  <2>1. /\ x.pc = "schedule" /\ UNCHANGED << row, deps, notified, requests >>
    BY <1>14 DEF TakePermits, store, admin
  <2>2. PICK held \in SUBSET { s \in Slot : LaneOf[s] = PolicyLane(k) /\ worker[s].pc = "free" } :
          /\ worker' = [ s \in Slot |-> IF s \in held THEN Idle("held") ELSE worker[s] ]
          /\ DrainTo(d, [ At("claim", x.did) EXCEPT !.kinds = x.kinds \ { k }, !.kind = k,
                                                    !.held = held, !.keys = ActiveKeys ])
    BY <1>14 DEF TakePermits
  <2> DEFINE kinds == x.kinds \ { k }
             keys == ActiveKeys
             y == [ At("claim", x.did) EXCEPT !.kinds = kinds, !.kind = k,
                                              !.held = held, !.keys = keys ]
  <2>3. y.pc = "claim" /\ y.did = x.did
    <3> HIDE DEF kinds, keys
    <3> QED BY DEF At
  <2>4. drain'["loop"] = y
    BY <1>1, <2>2
  <2> HIDE DEF y
  <2>5. Quiet' => Quiet
    <3>1. \A s \in Slot : worker'[s].pc \in { "free", "held" } => worker[s].pc \in { "free", "held" }
      <4>1. \A s \in Slot : s \in held => worker[s].pc = "free"
        BY <2>2
      <4>2. \A s \in Slot : s \notin held => worker'[s] = worker[s]
        BY <2>2
      <4>3. QED
        BY <4>1, <4>2
    <3>2. QED
      BY <2>1, <3>1 DEF Quiet
  <2>6. Quiet' /\ ~x.did => NoneResolvable
    BY <1>1, <2>1, <2>5 DEF WakeInv, LoopMissesNothing
  <2>7. QED
    BY <1>7, <2>1, <2>3, <2>4, <2>6
<1>15. CASE Claim(d)
  <2>1. x.pc = "claim" /\ UNCHANGED << deps, notified, requests >>
    BY <1>15 DEF Claim, admin
  <2>2. PICK batch \in SUBSET Claimable(d) :
          /\ Upsert([ j \in batch |-> Running(j) ])
          /\ \E seat \in [ batch -> x.held ] :
               worker' = [ s \in Slot |->
                   IF s \notin x.held THEN worker[s]
                   ELSE IF \E j \in batch : seat[j] = s
                   THEN Started(CHOOSE j \in batch : seat[j] = s)
                   ELSE Idle("free") ]
          /\ DrainTo(d, NextKind(d, x.kinds, x.did \/ batch # {}))
    BY <1>15 DEF Claim
  <2>3. drain'["loop"] = NextKind(d, x.kinds, x.did \/ batch # {})
    BY <1>1, <2>2
  <2>4. (x.did \/ batch # {}) \in BOOLEAN
    OBVIOUS
  <2>5. /\ drain'["loop"].pc \in { "sweep", "look", "idle", "schedule" }
        /\ drain'["loop"].pc = "look" => ~x.did /\ batch = {}
        /\ drain'["loop"].pc = "schedule" => (drain'["loop"].did <=> x.did \/ batch # {})
    <3> DEFINE did == x.did \/ batch # {}
    <3>1. did \in BOOLEAN
      BY <2>4
    <3>2. drain'["loop"] = NextKind(d, x.kinds, did)
      BY <2>3
    <3> HIDE DEF did
    <3>3. /\ drain'["loop"].pc \in { "sweep", "look", "idle", "schedule" }
          /\ drain'["loop"].pc = "look" => ~did
          /\ drain'["loop"].pc = "schedule" => drain'["loop"].did = did
      BY <1>2, <3>1, <3>2, NextKindFields
    <3>4. QED
      BY <3>3 DEF did
  <2>6. CASE batch # {}
    <3>1. CASE drain'["loop"].pc = "schedule"
      BY <1>4, <2>5, <2>6, <3>1
    <3>2. CASE drain'["loop"].pc # "schedule"
      BY <1>3, <2>5, <2>6, <3>2
    <3>3. QED
      BY <3>1, <3>2
  <2>7. CASE batch = {}
    <3>1. row' = row
      <4>1. row' = [ j \in Job |-> IF j \in DOMAIN [ i \in batch |-> Running(i) ]
                                   THEN [ i \in batch |-> Running(i) ][j] ELSE row[j] ]
        BY <2>2 DEF Upsert
      <4>2. row \in [Job -> Row]
        BY DEF WakeInv, TypeInv, TypeOK
      <4>3. row' = [ j \in Job |-> row[j] ]
        BY <2>7, <4>1
      <4>4. QED
        BY <4>2, <4>3
    <3>2. \A s \in Slot : s \notin x.held => worker'[s] = worker[s]
      BY <2>2
    <3>3. \A s \in x.held : worker[s].pc = "held"
      BY <1>1, <2>1 DEF WakeInv, PermitsHeld
    <3>4. Quiet' => Quiet
      <4>1. \A s \in Slot : worker'[s].pc \in { "free", "held" } => worker[s].pc \in { "free", "held" }
        BY <3>2, <3>3
      <4>2. QED
        BY <2>1, <4>1 DEF Quiet
    <3>5. /\ drain'["loop"].pc = "look" => ~x.did
          /\ drain'["loop"].pc = "schedule" => (drain'["loop"].did <=> x.did)
      BY <2>5, <2>7
    <3>6. Quiet' /\ ~x.did => NoneResolvable
      BY <1>1, <2>1, <3>4 DEF WakeInv, LoopMissesNothing
    <3>7. QED
      BY <1>3, <1>7, <2>1, <2>5, <3>1, <3>5, <3>6
  <2>8. QED
    BY <2>6, <2>7
<1>16. CASE LookAhead(d)
  <2>1. /\ x.pc = "look" /\ UNCHANGED << row, deps, worker, notified, requests >>
        /\ drain'["loop"] = At(IF Tick \/ \E j \in Job : row[j].state = "queued"
                              THEN "dozing" ELSE "asleep", FALSE)
    BY <1>1, <1>16 DEF LookAhead, store, admin
  <2>2. Quiet' => Quiet
    BY <2>1 DEF Quiet
  <2>3. CASE Tick \/ \E j \in Job : row[j].state = "queued"
    BY <1>3, <2>1, <2>3, PlaceFields DEF DrainPc
  <2>4. CASE ~(Tick \/ \E j \in Job : row[j].state = "queued")
    <3>1. drain'["loop"].pc = "asleep"
      BY <2>1, <2>4, PlaceFields DEF DrainPc
    <3>2. Quiet' => NoneResolvable'
      BY <1>1, <1>5, <2>1, <2>2 DEF WakeInv, LoopMissesNothing, NoneResolvable
    <3>3. QED
      BY <2>1, <2>4, <3>1, <3>2 DEF LoopMissesNothing
  <2>5. QED
    BY <2>3, <2>4
<1>17. CASE Notified(d) \/ TimerFires(d) \/ RunDue(d)
  <2>1. At("sweep", FALSE).pc = "sweep"
    BY PlaceFields DEF DrainPc
  <2>2. QED
    BY <1>1, <1>3, <1>17, <2>1 DEF Notified, TimerFires, RunDue
<1>18. CASE LookupFails(d)
  BY <1>1, <1>3, <1>18, PlaceFields DEF LookupFails, DrainPc
<1>19. QED
  BY <1>8, <1>9, <1>10, <1>11, <1>12, <1>13, <1>14, <1>15, <1>16, <1>17, <1>18 DEF DrainStep

\* The permits that are held stay so until the drain that holds them claims.
LEMMA PermitsStayHeld ==
    ASSUME OnlyLoop, WakeInv, [Next]_vars
    PROVE  PermitsHeld'
<1>1. worker \in [Slot -> Worker] /\ drain \in [Drainer -> Drain] /\ "loop" \in Drainer
  BY EnvironmentAssumption DEF WakeInv, TypeInv, TypeOK
<1>2. ASSUME drain' = drain,
             \A s \in Slot : worker[s].pc = "held" => worker'[s].pc = "held"
      PROVE  PermitsHeld'
  <2>1. drain["loop"].held \subseteq Slot
    BY <1>1 DEF Drain
  <2>2. QED
    BY <1>2, <2>1 DEF WakeInv, PermitsHeld
<1>3. CASE \E j \in Job : Submit(j) \/ Elapse(j) \/ Age(j)
  BY <1>2, <1>3 DEF Submit, Elapse, Age
<1>4. ASSUME NEW s \in Slot, WorkerStep(s)
      PROVE  PermitsHeld'
  <2>1. /\ drain' = drain
        /\ \A t \in Slot \ { s } : worker'[t] = worker[t]
        /\ worker[s].pc # "held"
    BY <1>1, <1>4 DEF WorkerStep, Decide, Put, PutChild, PutInlineChild, CollectGarbage,
                      LoseWrite, Release
  <2>2. QED
    BY <1>2, <2>1
<1>5. ASSUME NEW d \in Drainer,
             DrainStep(d) \/ Notified(d) \/ TimerFires(d) \/ RunDue(d)
      PROVE  PermitsHeld'
  <2>1. d = "loop" /\ \A y : DrainTo(d, y) => drain'["loop"] = y
    BY <1>1 DEF OnlyLoop, DrainTo
  <2>2. drain[d].todo \in SUBSET Job /\ drain[d].kinds \in SUBSET JobKind /\ drain[d].did \in BOOLEAN
    BY <1>1 DEF Drain
  <2>3. ASSUME drain'["loop"].pc # "claim"
        PROVE  PermitsHeld'
    BY <2>3 DEF PermitsHeld
  <2>4. \A pc \in DrainPc, did \in BOOLEAN : At(pc, did).pc = pc
    BY PlaceFields
  <2>5. CASE SweepRead(d)
    <3> DEFINE stale == { j \in aged : row[j].state = "running" }
               snap == [ j \in Job |-> IF j \in stale THEN row[j] ELSE Blank ]
    <3>1. [ At("sweeping", TRUE) EXCEPT !.todo = stale, !.snap = snap ].pc = "sweeping"
      <4> HIDE DEF stale, snap
      <4> QED BY DEF At
    <3>2. QED
      BY <2>1, <2>3, <2>4, <2>5, <3>1 DEF SweepRead, DrainPc
  <2>6. ASSUME NEW j \in Job, SweepPut(d, j)
        PROVE  PermitsHeld'
    <3> DEFINE y == [ drain[d] EXCEPT !.todo = drain[d].todo \ { j }, !.snap[j] = Blank ]
    <3>1. y.pc = "sweeping"
      BY <1>1, <2>6 DEF SweepPut, Drain
    <3>2. QED
      BY <2>1, <2>3, <2>4, <2>6, <3>1 DEF SweepPut, DrainPc
  <2>7. CASE ResolveSelect(d)
    <3>1. drain'["loop"].pc \in { "kinds", "resolving" }
      BY <2>1, <2>2, <2>7, DrainType DEF ResolveSelect
    <3>2. QED
      BY <2>3, <3>1
  <2>8. ASSUME NEW p \in Job, ResolveRead(d, p)
        PROVE  PermitsHeld'
    <3> DEFINE left == drain[d].todo \ { p }
               snap == [ NoRows EXCEPT ![p] = Resolved(p) ]
               y == [ At("resolved", TRUE) EXCEPT !.todo = left, !.cur = p, !.snap = snap ]
    <3>1. drain'["loop"] \in { NextParent(left, drain[d].did), y }
      BY <2>1, <2>8 DEF ResolveRead
    <3>2. y.pc = "resolved"
      <4> HIDE DEF left, snap
      <4> QED BY DEF At
    <3>3. NextParent(left, drain[d].did).pc \in { "kinds", "resolving" }
      BY <2>2, DrainType
    <3> HIDE DEF y, left
    <3>4. QED
      BY <2>3, <3>1, <3>2, <3>3
  <2>9. CASE ResolvePut(d)
    <3>1. drain'["loop"].pc \in { "kinds", "resolving" }
      BY <2>1, <2>2, <2>9, DrainType DEF ResolvePut
    <3>2. QED
      BY <2>3, <3>1
  <2>10. CASE FindDueKinds(d)
    <3>1. { KindOf[j] : j \in { i \in Job : IsDue(i) } } \in SUBSET JobKind
      BY JobAssumption
    <3>2. QED
      BY <2>1, <2>2, <2>3, <2>10, <3>1, DrainType DEF FindDueKinds
  <2>11. ASSUME NEW k \in JobKind, TakePermits(d, k)
         PROVE  PermitsHeld'
    <3>1. PICK held \in SUBSET { s \in Slot : LaneOf[s] = PolicyLane(k) /\ worker[s].pc = "free" } :
            /\ worker' = [ s \in Slot |-> IF s \in held THEN Idle("held") ELSE worker[s] ]
            /\ DrainTo(d, [ At("claim", drain[d].did) EXCEPT
                              !.kinds = drain[d].kinds \ { k }, !.kind = k,
                              !.held = held, !.keys = ActiveKeys ])
      BY <2>11 DEF TakePermits
    <3> DEFINE kinds == drain[d].kinds \ { k }
               keys == ActiveKeys
               y == [ At("claim", drain[d].did) EXCEPT !.kinds = kinds, !.kind = k,
                                                       !.held = held, !.keys = keys ]
    <3>2. y.held = held
      <4> HIDE DEF kinds, keys
      <4> QED BY DEF At
    <3>3. drain'["loop"] = y
      BY <2>1, <3>1
    <3> HIDE DEF y
    <3>4. \A s \in held : worker'[s].pc = "held"
      BY <3>1, IdleType
    <3>5. QED
      BY <3>2, <3>3, <3>4 DEF PermitsHeld
  <2>12. CASE Claim(d)
    <3>1. \E did \in BOOLEAN : DrainTo(d, NextKind(d, drain[d].kinds, did))
      <4>1. PICK batch \in SUBSET Claimable(d) :
              DrainTo(d, NextKind(d, drain[d].kinds, drain[d].did \/ batch # {}))
        BY <2>12 DEF Claim
      <4>2. (drain[d].did \/ batch # {}) \in BOOLEAN
        OBVIOUS
      <4>3. QED
        BY <4>1, <4>2
    <3>2. QED
      BY <2>1, <2>2, <2>3, <3>1, DrainType
  <2>13. CASE LookAhead(d) \/ LookupFails(d)
    BY <2>1, <2>3, <2>4, <2>13 DEF LookAhead, LookupFails, DrainPc
  <2>14. CASE Notified(d) \/ TimerFires(d) \/ RunDue(d)
    BY <2>1, <2>3, <2>4, <2>14 DEF Notified, TimerFires, RunDue, DrainPc
  <2>15. QED
    BY <1>5, <2>5, <2>6, <2>7, <2>8, <2>9, <2>10, <2>11, <2>12, <2>13, <2>14 DEF DrainStep
<1>6. CASE (\E j \in Job : RetryJob(j) \/ CancelTree(j)) \/ RequestPut
  BY <1>2, <1>6 DEF RetryJob, CancelTree, Owe, RequestPut
<1>7. CASE Restart
  <2>1. drain'["loop"] = At("sweep", FALSE)
    BY <1>1, <1>7 DEF Restart
  <2>2. drain'["loop"].pc = "sweep"
    BY <2>1, PlaceFields DEF DrainPc
  <2>3. QED
    BY <2>2 DEF PermitsHeld
<1>8. CASE UNCHANGED vars
  BY <1>2, <1>8 DEF vars
<1>9. QED
  BY <1>3, <1>4, <1>5, <1>6, <1>7, <1>8 DEF Next

LEMMA NextMissesNothing == OnlyLoop /\ WakeInv /\ [Next]_vars => WakeInv'
<1> SUFFICES ASSUME OnlyLoop, WakeInv, [Next]_vars
             PROVE  LoopMissesNothing'
  BY NextType, PermitsStayHeld DEF WakeInv
<1>1. TypeInv /\ LoopMissesNothing
  BY DEF WakeInv
<1>2. CASE \E j \in Job : Submit(j) \/ Elapse(j) \/ Age(j)
  <2>1. PICK j \in Job : Submit(j) \/ Elapse(j) \/ Age(j)
    BY <1>2
  <2>2. CASE Submit(j)
    <3>1. ~Quiet'
      BY <2>2 DEF Submit, Quiet
    <3>2. QED
      BY <3>1, NotQuiet
  <2>3. CASE Elapse(j) \/ Age(j)
    <3>1. UNCHANGED << deps, worker, drain, notified, requests >>
      BY <2>3 DEF Elapse, Age, admin
    <3>2. \A i \in Job : row'[i].state = row[i].state
      <4>1. CASE Elapse(j)
        BY <1>1, <4>1 DEF Elapse, TypeInv, TypeOK, Row
      <4>2. CASE Age(j)
        BY <4>2 DEF Age
      <4>3. QED
        BY <2>3, <4>1, <4>2
    <3>3. Quiet' => Quiet
      BY <3>1 DEF Quiet
    <3>4. QED
      BY <1>1, <3>1, <3>2, <3>3, LoopUntouched
  <2>4. QED
    BY <2>1, <2>2, <2>3
<1>3. CASE \E s \in Slot : WorkerStep(s)
  BY <1>1, <1>3, WorkerStepWakes, NotQuiet
<1>4. CASE \E d \in Drainer : DrainStep(d) \/ Notified(d) \/ TimerFires(d) \/ RunDue(d)
  BY <1>4, LoopStepMissesNothing
<1>5. CASE \E j \in Job : RetryJob(j) \/ CancelTree(j)
  <2>1. requests' # << >>
    BY <1>5 DEF RetryJob, CancelTree, Owe
  <2>2. QED
    BY <2>1, NotQuiet DEF Quiet
<1>6. CASE RequestPut
  <2> DEFINE Write == [ job : Job, row : Row ]
  <2>1. requests \in Seq(Write) /\ requests # << >>
    BY <1>1, <1>6 DEF RequestPut, TypeInv, TypeOK
  <2>2. requests' = Tail(requests) /\ notified' = (notified \/ Len(requests) = 1)
    BY <1>6 DEF RequestPut
  <2> HIDE DEF Write
  <2>3. Len(requests) # 1 => Tail(requests) # << >>
    <3>1. Len(Tail(requests)) = Len(requests) - 1 /\ Len(requests) \in Nat
      BY <2>1, HeadTailProperties, LenProperties
    <3>2. Len(<< >>) = 0
      OBVIOUS
    <3>3. Tail(requests) = << >> => Len(Tail(requests)) = 0
      BY <3>2
    <3>4. QED
      BY <3>1, <3>3
  <2>4. ~Quiet'
    BY <2>2, <2>3 DEF Quiet
  <2>5. QED
    BY <2>4, NotQuiet
<1>7. CASE Restart
  <2>1. drain'["loop"] = At("sweep", FALSE)
    BY <1>7, EnvironmentAssumption DEF Restart
  <2>2. drain'["loop"].pc = "sweep"
    BY <2>1, PlaceFields DEF DrainPc
  <2>3. QED
    BY <2>2 DEF LoopMissesNothing
<1>8. CASE UNCHANGED vars
  <2>1. UNCHANGED << row, deps, worker, drain, notified, requests >>
    BY <1>8 DEF vars, store, admin
  <2>2. Quiet' => Quiet
    BY <2>1 DEF Quiet
  <2>3. QED
    BY <1>1, <2>1, <2>2, LoopUntouched
<1>9. QED
  BY <1>2, <1>3, <1>4, <1>5, <1>6, <1>7, <1>8 DEF Next

\* While the loop is the only drain it never sleeps without a timer over work
\* that nobody will wake it for, with any handlers, faults, requests and
\* restarts (spawn_dispatch_loop, drain_ready_jobs).
THEOREM NoWakeupIsLost == OnlyLoop => (Spec => []NoLostWakeup)
<1> SUFFICES ASSUME OnlyLoop
             PROVE  Spec => []NoLostWakeup
  OBVIOUS
<1>1. Init => WakeInv
  <2> SUFFICES ASSUME Init
               PROVE  WakeInv
    OBVIOUS
  <2>1. drain["loop"] = At("sweep", FALSE)
    BY EnvironmentAssumption DEF Init
  <2>2. drain["loop"].pc = "sweep"
    BY <2>1, PlaceFields DEF DrainPc
  <2>3. QED
    BY <2>2, InitType DEF WakeInv, PermitsHeld, LoopMissesNothing
<1>2. WakeInv /\ [Next]_vars => WakeInv'
  BY NextMissesNothing
<1>3. WakeInv => NoLostWakeup
  BY DEF WakeInv, LoopMissesNothing, NoLostWakeup, Quiet, NoneResolvable
<1>4. QED
  BY <1>1, <1>2, <1>3, PTL DEF Spec

(***************************************************************************)
(* What a step of the calm regime may do to the table: nothing, or one of   *)
(* six things.                                                              *)
(***************************************************************************)

SameRow(j) == /\ row'[j].state = row[j].state
              /\ row[j].delay = "none" => row'[j].delay = "none"

Stutters == (\A j \in Job : SameRow(j)) /\ UNCHANGED << created, deps >>

\* Jobs settle, from execution or by what their children say.
Settles(batch) ==
    /\ \A j \in batch :
         /\ row'[j].state \in Terminal
         /\ \/ row[j].state = "running"
            \/ /\ row[j].state = "waiting" /\ OpenChildren(j) = {}
               /\ row'[j].state = "complete" => \A c \in Children(j) : row[c].state = "complete"
    /\ \A j \in Job \ batch : SameRow(j)
    /\ UNCHANGED << created, deps >>

\* A job is queued again, to be retried or to read its children.
Requeues(j) ==
    /\ row'[j].state = "queued"
    /\ \/ row[j].state = "running" /\ KindOf[j] \in RetryKinds
       \/ /\ row[j].state = "waiting" /\ OpenChildren(j) = {}
          /\ row'[j].delay = "none" /\ KindOf[j] \in ResumingKinds
    /\ \A i \in Job \ { j } : SameRow(i)
    /\ UNCHANGED << created, deps >>

\* Jobs start, under keys that nobody holds, before those that come after them.
Starts(batch) ==
    /\ \A j \in batch :
         /\ row[j].state = "queued" /\ row'[j].state = "running"
         /\ KeyOf[j] # NoKey =>
              /\ \A i \in Job : HoldsKey(i) => KeyOf[i] # KeyOf[j]
              /\ \A i \in batch \ { j } : KeyOf[i] # KeyOf[j]
              /\ \A i \in Job \ { j } :
                   IsDue(i) /\ KindOf[i] = KindOf[j] /\ KeyOf[i] = KeyOf[j] => ~Precedes(i, j)
    /\ \A j \in Job \ batch : SameRow(j)
    /\ UNCHANGED << created, deps >>

\* A job is inserted, under the parents (one or none) that wait for it.
Enters(parents, c) ==
    /\ c \notin Created
    /\ row'[c].state = "queued" /\ row'[c].delay = "none"
    /\ \A p \in parents : row[p].state = "running" /\ row'[p].state = "waiting"
    /\ \A j \in Job \ (parents \cup { c }) : SameRow(j)
    /\ created' = Append(created, c)
    /\ deps' = deps \cup { << p, c >> : p \in parents }

\* Settled jobs that nobody waits for are collected.
Collects(batch) ==
    /\ \A j \in batch : /\ row[j].state \in Terminal /\ row'[j].state = Gone
                        /\ \A p \in Job : j \in Children(p) => row[p].state \notin Open
    /\ \A j \in Job \ batch : SameRow(j)
    /\ created' = created
    /\ deps' = { e \in deps : e[1] \notin batch /\ e[2] \notin batch }

CalmEffect ==
    \/ Stutters
    \/ \E batch \in SUBSET Job : Settles(batch) \/ Starts(batch) \/ Collects(batch)
    \/ \E j \in Job : Requeues(j)
    \/ \E c \in Job : Enters({}, c) \/ \E p \in Job : Enters({ p }, c)

\* The moves of rows under which the trees stay as they are.
RowMoves ==
    \A j \in Job :
        \/ SameRow(j)
        \/ row[j].state = "running" /\ row'[j].state \in Terminal
        \/ row[j].state = "running" /\ row'[j].state = "queued" /\ KindOf[j] \in RetryKinds
        \/ row[j].state = "queued" /\ row'[j].state = "running"
        \/ /\ row[j].state = "waiting" /\ OpenChildren(j) = {}
           /\ row'[j].state = "queued" /\ row'[j].delay = "none" /\ KindOf[j] \in ResumingKinds
        \/ /\ row[j].state = "waiting" /\ OpenChildren(j) = {}
           /\ row'[j].state \in Terminal
           /\ row'[j].state = "complete" => \A c \in Children(j) : row[c].state = "complete"

\* The open states of the calm regime.
LEMMA OpenStates ==
    /\ Open = { "queued", "running", "waiting", "confirmation_pending", "approved",
                "cancel_requested" }
    /\ Terminal \cap Open = {} /\ Gone \notin Open /\ Gone \notin Terminal
    /\ "complete" \in Terminal
BY DEF Open, JobState, Terminal, Gone

LEMMA MovesAre ==
    ASSUME \/ Stutters
           \/ \E batch \in SUBSET Job : Settles(batch) \/ Starts(batch)
           \/ \E j \in Job : Requeues(j)
    PROVE  RowMoves /\ UNCHANGED << created, deps >>
<1>1. CASE Stutters
  BY <1>1 DEF Stutters, RowMoves
<1>2. ASSUME NEW batch \in SUBSET Job, Settles(batch)
      PROVE  RowMoves /\ UNCHANGED << created, deps >>
  BY <1>2 DEF Settles, RowMoves
<1>3. ASSUME NEW batch \in SUBSET Job, Starts(batch)
      PROVE  RowMoves /\ UNCHANGED << created, deps >>
  BY <1>3 DEF Starts, RowMoves
<1>4. ASSUME NEW j \in Job, Requeues(j)
      PROVE  RowMoves /\ UNCHANGED << created, deps >>
  BY <1>4 DEF Requeues, RowMoves
<1>5. QED
  BY <1>1, <1>2, <1>3, <1>4

\* What is settled stays as it is, and nothing opens again.
LEMMA MovesSettle ==
    ASSUME TypeInv, RowMoves, UNCHANGED << created, deps >>
    PROVE  /\ Created' = Created
           /\ \A j \in Job : Children(j)' = Children(j)
           /\ \A j \in Job : row[j].state \in Terminal \cup { Gone } => row'[j].state = row[j].state
           /\ \A j \in Job : row'[j].state \in Open => row[j].state \in Open
           /\ \A j \in Job : OpenChildren(j)' \subseteq OpenChildren(j)
<1>1. Created' = Created /\ \A j \in Job : Children(j)' = Children(j)
  BY DEF Created, Children
<1>2. \A j \in Job : row[j].state \in Terminal \cup { Gone } => row'[j].state = row[j].state
  BY DEF RowMoves, SameRow, Terminal, Gone
<1>3. \A j \in Job : row'[j].state \in Open => row[j].state \in Open
  BY OpenStates DEF RowMoves, SameRow
<1>4. \A j \in Job : OpenChildren(j)' \subseteq OpenChildren(j)
  BY <1>1, <1>3 DEF OpenChildren, Children
<1>5. QED
  BY <1>1, <1>2, <1>3, <1>4

LEMMA MovesKeepTree ==
    ASSUME TypeInv, CalmInv, TreeInv, RowMoves, UNCHANGED << created, deps >>
    PROVE  TreeRows' /\ (drain' = drain => AnswerStands')
<1> USE DEF TreeInv, TreeRows
<1>1. /\ Created' = Created
      /\ \A j \in Job : Children(j)' = Children(j)
      /\ \A j \in Job : row[j].state \in Terminal \cup { Gone } => row'[j].state = row[j].state
      /\ \A j \in Job : OpenChildren(j)' \subseteq OpenChildren(j)
  BY MovesSettle
<1>2. CreatedOnce' /\ EdgesAreCreated'
  BY <1>1 DEF CreatedOnce, EdgesAreCreated
<1>3. PlainStates'
  BY DEF PlainStates, RowMoves, SameRow, Terminal
<1>4. AtWorkWaitsForNone'
  <2>1. \A p \in Job : row'[p].state \in { "queued", "running" } => OpenChildren(p) = {}
    BY DEF AtWorkWaitsForNone, RowMoves, SameRow, Terminal
  <2>2. QED
    BY <1>1, <2>1 DEF AtWorkWaitsForNone
<1>5. DerivingStartsAlone'
  <2>1. \A p \in Job : row'[p].state \in { "queued", "running" } /\ KindOf[p] \notin ResumingKinds
                         => Children(p) = {}
    BY DEF DerivingStartsAlone, RowMoves, SameRow, Terminal
  <2>2. QED
    BY <1>1, <2>1 DEF DerivingStartsAlone
<1>6. OthersAreDueAtOnce'
  BY DEF OthersAreDueAtOnce, RowMoves, SameRow, Terminal
<1>7. WaitingHasChild'
  <2>1. \A p \in Job : row'[p].state = "waiting" => row[p].state = "waiting"
    BY DEF RowMoves, SameRow, Terminal
  <2>2. QED
    BY <1>1, <2>1 DEF WaitingHasChild
<1>8. CompleteMeansChildrenComplete'
  <2>1. ASSUME NEW p \in Job, row'[p].state = "complete", KindOf[p] \notin ResumingKinds
        PROVE  \A c \in Children(p) : row[c].state = "complete"
    BY <2>1 DEF CompleteMeansChildrenComplete, DerivingStartsAlone, RowMoves, SameRow
  <2>2. \A p \in Job : Children(p) \subseteq Job
    BY DEF Children
  <2>3. QED
    BY <1>1, <2>1, <2>2, OpenStates DEF CompleteMeansChildrenComplete
<1>9. ASSUME drain' = drain
      PROVE  AnswerStands'
  <2> DEFINE p == drain["loop"].cur
  <2>1. drain["loop"].pc = "resolved" => p \in Job
    BY EnvironmentAssumption DEF TypeInv, ResolvedHasJob
  <2>2. Children(p) \subseteq Job
    BY DEF Children
  <2>3. QED
    BY <1>1, <1>9, <2>1, <2>2, OpenStates DEF AnswerStands
<1>10. QED
  BY <1>2, <1>3, <1>4, <1>5, <1>6, <1>7, <1>8, <1>9

\* What an insertion does to the edges: only the parents it names gain a child.
LEMMA EntersEdges ==
    ASSUME TypeInv, CalmInv, TreeInv, NEW parents \in SUBSET Job, NEW c \in Job,
           Enters(parents, c)
    PROVE  /\ Created' = Created \cup { c }
           /\ row[c].state = Gone /\ Children(c) = {} /\ c \notin parents
           /\ Children(c)' = {}
           /\ \A j \in Job : c \notin Children(j)
           /\ \A j \in Job \ parents : Children(j)' = Children(j)
           /\ \A j \in parents : Children(j)' = Children(j) \cup { c }
           /\ \A j \in Job \ (parents \cup { c }) : OpenChildren(j)' \subseteq OpenChildren(j)
<1>1. Created' = Created \cup { c } /\ c \notin Created
  BY AppendCreated DEF Enters
<1>2. row[c].state = Gone /\ c \notin parents
  BY <1>1 DEF CalmInv, RowsAreCreated, Enters, Gone
<1>3. Children(c) = {} /\ \A j \in Job : c \notin Children(j)
  BY <1>1 DEF TreeInv, TreeRows, EdgesAreCreated, Children
<1>4. deps' = deps \cup { << p, c >> : p \in parents }
  BY DEF Enters
<1>5. \A j \in Job \ parents : Children(j)' = Children(j)
  BY <1>4 DEF Children
<1>6. \A j \in parents : Children(j)' = Children(j) \cup { c }
  BY <1>4 DEF Children
<1>7. ASSUME NEW j \in Job \ (parents \cup { c })
      PROVE  OpenChildren(j)' \subseteq OpenChildren(j)
  <2>1. \A k \in Children(j) : k \in Job /\ k # c
    BY <1>3 DEF Children
  <2>2. ASSUME NEW k \in Children(j), row'[k].state \in Open
        PROVE  row[k].state \in Open
    BY <2>1, <2>2, OpenStates DEF Enters, SameRow
  <2>3. QED
    BY <1>5, <2>2 DEF OpenChildren
<1>8. QED
  BY <1>1, <1>2, <1>3, <1>5, <1>6, <1>7

LEMMA EntersKeepTree ==
    ASSUME TypeInv, CalmInv, TreeInv, NEW parents \in SUBSET Job, NEW c \in Job,
           Enters(parents, c)
    PROVE  TreeRows' /\ (drain' = drain => AnswerStands')
<1> USE DEF TreeInv, TreeRows
<1>1. /\ Created' = Created \cup { c } /\ c \notin Created /\ row[c].state = Gone
      /\ Children(c)' = {} /\ c \notin parents
      /\ \A j \in Job : c \notin Children(j) /\ Children(j) \subseteq Job
      /\ \A j \in Job \ parents : Children(j)' = Children(j)
      /\ \A j \in parents : Children(j)' = Children(j) \cup { c }
      /\ \A j \in Job \ (parents \cup { c }) : OpenChildren(j)' \subseteq OpenChildren(j)
  BY EntersEdges DEF Children, Enters
<1>2. /\ row'[c].state = "queued" /\ row'[c].delay = "none"
      /\ \A p \in parents : row[p].state = "running" /\ row'[p].state = "waiting"
      /\ \A j \in Job \ (parents \cup { c }) : SameRow(j)
  BY DEF Enters
<1>3. OpenChildren(c)' = {}
  BY <1>1 DEF OpenChildren
<1>4. CreatedOnce'
  <2>1. created \in Seq(Job) /\ Len(created) \in Nat /\ DOMAIN created = 1 .. Len(created)
    BY LenProperties DEF TypeInv, TypeOK
  <2>2. /\ DOMAIN created' = 1 .. Len(created) + 1
        /\ created'[Len(created) + 1] = c
        /\ \A n \in 1 .. Len(created) : created'[n] = created[n]
    BY <2>1 DEF Enters
  <2>3. \A n \in 1 .. Len(created) : created[n] # c
    BY <1>1, <2>1 DEF Created
  <2>4. 1 .. Len(created) + 1 = (1 .. Len(created)) \cup { Len(created) + 1 }
    BY <2>1
  <2>5. QED
    BY <2>1, <2>2, <2>3, <2>4 DEF CreatedOnce
<1>5. EdgesAreCreated'
  <2>1. \A p \in parents : p \in Created
    BY <1>2 DEF CalmInv, RowsAreCreated, Gone
  <2>2. deps' = deps \cup { << p, c >> : p \in parents }
    BY DEF Enters
  <2>3. QED
    BY <1>1, <2>1, <2>2 DEF EdgesAreCreated
<1>6. PlainStates' /\ OthersAreDueAtOnce'
  BY <1>2 DEF PlainStates, OthersAreDueAtOnce, SameRow
<1>7. AtWorkWaitsForNone'
  BY <1>1, <1>2, <1>3 DEF AtWorkWaitsForNone, SameRow
<1>8. DerivingStartsAlone'
  BY <1>1, <1>2 DEF DerivingStartsAlone, SameRow
<1>9. WaitingHasChild'
  BY <1>1, <1>2 DEF WaitingHasChild, SameRow
<1>10. CompleteMeansChildrenComplete'
  <2>1. ASSUME NEW p \in Job, row'[p].state = "complete", KindOf[p] \notin ResumingKinds,
               NEW k \in Children(p)'
        PROVE  row'[k].state = "complete"
    <3>1. p \notin parents /\ p # c /\ row[p].state = "complete" /\ k \in Children(p)
      BY <1>1, <1>2, <2>1 DEF SameRow
    <3>2. row[k].state = "complete" /\ k \in Job /\ k # c
      BY <1>1, <2>1, <3>1 DEF CompleteMeansChildrenComplete
    <3>3. k \notin parents
      BY <1>2, <3>2
    <3>4. QED
      BY <1>2, <3>2, <3>3 DEF SameRow
  <2>2. QED
    BY <2>1 DEF CompleteMeansChildrenComplete
<1>11. ASSUME drain' = drain
       PROVE  AnswerStands'
  <2>1. SUFFICES ASSUME drain["loop"].pc = "resolved"
                 PROVE  AnswerStands'
    BY <1>11 DEF AnswerStands
  <2>2. PICK p \in Job : p = drain["loop"].cur /\ row[p].state = "waiting"
    BY <2>1 DEF CalmInv, ParentsStillWait
  <2>3. p \notin parents /\ p # c
    BY <1>1, <1>2, <2>2 DEF Gone
  <2>4. /\ Children(p) # {} /\ OpenChildren(p) = {}
        /\ Children(p)' = Children(p) /\ OpenChildren(p)' = {}
    BY <1>1, <2>1, <2>2, <2>3 DEF AnswerStands
  <2>5. ASSUME NEW k \in Children(p), row[k].state = "complete"
        PROVE  row'[k].state = "complete"
    BY <1>1, <1>2, <2>2, <2>5 DEF SameRow
  <2>6. QED
    BY <1>11, <2>1, <2>2, <2>4, <2>5 DEF AnswerStands
<1>12. QED
  BY <1>4, <1>5, <1>6, <1>7, <1>8, <1>9, <1>10, <1>11

LEMMA CollectsKeepTree ==
    ASSUME TypeInv, CalmInv, TreeInv, NEW batch \in SUBSET Job, Collects(batch)
    PROVE  TreeRows' /\ (drain' = drain => AnswerStands')
<1> USE DEF TreeInv, TreeRows
<1>1. /\ created' = created /\ Created' = Created
      /\ \A j \in batch : row[j].state \in Terminal /\ row'[j].state = Gone /\ row'[j].state = "gone"
      /\ \A j \in Job \ batch : SameRow(j)
      /\ \A j \in batch : \A p \in Job : j \in Children(p) => row[p].state \notin Open
  BY DEF Collects, Created, Gone
<1>2. deps' = { e \in deps : e[1] \notin batch /\ e[2] \notin batch }
  BY DEF Collects
<1>3. \A j \in Job : Children(j)' \subseteq Children(j)
  BY <1>2 DEF Children
<1>4. \A j \in Job \ batch : row[j].state \in Open => Children(j)' = Children(j)
  BY <1>1, <1>2 DEF Children
<1>5. \A j \in Job : Children(j) \subseteq Job
  BY DEF Children
<1>6. \A j \in Job : row'[j].state \in Open => row[j].state \in Open
  BY <1>1, OpenStates DEF SameRow
<1>7. \A j \in Job : OpenChildren(j)' \subseteq OpenChildren(j)
  BY <1>3, <1>5, <1>6 DEF OpenChildren
<1>8. \A j \in Job : row'[j].state # "gone" => j \notin batch /\ row'[j].state = row[j].state
  BY <1>1 DEF SameRow
<1>9. CreatedOnce' /\ EdgesAreCreated' /\ PlainStates' /\ OthersAreDueAtOnce'
  <2>1. CreatedOnce' /\ EdgesAreCreated'
    BY <1>1, <1>2 DEF CreatedOnce, EdgesAreCreated
  <2>2. PlainStates' /\ OthersAreDueAtOnce'
    BY <1>1, <1>8 DEF PlainStates, OthersAreDueAtOnce, SameRow
  <2>3. QED
    BY <2>1, <2>2
<1>10. AtWorkWaitsForNone' /\ DerivingStartsAlone'
  BY <1>3, <1>7, <1>8 DEF AtWorkWaitsForNone, DerivingStartsAlone
<1>11. WaitingHasChild'
  BY <1>4, <1>8, OpenStates DEF WaitingHasChild
<1>12. CompleteMeansChildrenComplete'
  <2>1. ASSUME NEW p \in Job, row'[p].state = "complete", KindOf[p] \notin ResumingKinds,
               NEW k \in Children(p)'
        PROVE  row'[k].state = "complete"
    <3>1. row[p].state = "complete" /\ k \in Children(p) /\ k \in Job /\ k \notin batch
      BY <1>2, <1>3, <1>5, <1>8, <2>1 DEF Children
    <3>2. row[k].state = "complete"
      BY <2>1, <3>1 DEF CompleteMeansChildrenComplete
    <3>3. QED
      BY <1>1, <3>1, <3>2 DEF SameRow
  <2>2. QED
    BY <2>1 DEF CompleteMeansChildrenComplete
<1>13. ASSUME drain' = drain
       PROVE  AnswerStands'
  <2>1. SUFFICES ASSUME drain["loop"].pc = "resolved"
                 PROVE  AnswerStands'
    BY <1>13 DEF AnswerStands
  <2>2. PICK p \in Job \ batch : p = drain["loop"].cur /\ row[p].state = "waiting"
    BY <1>1, <2>1, OpenStates DEF CalmInv, ParentsStillWait, Terminal
  <2>3. /\ Children(p) # {} /\ OpenChildren(p) = {}
        /\ Children(p)' = Children(p) /\ OpenChildren(p)' = {}
    BY <1>4, <1>7, <2>1, <2>2, OpenStates DEF AnswerStands
  <2>4. \A k \in Children(p) : k \in Job \ batch
    BY <1>1, <1>5, <2>2, OpenStates
  <2>5. \A k \in Children(p) : row'[k].state = row[k].state
    BY <1>1, <2>4 DEF SameRow
  <2>6. QED
    BY <1>13, <2>1, <2>2, <2>3, <2>5 DEF AnswerStands
<1>14. QED
  BY <1>9, <1>10, <1>11, <1>12, <1>13

\* A step of the calm regime leaves the trees in order.
LEMMA EffectsKeepTree ==
    ASSUME TypeInv, CalmInv, TreeInv, CalmEffect
    PROVE  TreeRows' /\ (drain' = drain => AnswerStands')
<1>1. CASE \/ Stutters
           \/ \E batch \in SUBSET Job : Settles(batch) \/ Starts(batch)
           \/ \E j \in Job : Requeues(j)
  BY <1>1, MovesAre, MovesKeepTree
<1>2. CASE \E batch \in SUBSET Job : Collects(batch)
  BY <1>2, CollectsKeepTree
<1>3. CASE \E c \in Job : Enters({}, c) \/ \E p \in Job : Enters({ p }, c)
  BY <1>3, EntersKeepTree
<1>4. QED
  BY <1>1, <1>2, <1>3 DEF CalmEffect

(***************************************************************************)
(* Each action of the calm regime has one of those effects.                 *)
(***************************************************************************)

LEMMA ArrivalEffect ==
    ASSUME Calm, TypeInv, CalmInv, NEW j \in Job, Submit(j) \/ Elapse(j) \/ Age(j)
    PROVE  CalmEffect
<1>1. CASE Submit(j)
  <2> DEFINE new == [ i \in { j } |-> Fresh ]
  <2>1. /\ row' = [ i \in Job |-> IF i \in DOMAIN new THEN new[i] ELSE row[i] ]
        /\ created' = Append(created, j) /\ deps' = deps /\ j \notin Created
    BY <1>1 DEF Submit, Upsert
  <2>2. DOMAIN new = { j } /\ new[j] = Fresh
    OBVIOUS
  <2> HIDE DEF new
  <2>3. Fresh.state = "queued" /\ Fresh.delay = "none"
    BY BlankType, InStateType DEF JobState, Fresh, InState, Blank
  <2>4. row'[j] = Fresh /\ \A i \in Job \ { j } : row'[i] = row[i]
    BY <2>1, <2>2
  <2>5. Enters({}, j)
    BY <2>1, <2>3, <2>4 DEF Enters, SameRow
  <2>6. QED
    BY <2>5 DEF CalmEffect
<1>2. CASE Elapse(j)
  <2>1. row[j].delay = "pending" /\ row' = [ row EXCEPT ![j].delay = "elapsed" ]
        /\ UNCHANGED << created, deps >>
    BY <1>2 DEF Elapse
  <2>2. \A i \in Job \ { j } : row'[i] = row[i]
    BY <2>1 DEF TypeInv, TypeOK
  <2>3. row'[j].state = row[j].state
    BY <2>1 DEF TypeInv, TypeOK, Row
  <2>4. QED
    BY <2>1, <2>2, <2>3 DEF CalmEffect, Stutters, SameRow
<1>3. CASE Age(j)
  BY <1>3 DEF Age, CalmEffect, Stutters, SameRow
<1>4. QED
  BY <1>1, <1>2, <1>3

\* What the dispatcher writes for each verdict over a row that was running.
LEMMA WrittenAnswer ==
    ASSUME NEW j \in Job, NEW seen \in Row, seen.state = "running"
    PROVE  /\ Written(j, seen, "complete").state \in Terminal
           /\ Written(j, seen, "fail").state \in Terminal
           /\ Written(j, seen, "retry").state = "queued"
<1>1. Completed(j, seen).state \in { "complete", "cancelled" }
  BY InStateType DEF Completed, JobState
<1>2. Requeued(seen).state = "queued"
  <2> DEFINE r1 == InState(seen, "queued")
             r2 == [ r1 EXCEPT !.delay = "pending" ]
             r3 == [ r2 EXCEPT !.attempts = seen.attempts + 1 ]
  <2>1. r1 \in Row /\ r1.state = "queued"
    BY InStateType DEF JobState
  <2>2. r2 \in Row /\ r2.state = "queued"
    <3> HIDE DEF r1
    <3> QED BY <2>1 DEF Row
  <2>3. r3.state = "queued"
    <3> HIDE DEF r2
    <3> QED BY <2>2 DEF Row
  <2>4. Requeued(seen) = r3
    BY DEF Requeued, InState
  <2>5. QED
    BY <2>3, <2>4
<1>3. InState(seen, "failed").state = "failed"
  BY InStateType DEF JobState
<1>4. QED
  BY <1>1, <1>2, <1>3 DEF Written, Terminal

LEMMA WorkerEffect ==
    ASSUME Calm, TypeInv, CalmInv, TreeInv, NEW s \in Slot, WorkerStep(s)
    PROVE  CalmEffect /\ VerdictsStand'
<1> DEFINE w == worker[s]
           j == w.job
<1>1. VerdictsStand
  BY DEF TreeInv
<1>2. w \in Worker /\ w.seen \in Row /\ w.verdict \in Verdict /\ w.rest \in Seq(Job)
  BY DEF TypeInv, TypeOK, Worker
<1>3. s \in Busy => /\ j \in Job /\ row[j].state = "running" /\ w.seen.state = "running"
                    /\ j \in Created
  BY DEF CalmInv, BusyRowsRun, RowsAreCreated, Gone
<1>4. ASSUME worker' = worker \/ \E pc \in { "free", "done" } :
                                   worker' = [ worker EXCEPT ![s] = Idle(pc) ]
      PROVE  VerdictsStand'
  <2>1. \A t \in Slot : worker'[t] = worker[t] \/ worker'[t].pc \in { "free", "done" }
    BY <1>4, IdleType DEF TypeInv, TypeOK
  <2>2. QED
    BY <1>1, <2>1 DEF VerdictsStand
<1>5. CASE Decide(s)
  <2>1. s \in Busy /\ w.pc = "run"
    BY <1>5 DEF Decide, Busy
  <2>2. PICK v \in Decisions(j) :
          \E batch \in IF v = "children" THEN NextBatch(j) ELSE { << >> } :
            worker' = [ worker EXCEPT ![s] =
              [ pc |-> IF v = "children" THEN "children" ELSE "put", job |-> j,
                seen |-> IF Exists(j) THEN row[j] ELSE w.seen, verdict |-> v, rest |-> batch ] ]
    BY <1>5 DEF Decide
  <2>3. PICK batch \in IF v = "children" THEN NextBatch(j) ELSE { << >> } :
            worker' = [ worker EXCEPT ![s] =
              [ pc |-> IF v = "children" THEN "children" ELSE "put", job |-> j,
                seen |-> IF Exists(j) THEN row[j] ELSE w.seen, verdict |-> v, rest |-> batch ] ]
    BY <2>2
  <2>4. /\ worker'[s].verdict = v /\ worker'[s].job = j
        /\ worker'[s].pc = "put" => v # "children"
        /\ \A t \in Slot \ { s } : worker'[t] = worker[t]
    BY <2>3 DEF TypeInv, TypeOK
  <2>5. OpenChildren(j) = {}
    BY <1>3, <2>1 DEF TreeInv, TreeRows, AtWorkWaitsForNone
  <2>6. /\ v \in { "children", "fail", "complete", "retry" }
        /\ v = "retry" => KindOf[j] \in RetryKinds
    BY <2>5 DEF Decisions
  <2>7. VerdictsStand'
    BY <1>1, <2>4, <2>6 DEF VerdictsStand
  <2>8. Stutters
    BY <1>5 DEF Decide, store, Stutters, SameRow
  <2>9. QED
    BY <2>7, <2>8 DEF CalmEffect
<1>6. CASE Put(s)
  <2> DEFINE r == Written(j, w.seen, w.verdict)
  <2>1. s \in Busy /\ w.pc = "put"
    BY <1>6 DEF Put, Busy
  <2>2. /\ w.verdict \in { "complete", "fail", "retry" }
        /\ w.verdict = "retry" => KindOf[j] \in RetryKinds
    BY <1>1, <2>1 DEF VerdictsStand
  <2>3. /\ r \in Row /\ r.state \in Terminal \cup { "queued" }
        /\ r.state = "queued" => KindOf[j] \in RetryKinds
    BY <1>2, <1>3, <2>1, <2>2, WrittenType, WrittenAnswer DEF Terminal
  <2>4. Update(j, r)
    BY <1>3, <1>6, <2>1, <2>2 DEF Put
  <2> HIDE DEF r
  <2>5. row'[j] = r /\ \A i \in Job \ { j } : row'[i] = row[i]
    BY <1>3, <2>1, <2>3, <2>4, UpdateRows
  <2>6. UNCHANGED << created, deps >>
    BY <2>4 DEF Update
  <2>7. CASE r.state = "queued"
    <3>1. Requeues(j)
      BY <1>3, <2>1, <2>3, <2>5, <2>6, <2>7 DEF Requeues, SameRow
    <3>2. QED
      BY <1>3, <1>4, <1>6, <2>1, <3>1 DEF CalmEffect, Put
  <2>8. CASE r.state \in Terminal
    <3>1. Settles({ j })
      BY <1>3, <2>1, <2>3, <2>5, <2>6, <2>8 DEF Settles, SameRow
    <3>2. QED
      BY <1>3, <1>4, <1>6, <2>1, <3>1 DEF CalmEffect, Put
  <2>9. QED
    BY <2>3, <2>7, <2>8
<1>7. CASE PutChild(s)
  <2> DEFINE c == Head(w.rest)
  <2>1. s \in Busy /\ w.pc = "children" /\ InsertChild(j, w.seen, c)
    BY <1>7 DEF PutChild, Busy
  <2>2. Len(w.rest) = 1 /\ c \in Kids(j) \ Created /\ c \in Job
    BY <1>2, <1>7, <2>1 DEF CalmInv, ChildIsNew, PutChild
  <2>3. worker' = [ worker EXCEPT ![s] = Idle("done") ]
    BY <1>7, <2>2 DEF PutChild
  <2> HIDE DEF c
  <2>4. c # j
    BY <1>3, <2>1, <2>2
  <2>5. /\ row'[c].state = "queued" /\ row'[j].state = "waiting"
        /\ row'[c].delay = "none" /\ created' = Append(created, c)
        /\ deps' = deps \cup { << j, c >> }
        /\ \A i \in Job \ { c, j } : row'[i] = row[i]
    BY <1>2, <1>3, <2>1, <2>2, <2>4, InsertChildRows
  <2>6. { << p, c >> : p \in { j } } = { << j, c >> }
    OBVIOUS
  <2>7. Enters({ j }, c)
    BY <1>3, <2>1, <2>2, <2>5, <2>6 DEF Enters, SameRow
  <2>8. QED
    BY <1>3, <1>4, <2>1, <2>2, <2>3, <2>7 DEF CalmEffect
<1>8. CASE PutInlineChild(s)
  BY <1>8 DEF PutInlineChild, Calm
<1>9. CASE CollectGarbage(s)
  <2>1. PICK batch \in SUBSET { i \in Job : /\ KindOf[i] \in EphemeralKinds /\ IsTerminal(i)
                                            /\ \A p \in Job : i \in Children(p)
                                                 => row[p].state \notin Open } :
          /\ row' = [ i \in Job |-> IF i \in batch THEN Blank ELSE row[i] ]
          /\ deps' = { e \in deps : e[1] \notin batch /\ e[2] \notin batch }
    BY <1>9 DEF CollectGarbage
  <2>2. /\ \A i \in batch : row[i].state \in Terminal /\ row'[i].state = Gone
        /\ \A i \in Job \ batch : row'[i] = row[i]
    BY <2>1, BlankType DEF IsTerminal
  <2>3. Collects(batch)
    BY <1>9, <2>1, <2>2 DEF Collects, SameRow, CollectGarbage
  <2>4. batch \in SUBSET Job
    BY <2>1
  <2>5. QED
    BY <1>4, <1>9, <2>3, <2>4 DEF CalmEffect, CollectGarbage
<1>10. CASE LoseWrite(s) \/ Release(s)
  <2>1. Stutters
    BY <1>10 DEF LoseWrite, Release, store, Stutters, SameRow
  <2>2. QED
    BY <1>4, <1>10, <2>1 DEF LoseWrite, Release, CalmEffect
<1>11. QED
  BY <1>5, <1>6, <1>7, <1>8, <1>9, <1>10 DEF WorkerStep

\* The row the resolver computes settles the parent, complete only if every
\* child is, or queues a parent that resumes, to be executed at once.
LEMMA ResolvedAnswer ==
    ASSUME TypeInv, NEW p \in Job
    PROVE  /\ Resolved(p).state = "queued" => /\ Resolved(p).delay = "none"
                                              /\ KindOf[p] \in ResumingKinds
           /\ Resolved(p).state = "complete" => \A c \in Children(p) : row[c].state = "complete"
<1>1. row[p] \in Row
  BY DEF TypeInv, TypeOK
<1>2. CASE KindOf[p] \in ResumingKinds
  <2> DEFINE r1 == InState(row[p], "queued")
             r2 == [ r1 EXCEPT !.delay = "none" ]
  <2>1. r1 \in Row /\ r1.state = "queued"
    BY <1>1, InStateType DEF JobState
  <2>2. r2.delay = "none" /\ r2.state = "queued"
    <3> HIDE DEF r1
    <3> QED BY <2>1 DEF Row
  <2>3. Resolved(p) = r2
    BY <1>2 DEF Resolved, InState
  <2>4. QED
    BY <1>2, <2>2, <2>3
<1>3. CASE KindOf[p] \notin ResumingKinds
  <2> DEFINE states == { row[c].state : c \in Children(p) }
             s == IF states = { "complete" } THEN "complete"
                  ELSE IF "cancelled" \in states THEN "cancelled" ELSE "failed"
  <2>1. Resolved(p) = InState(row[p], s)
    BY <1>3 DEF Resolved
  <2>2. InState(row[p], s).state = s
    BY <1>1, InStateType DEF JobState
  <2>3. s # "queued" /\ (s = "complete" => states = { "complete" })
    OBVIOUS
  <2>4. states = { "complete" } => \A c \in Children(p) : row[c].state = "complete"
    OBVIOUS
  <2> HIDE DEF s, states
  <2>5. QED
    BY <2>1, <2>2, <2>3, <2>4
<1>4. QED
  BY <1>2, <1>3

\* Claimed jobs start under keys that nobody holds, in the order of creation.
LEMMA ClaimStarts ==
    ASSUME Calm, TypeInv, CalmInv, Claim("loop")
    PROVE  \E batch \in SUBSET Job : Starts(batch)
<1> DEFINE x == drain["loop"]
<1>1. PICK batch \in SUBSET Claimable("loop") :
        /\ IsClaim("loop", batch)
        /\ Upsert([ j \in batch |-> Running(j) ])
  BY DEF Claim
<1>2. /\ batch \in SUBSET Job
      /\ \A j \in batch : /\ row[j].state = "queued"
                          /\ KindOf[j] = x.kind
                          /\ KeyOf[j] = NoKey \/ KeyOf[j] \notin x.keys
                          /\ Running(j).state = "running"
  BY <1>1, InStateType DEF Claimable, IsDue, Running, JobState, TypeInv, TypeOK
<1>3. /\ \A j \in batch : row'[j].state = "running"
      /\ \A j \in Job \ batch : row'[j] = row[j]
  <2> DEFINE new == [ j \in batch |-> Running(j) ]
  <2>1. row' = [ j \in Job |-> IF j \in DOMAIN new THEN new[j] ELSE row[j] ]
    BY <1>1 DEF Upsert
  <2>2. DOMAIN new = batch /\ \A j \in batch : new[j] = Running(j)
    OBVIOUS
  <2> HIDE DEF new
  <2>3. QED
    BY <1>2, <2>1, <2>2
<1>4. \A i \in Job : HoldsKey(i) => KeyOf[i] \in x.keys
  BY DEF Claim, CalmInv, KeysRead
<1>5. \A i, j \in batch : i # j => KeyOf[i] = NoKey \/ KeyOf[i] # KeyOf[j]
  BY <1>1 DEF IsClaim
<1>6. ASSUME NEW j \in batch, KeyOf[j] # NoKey, NEW i \in Job \ { j },
             IsDue(i), KindOf[i] = KindOf[j], KeyOf[i] = KeyOf[j]
      PROVE  ~Precedes(i, j)
  <2>1. i \in Claimable("loop") \ batch
    BY <1>2, <1>5, <1>6 DEF Claimable
  <2>2. \/ \E k \in batch : KeyOf[k] = KeyOf[i] /\ ~Precedes(i, k)
        \/ \A k \in batch : ~Precedes(i, k)
    BY <1>1, <2>1 DEF IsClaim
  <2>3. QED
    BY <1>5, <1>6, <2>2
<1>7. Starts(batch)
  <2>1. UNCHANGED << created, deps >>
    BY DEF Claim
  <2>2. \A j \in Job \ batch : SameRow(j)
    BY <1>3 DEF SameRow
  <2>3. ASSUME NEW j \in batch, KeyOf[j] # NoKey
        PROVE  /\ \A i \in Job : HoldsKey(i) => KeyOf[i] # KeyOf[j]
               /\ \A i \in batch \ { j } : KeyOf[i] # KeyOf[j]
    BY <1>2, <1>4, <1>5, <2>3
  <2>4. ASSUME NEW j \in batch
        PROVE  /\ row[j].state = "queued" /\ row'[j].state = "running"
               /\ KeyOf[j] # NoKey =>
                    \A i \in Job \ { j } :
                      IsDue(i) /\ KindOf[i] = KindOf[j] /\ KeyOf[i] = KeyOf[j] => ~Precedes(i, j)
    BY <1>2, <1>3, <1>6
  <2>5. QED
    BY <2>1, <2>2, <2>3, <2>4 DEF Starts
<1>8. QED
  BY <1>2, <1>7

LEMMA DrainEffect ==
    ASSUME Calm, TypeInv, CalmInv, TreeInv, NEW d \in Drainer,
           DrainStep(d) \/ Notified(d) \/ TimerFires(d) \/ RunDue(d)
    PROVE  CalmEffect /\ VerdictsStand' /\ (drain' = drain \/ AnswerStands')
<1> DEFINE x == drain["loop"]
<1>1. d = "loop" /\ "loop" \in Drainer /\ VerdictsStand /\ AnswerStands
  BY DEF Calm, TreeInv
<1>2. /\ x \in Drain /\ x.todo \in SUBSET Job /\ x.cur \in Job \cup { NoJob }
      /\ x.snap \in [Job -> Row] /\ x.kinds \in SUBSET JobKind /\ x.held \in SUBSET Slot
      /\ x.did \in BOOLEAN
  BY <1>1 DEF TypeInv, TypeOK, Drain
<1>3. \A y : DrainTo(d, y) => drain'["loop"] = y
  BY <1>1 DEF DrainTo, TypeInv, TypeOK
<1>4. ASSUME worker' = worker
      PROVE  VerdictsStand'
  BY <1>1, <1>4 DEF VerdictsStand
<1>5. ASSUME UNCHANGED store
      PROVE  CalmEffect
  BY <1>5 DEF store, CalmEffect, Stutters, SameRow
<1>6. ASSUME NEW y, DrainTo(d, y), y.pc # "resolved"
      PROVE  AnswerStands'
  BY <1>3, <1>6 DEF AnswerStands
<1>7. \A left \in SUBSET Job, did \in BOOLEAN : NextParent(left, did).pc # "resolved"
  BY NextParentFields
<1>8. \A pc \in DrainPc \ { "resolved" } : At(pc, TRUE).pc # "resolved" /\ At(pc, FALSE).pc # "resolved"
  BY PlaceFields
<1>9. CASE SweepRead(d)
  <2> DEFINE stale == { j \in aged : row[j].state = "running" }
             snap == [ j \in Job |-> IF j \in stale THEN row[j] ELSE Blank ]
             y == [ At("sweeping", TRUE) EXCEPT !.todo = stale, !.snap = snap ]
  <2>1. y.pc = "sweeping"
    <3> HIDE DEF stale, snap
    <3> QED BY DEF At
  <2>2. UNCHANGED << store, worker >> /\ DrainTo(d, IF stale = {} THEN At("select", FALSE) ELSE y)
    BY <1>9 DEF SweepRead
  <2> HIDE DEF y, stale
  <2>3. QED
    BY <1>4, <1>5, <1>6, <1>8, <2>1, <2>2 DEF DrainPc
<1>10. ASSUME NEW j \in Job, SweepPut(d, j)
       PROVE  CalmEffect /\ VerdictsStand' /\ AnswerStands'
  <2> DEFINE left == x.todo \ { j }
             y == [ x EXCEPT !.todo = left, !.snap[j] = Blank ]
             r == InState(x.snap[j], "failed_timeout")
  <2>1. x.pc = "sweeping" /\ row[j].state = "running"
    BY <1>1, <1>10 DEF SweepPut, CalmInv, SweptAreAbandoned, Abandoned
  <2>2. r \in Row /\ r.state \in Terminal
    BY <1>2, InStateType DEF JobState, Terminal
  <2>3. Update(j, r) /\ UNCHANGED worker
        /\ DrainTo(d, IF left = {} THEN At("select", TRUE) ELSE y)
    BY <1>1, <1>10 DEF SweepPut
  <2>4. y.pc = "sweeping"
    BY <1>2, <2>1 DEF Drain
  <2> HIDE DEF r, y, left
  <2>5. row'[j] = r /\ \A i \in Job \ { j } : row'[i] = row[i]
    BY <2>2, <2>3, UpdateRows
  <2>6. Settles({ j })
    BY <2>1, <2>2, <2>3, <2>5 DEF Settles, SameRow, Update
  <2>7. QED
    BY <1>4, <1>6, <1>8, <2>3, <2>4, <2>6 DEF CalmEffect, DrainPc
<1>11. CASE ResolveSelect(d)
  <2> DEFINE ready == { p \in Job : Resolvable(p) }
  <2>1. DrainTo(d, NextParent(ready, x.did)) /\ UNCHANGED << store, worker >>
    BY <1>1, <1>11 DEF ResolveSelect
  <2>2. QED
    BY <1>2, <1>4, <1>5, <1>6, <1>7, <2>1
<1>12. ASSUME NEW p \in Job, ResolveRead(d, p)
       PROVE  CalmEffect /\ VerdictsStand' /\ AnswerStands'
  <2> DEFINE left == x.todo \ { p }
             snap == [ NoRows EXCEPT ![p] = Resolved(p) ]
             y == [ At("resolved", TRUE) EXCEPT !.todo = left, !.cur = p, !.snap = snap ]
  <2>1. /\ drain'["loop"] = IF Children(p) = {} \/ OpenChildren(p) # {}
                            THEN NextParent(left, x.did) ELSE y
        /\ UNCHANGED << store, worker >>
    BY <1>1, <1>3, <1>12 DEF ResolveRead
  <2>2. y.pc = "resolved" /\ y.cur = p /\ y.snap = snap
    <3> HIDE DEF left, snap
    <3> QED BY DEF At
  <2>3. snap[p] = Resolved(p)
    BY DEF NoRows
  <2> HIDE DEF y, snap
  <2>4. Children(p)' = Children(p) /\ OpenChildren(p)' = OpenChildren(p) /\ row' = row
    BY <2>1 DEF store, Children, OpenChildren
  <2>5. AnswerStands'
    <3>1. CASE Children(p) = {} \/ OpenChildren(p) # {}
      BY <1>2, <1>7, <2>1, <3>1 DEF AnswerStands
    <3>2. CASE ~(Children(p) = {} \/ OpenChildren(p) # {})
      <4>1. drain'["loop"] = y
        BY <2>1, <3>2
      <4>2. QED
        BY <2>2, <2>3, <2>4, <3>2, <4>1, ResolvedAnswer DEF AnswerStands
    <3>3. QED
      BY <3>1, <3>2
  <2>6. QED
    BY <1>4, <1>5, <2>1, <2>5
<1>13. CASE ResolvePut(d)
  <2>1. PICK p \in Job : /\ p = x.cur /\ row[p].state = "waiting"
                         /\ x.snap[p].state \in Terminal \cup { "queued" }
    BY <1>1, <1>13 DEF CalmInv, ParentsStillWait, ResolvePut
  <2>2. PICK r \in Row : r = x.snap[p]
    BY <1>2
  <2>3. Update(p, r) /\ UNCHANGED worker /\ DrainTo(d, NextParent(x.todo, TRUE))
    BY <1>1, <1>13, <2>1, <2>2 DEF ResolvePut
  <2>4. /\ OpenChildren(p) = {}
        /\ r.state = "queued" => r.delay = "none" /\ KindOf[p] \in ResumingKinds
        /\ r.state = "complete" => \A c \in Children(p) : row[c].state = "complete"
    BY <1>1, <1>13, <2>1, <2>2 DEF AnswerStands, ResolvePut
  <2>5. row'[p] = r /\ \A i \in Job \ { p } : row'[i] = row[i]
    BY <2>3, UpdateRows
  <2>6. UNCHANGED << created, deps >>
    BY <2>3 DEF Update
  <2>7. CalmEffect
    <3>1. CASE r.state = "queued"
      <4>1. Requeues(p)
        BY <2>1, <2>4, <2>5, <2>6, <3>1 DEF Requeues, SameRow
      <4>2. QED
        BY <4>1 DEF CalmEffect
    <3>2. CASE r.state \in Terminal
      <4>1. Settles({ p })
        BY <2>1, <2>4, <2>5, <2>6, <3>2 DEF Settles, SameRow
      <4>2. QED
        BY <4>1 DEF CalmEffect
    <3>3. QED
      BY <2>1, <2>2, <3>1, <3>2
  <2>8. QED
    BY <1>2, <1>4, <1>6, <1>7, <2>3, <2>7
<1>14. CASE FindDueKinds(d)
  <2>1. { KindOf[j] : j \in { i \in Job : IsDue(i) } } \in SUBSET JobKind
    BY JobAssumption
  <2>2. \A kinds \in SUBSET JobKind : NextKind(d, kinds, x.did).pc # "resolved"
    BY <1>2, NextKindFields
  <2>3. QED
    BY <1>1, <1>4, <1>5, <1>6, <1>14, <2>1, <2>2 DEF FindDueKinds
<1>15. ASSUME NEW k \in JobKind, TakePermits(d, k)
       PROVE  CalmEffect /\ VerdictsStand' /\ AnswerStands'
  <2>1. PICK held \in SUBSET Slot :
          /\ worker' = [ s \in Slot |-> IF s \in held THEN Idle("held") ELSE worker[s] ]
          /\ drain'["loop"] = [ At("claim", drain[d].did) EXCEPT
                            !.kinds = drain[d].kinds \ { k }, !.kind = k,
                            !.held = held, !.keys = ActiveKeys ]
    BY <1>3, <1>15 DEF TakePermits
  <2>2. drain'["loop"].pc = "claim"
    BY <2>1 DEF At
  <2>3. \A s \in Slot : worker'[s] = worker[s] \/ worker'[s].pc = "held"
    BY <2>1, IdleType
  <2>4. VerdictsStand' /\ AnswerStands'
    BY <1>1, <2>2, <2>3 DEF VerdictsStand, AnswerStands
  <2>5. QED
    BY <1>5, <1>15, <2>4 DEF TakePermits
<1>16. CASE Claim(d)
  <2>1. PICK batch \in SUBSET Claimable(d) :
          /\ \E seat \in [ batch -> drain[d].held ] :
               worker' = [ s \in Slot |->
                   IF s \notin drain[d].held THEN worker[s]
                   ELSE IF \E j \in batch : seat[j] = s
                   THEN Started(CHOOSE j \in batch : seat[j] = s)
                   ELSE Idle("free") ]
          /\ DrainTo(d, NextKind(d, drain[d].kinds, drain[d].did \/ batch # {}))
    BY <1>16 DEF Claim
  <2>2. PICK seat \in [ batch -> drain[d].held ] :
               worker' = [ s \in Slot |->
                   IF s \notin drain[d].held THEN worker[s]
                   ELSE IF \E j \in batch : seat[j] = s
                   THEN Started(CHOOSE j \in batch : seat[j] = s)
                   ELSE Idle("free") ]
    BY <2>1
  <2>3. \A s \in Slot : worker'[s] = worker[s] \/ worker'[s].pc \in { "run", "free" }
    BY <2>2, IdleType DEF Started
  <2>4. VerdictsStand'
    BY <1>1, <2>3 DEF VerdictsStand
  <2>5. NextKind(d, x.kinds, x.did \/ batch # {}).pc # "resolved"
    <3> DEFINE did == x.did \/ batch # {}
    <3>1. did \in BOOLEAN
      OBVIOUS
    <3> HIDE DEF did
    <3>2. NextKind(d, x.kinds, did).pc # "resolved"
      BY <1>2, <3>1, NextKindFields
    <3>3. QED
      BY <3>2 DEF did
  <2>6. AnswerStands'
    BY <1>1, <1>6, <2>1, <2>5
  <2>7. QED
    BY <1>1, <1>16, <2>4, <2>6, ClaimStarts DEF CalmEffect
<1>17. CASE LookAhead(d) \/ LookupFails(d)
  <2>1. \A pc \in { "dozing", "asleep", "stalled" } : At(pc, FALSE).pc = pc
    BY DrainType DEF DrainPc
  <2>2. QED
    BY <1>4, <1>5, <1>6, <1>17, <2>1 DEF LookAhead, LookupFails
<1>18. CASE Notified(d) \/ TimerFires(d) \/ RunDue(d)
  <2>1. At("sweep", FALSE).pc = "sweep"
    BY DrainType DEF DrainPc
  <2>2. QED
    BY <1>4, <1>5, <1>6, <1>18, <2>1 DEF Notified, TimerFires, RunDue
<1>19. QED
  BY <1>9, <1>10, <1>11, <1>12, <1>13, <1>14, <1>15, <1>16, <1>17, <1>18 DEF DrainStep

LEMMA RestartEffect ==
    ASSUME Calm, TypeInv, CalmInv, TreeInv, Restart
    PROVE  CalmEffect /\ VerdictsStand' /\ AnswerStands'
<1> DEFINE interrupted == { j \in Job : /\ row[j].state = "running"
                                        /\ KindOf[j] = "agent_task" }
<1>1. PICK replied \in SUBSET interrupted :
        Upsert([ j \in interrupted |->
                   InState(row[j], IF j \in replied THEN "complete" ELSE "failed") ])
  BY DEF Restart
<1> DEFINE new == [ j \in interrupted |->
                      InState(row[j], IF j \in replied THEN "complete" ELSE "failed") ]
<1>2. row' = [ j \in Job |-> IF j \in DOMAIN new THEN new[j] ELSE row[j] ]
  BY <1>1 DEF Upsert
<1>3. \A j \in interrupted : new[j].state \in { "complete", "failed" }
  BY InStateType DEF TypeInv, TypeOK, JobState
<1>4. DOMAIN new = interrupted /\ interrupted \in SUBSET Job
      /\ \A j \in interrupted : row[j].state = "running"
  OBVIOUS
<1> HIDE DEF new, interrupted
<1>5. /\ \A j \in interrupted : row'[j].state \in { "complete", "failed" }
      /\ \A j \in Job \ interrupted : row'[j] = row[j]
  BY <1>2, <1>3, <1>4
<1>6. Settles(interrupted)
  BY <1>4, <1>5 DEF Settles, SameRow, Terminal, Restart
<1>7. VerdictsStand'
  BY IdleType DEF Restart, VerdictsStand
<1>8. drain'["loop"].pc = "sweep"
  BY EnvironmentAssumption, DrainType DEF Restart, DrainPc
<1>9. QED
  BY <1>4, <1>6, <1>7, <1>8 DEF CalmEffect, AnswerStands

LEMMA TreeInit == Calm /\ Init => TreeInv
<1> SUFFICES ASSUME Calm, Init
             PROVE  TreeInv
  OBVIOUS
<1>1. \A j \in Job : row[j].state = Gone /\ row[j].state = "gone"
  BY BlankType DEF Init, NoRows, Gone
<1>2. deps = {} /\ DOMAIN created = {} /\ \A j \in Job : Children(j) = {}
  BY DEF Init, Children
<1>3. TreeRows
  BY <1>1, <1>2 DEF TreeRows, CreatedOnce, EdgesAreCreated, PlainStates, AtWorkWaitsForNone,
     DerivingStartsAlone, OthersAreDueAtOnce, WaitingHasChild, CompleteMeansChildrenComplete
<1>4. VerdictsStand
  BY IdleType DEF Init, VerdictsStand
<1>5. AnswerStands
  <2>1. drain["loop"].pc = "sweep"
    BY EnvironmentAssumption, DrainType DEF Init, DrainPc
  <2>2. QED
    BY <2>1 DEF AnswerStands
<1>6. QED
  BY <1>3, <1>4, <1>5 DEF TreeInv

\* In the calm regime every step has one of the six effects, or none, and
\* leaves the trees in order.
LEMMA TreeNext ==
    Calm /\ TypeInv /\ CalmInv /\ TreeInv /\ [Next]_vars => CalmEffect /\ TreeInv'
<1> SUFFICES ASSUME Calm, TypeInv, CalmInv, TreeInv, [Next]_vars
             PROVE  CalmEffect /\ TreeInv'
  OBVIOUS
<1>1. CalmEffect /\ VerdictsStand' /\ (drain' = drain \/ AnswerStands')
  <2>1. CASE \E j \in Job : Submit(j) \/ Elapse(j) \/ Age(j)
    <3>1. worker' = worker /\ drain' = drain /\ VerdictsStand
      BY <2>1 DEF Submit, Elapse, Age, TreeInv
    <3>2. QED
      BY <2>1, <3>1, ArrivalEffect DEF VerdictsStand
  <2>2. CASE \E s \in Slot : WorkerStep(s)
    <3>1. drain' = drain
      BY <2>2 DEF WorkerStep, Decide, Put, PutChild, PutInlineChild, CollectGarbage,
                  LoseWrite, Release
    <3>2. QED
      BY <2>2, <3>1, WorkerEffect
  <2>3. CASE \E d \in Drainer : DrainStep(d) \/ Notified(d) \/ TimerFires(d) \/ RunDue(d)
    BY <2>3, DrainEffect
  <2>4. CASE (\E j \in Job : RetryJob(j) \/ CancelTree(j)) \/ RequestPut
    <3>1. "retry" \notin Faults /\ "cancel" \notin Faults /\ requests = << >>
      BY DEF Calm, CalmInv, NoRequests
    <3>2. QED
      BY <2>4, <3>1 DEF RetryJob, CancelTree, RequestPut
  <2>5. CASE Restart
    BY <2>5, RestartEffect
  <2>6. CASE UNCHANGED vars
    <3>1. UNCHANGED << row, created, deps, worker, drain >> /\ VerdictsStand
      BY <2>6 DEF vars, store, TreeInv
    <3>2. QED
      BY <3>1 DEF CalmEffect, Stutters, SameRow, VerdictsStand
  <2>7. QED
    BY <2>1, <2>2, <2>3, <2>4, <2>5, <2>6 DEF Next
<1>2. TreeRows' /\ (drain' = drain => AnswerStands')
  BY <1>1, EffectsKeepTree
<1>3. QED
  BY <1>1, <1>2 DEF TreeInv

\* In the calm regime the trees are always in order (JobEngineInv).
THEOREM CalmTrees == Calm => (Spec => [](TypeInv /\ CalmInv /\ TreeInv))
<1> SUFFICES ASSUME Calm
             PROVE  Spec => [](TypeInv /\ CalmInv /\ TreeInv)
  OBVIOUS
<1>1. Init => TypeInv /\ CalmInv /\ TreeInv
  BY InitType, CalmInit, TreeInit
<1>2. TypeInv /\ CalmInv /\ TreeInv /\ [Next]_vars => TypeInv' /\ CalmInv' /\ TreeInv'
  BY NextType, CalmNext, TreeNext
<1>3. QED
  BY <1>1, <1>2, PTL DEF Spec

\* In the calm regime a waiting parent always has an edge to wake it, whatever
\* the collector deletes (wait_dispatched_job, garbage_collect_ephemeral_jobs).
THEOREM CalmWaitersHaveChildren == Calm => (Spec => []WaitingHasChild)
<1> SUFFICES ASSUME Calm
             PROVE  Spec => []WaitingHasChild
  OBVIOUS
<1>1. TreeInv => WaitingHasChild
  BY DEF TreeInv, TreeRows
<1>2. QED
  BY <1>1, CalmTrees, PTL

\* In the calm regime a handler is entered again only when all the children of
\* its job have settled (resolve_waiting_jobs, create_child_job).
THEOREM CalmChildrenSettleFirst == Calm => (Spec => []ChildrenSettleFirst)
<1> SUFFICES ASSUME Calm
             PROVE  Spec => []ChildrenSettleFirst
  OBVIOUS
<1>1. TypeInv /\ CalmInv /\ TreeInv => ChildrenSettleFirst
  <2> SUFFICES ASSUME CalmInv, TreeInv, NEW s \in Slot, worker[s].pc = "run"
               PROVE  OpenChildren(worker[s].job) = {}
    BY DEF ChildrenSettleFirst
  <2>1. worker[s].job \in Job /\ row[worker[s].job].state = "running"
    BY DEF CalmInv, BusyRowsRun, Busy
  <2>2. QED
    BY <2>1 DEF TreeInv, TreeRows, AtWorkWaitsForNone
<1>2. QED
  BY <1>1, CalmTrees, PTL

\* In the calm regime a parent that takes its outcome from its children is
\* complete only if all of them are (resolve_waiting_jobs, complete_dispatched_job).
THEOREM CalmOutcomesAgree == Calm => (Spec => []CompleteMeansChildrenComplete)
<1> SUFFICES ASSUME Calm
             PROVE  Spec => []CompleteMeansChildrenComplete
  OBVIOUS
<1>1. TreeInv => CompleteMeansChildrenComplete
  BY DEF TreeInv, TreeRows
<1>2. QED
  BY <1>1, CalmTrees, PTL

(***************************************************************************)
(* Turns of one session: a task that is under way keeps its place before    *)
(* all that are to come.                                                    *)
(***************************************************************************)

\* Two jobs that were created were created one before the other.
LEMMA CreationIsTotal ==
    ASSUME TypeInv, NEW i \in Created, NEW j \in Created, i # j
    PROVE  CreatedBefore(i, j) \/ CreatedBefore(j, i)
<1>1. DOMAIN created = 1 .. Len(created) /\ Len(created) \in Nat
  BY LenProperties DEF TypeInv, TypeOK
<1>2. PICK m \in DOMAIN created : created[m] = i
  BY DEF Created
<1>3. PICK n \in DOMAIN created : created[n] = j
  BY DEF Created
<1>4. m < n \/ n < m
  BY <1>1, <1>2, <1>3
<1>5. QED
  BY <1>2, <1>3, <1>4 DEF CreatedBefore

LEMMA TasksAreOpen ==
    ASSUME TypeInv, CalmInv, TreeInv, NEW j \in Job, OpenTask(j)
    PROVE  /\ j \in Created
           /\ row[j].state \in { "queued", "running", "waiting" }
           /\ row[j].state = "queued" => row[j].delay = "none" /\ IsDue(j)
           /\ row[j].state # "queued" /\ TasksHaveKeys => HoldsKey(j)
<1>1. KindOf[j] = "agent_task" /\ KindOf[j] \notin RetryKinds
  BY DEF OpenTask, RetryKinds
<1>2. j \in Created
  BY OpenStates DEF OpenTask, CalmInv, RowsAreCreated
<1>3. row[j].state \in { "queued", "running", "waiting" }
  BY OpenStates DEF OpenTask, TreeInv, TreeRows, PlainStates
<1>4. row[j].state = "queued" => row[j].delay = "none"
  BY <1>1 DEF TreeInv, TreeRows, OthersAreDueAtOnce
<1>5. QED
  BY <1>1, <1>2, <1>3, <1>4 DEF IsDue, HoldsKey, TasksHaveKeys

\* A task that is under way does not let another of its session start.
LEMMA BegunHoldsOff ==
    ASSUME TypeInv, CalmInv, TreeInv, TasksHaveKeys, BegunComesFirst,
           NEW batch \in SUBSET Job, Starts(batch),
           NEW i \in Job, NEW j \in Job, i # j, Begun(i), OpenTask(j), KeyOf[i] = KeyOf[j]
    PROVE  j \notin batch
<1>1. ~Begun(j) /\ CreatedBefore(i, j) /\ OpenTask(i)
  BY DEF BegunComesFirst, Begun
<1>2. SUFFICES ASSUME j \in batch
               PROVE  FALSE
  OBVIOUS
<1>3. KindOf[i] = "agent_task" /\ KindOf[j] = "agent_task" /\ KeyOf[j] # NoKey
  BY <1>1 DEF OpenTask, TasksHaveKeys
<1>4. row[j].state = "queued" /\ row[j].delay = "none"
  BY <1>2, TasksAreOpen DEF Starts
<1>5. ~HoldsKey(i)
  BY <1>2, <1>3 DEF Starts
<1>6. row[i].state = "queued" /\ row[i].delay = "none" /\ IsDue(i)
  BY <1>1, <1>5, TasksAreOpen
<1>7. ~Precedes(i, j)
  BY <1>2, <1>3, <1>6 DEF Starts
<1>8. QED
  BY <1>1, <1>3, <1>4, <1>6, <1>7 DEF Precedes, CreatedBefore

LEMMA MovesKeepFirst ==
    ASSUME TypeInv, CalmInv, TreeInv, TasksHaveKeys, BegunComesFirst, RowMoves,
           UNCHANGED << created, deps >>, NEW batch \in SUBSET Job,
           batch = {} \/ Starts(batch),
           \A j \in Job \ batch : row[j].state = "queued" => row'[j].state = "queued"
    PROVE  BegunComesFirst'
<1>1. \A j \in Job : Children(j)' = Children(j)
  BY MovesSettle
<1>2. \A j \in Job : OpenTask(j)' => OpenTask(j)
  BY MovesSettle DEF OpenTask
<1>3. \A j \in Job \ batch : Begun(j)' => Begun(j)
  BY <1>1, <1>2 DEF Begun
<1>4. \A i, j \in Job : CreatedBefore(i, j)' <=> CreatedBefore(i, j)
  BY DEF CreatedBefore
<1>5. SUFFICES ASSUME NEW i \in Job, NEW j \in Job, i # j, Begun(i)', OpenTask(j)',
                      KeyOf[i] = KeyOf[j]
               PROVE  ~Begun(j)' /\ CreatedBefore(i, j)
  BY <1>4 DEF BegunComesFirst
<1>6. OpenTask(i) /\ OpenTask(j)
  BY <1>2, <1>5 DEF Begun
<1>7. CASE Begun(i)
  <2>1. ~Begun(j) /\ CreatedBefore(i, j)
    BY <1>5, <1>6, <1>7 DEF BegunComesFirst
  <2>2. j \notin batch
    BY <1>5, <1>6, <1>7, BegunHoldsOff
  <2>3. QED
    BY <1>3, <2>1, <2>2
<1>8. CASE ~Begun(i)
  <2>1. i \in batch /\ Starts(batch)
    BY <1>3, <1>5, <1>8
  <2>2. ~Begun(j)
    BY <1>5, <1>6, <2>1, BegunHoldsOff
  <2>3. KeyOf[i] # NoKey /\ KindOf[i] = "agent_task" /\ KindOf[j] = "agent_task"
    BY <1>6 DEF OpenTask, TasksHaveKeys
  <2>4. j \notin batch
    BY <1>5, <2>1, <2>3 DEF Starts
  <2>5. ~Begun(j)'
    BY <1>3, <2>2, <2>4
  <2>6. row[j].state = "queued"
    BY <1>6, <2>2 DEF Begun
  <2>7. row[j].delay = "none" /\ IsDue(j) /\ j \in Created
    BY <1>6, <2>6, TasksAreOpen
  <2>8. row[i].state = "queued" /\ row[i].delay = "none" /\ i \in Created
    BY <1>6, <2>1, TasksAreOpen DEF Starts
  <2>9. ~Precedes(j, i)
    BY <1>5, <2>1, <2>3, <2>7 DEF Starts
  <2>10. ~CreatedBefore(j, i)
    BY <2>3, <2>7, <2>8, <2>9 DEF Precedes, CreatedBefore
  <2>11. QED
    BY <1>5, <2>5, <2>7, <2>8, <2>10, CreationIsTotal
<1>9. QED
  BY <1>7, <1>8

LEMMA EntersKeepsFirst ==
    ASSUME TypeInv, CalmInv, TreeInv, BegunComesFirst,
           NEW parents \in SUBSET Job, NEW c \in Job, Enters(parents, c)
    PROVE  BegunComesFirst'
<1>1. /\ row[c].state = Gone /\ Children(c)' = {}
      /\ \A j \in Job \ parents : Children(j)' = Children(j)
  BY EntersEdges
<1>2. /\ row'[c].state = "queued"
      /\ \A p \in parents : row[p].state = "running"
      /\ \A j \in Job \ (parents \cup { c }) : SameRow(j)
      /\ created' = Append(created, c)
  BY DEF Enters
<1>3. \A j \in Job \ { c } : OpenTask(j)' => OpenTask(j)
  BY <1>2, OpenStates DEF OpenTask, SameRow
<1>4. \A j \in Job \ { c } : Begun(j)' => Begun(j)
  BY <1>1, <1>2, <1>3 DEF Begun, SameRow
<1>5. ~Begun(c)'
  BY <1>1, <1>2 DEF Begun
<1>6. created \in Seq(Job) /\ Len(created) \in Nat /\ DOMAIN created = 1 .. Len(created)
  BY LenProperties DEF TypeInv, TypeOK
<1>7. /\ DOMAIN created' = 1 .. Len(created) + 1
      /\ created'[Len(created) + 1] = c
      /\ \A n \in 1 .. Len(created) : created'[n] = created[n]
      /\ \A n \in 1 .. Len(created) : n < Len(created) + 1 /\ n \in 1 .. Len(created) + 1
      /\ Len(created) + 1 \in 1 .. Len(created) + 1
  BY <1>2, <1>6
<1>8. \A i, j \in Job : CreatedBefore(i, j) => CreatedBefore(i, j)'
  BY <1>6, <1>7 DEF CreatedBefore
<1>9. \A i \in Created : CreatedBefore(i, c)'
  BY <1>6, <1>7 DEF CreatedBefore, Created
<1>10. \A i \in Job : Begun(i) => i \in Created
  BY OpenStates DEF Begun, OpenTask, CalmInv, RowsAreCreated
<1>11. SUFFICES ASSUME NEW i \in Job, NEW j \in Job, i # j, Begun(i)', OpenTask(j)',
                       KeyOf[i] = KeyOf[j]
                PROVE  ~Begun(j)' /\ CreatedBefore(i, j)'
  BY DEF BegunComesFirst
<1>12. i # c /\ Begun(i)
  BY <1>4, <1>5, <1>11
<1>13. CASE j = c
  BY <1>5, <1>9, <1>10, <1>12, <1>13
<1>14. CASE j # c
  BY <1>3, <1>4, <1>8, <1>11, <1>12, <1>14 DEF BegunComesFirst
<1>15. QED
  BY <1>13, <1>14

LEMMA CollectsKeepFirst ==
    ASSUME TypeInv, BegunComesFirst, NEW batch \in SUBSET Job, Collects(batch)
    PROVE  BegunComesFirst'
<1>1. /\ \A j \in batch : row'[j].state = Gone
      /\ \A j \in Job \ batch : SameRow(j)
      /\ created' = created
      /\ deps' = { e \in deps : e[1] \notin batch /\ e[2] \notin batch }
  BY DEF Collects
<1>2. \A j \in Job : Children(j)' \subseteq Children(j)
  BY <1>1 DEF Children
<1>3. \A j \in Job : OpenTask(j)' => OpenTask(j) /\ row'[j].state = row[j].state
  BY <1>1, OpenStates DEF OpenTask, SameRow
<1>4. \A j \in Job : Begun(j)' => Begun(j)
  BY <1>2, <1>3 DEF Begun
<1>5. \A i, j \in Job : CreatedBefore(i, j)' <=> CreatedBefore(i, j)
  BY <1>1 DEF CreatedBefore
<1>6. QED
  BY <1>3, <1>4, <1>5 DEF BegunComesFirst

LEMMA EffectsKeepFirst ==
    ASSUME TypeInv, CalmInv, TreeInv, TasksHaveKeys, BegunComesFirst, CalmEffect
    PROVE  BegunComesFirst'
<1>0. PICK nobody \in SUBSET Job : nobody = {}
  OBVIOUS
<1>1. CASE Stutters
  <2>1. \A j \in Job \ nobody : row[j].state = "queued" => row'[j].state = "queued"
    BY <1>1 DEF Stutters, SameRow
  <2>2. QED
    BY <1>0, <1>1, <2>1, MovesAre, MovesKeepFirst
<1>2. ASSUME NEW batch \in SUBSET Job, Settles(batch)
      PROVE  BegunComesFirst'
  <2>1. \A j \in Job \ nobody : row[j].state = "queued" => row'[j].state = "queued"
    BY <1>2 DEF Settles, SameRow
  <2>2. QED
    BY <1>0, <1>2, <2>1, MovesAre, MovesKeepFirst
<1>3. ASSUME NEW j \in Job, Requeues(j)
      PROVE  BegunComesFirst'
  <2>1. \A i \in Job \ nobody : row[i].state = "queued" => row'[i].state = "queued"
    BY <1>3 DEF Requeues, SameRow
  <2>2. QED
    BY <1>0, <1>3, <2>1, MovesAre, MovesKeepFirst
<1>4. ASSUME NEW batch \in SUBSET Job, Starts(batch)
      PROVE  BegunComesFirst'
  <2>1. \A i \in Job \ batch : row[i].state = "queued" => row'[i].state = "queued"
    BY <1>4 DEF Starts, SameRow
  <2>2. QED
    BY <1>4, <2>1, MovesAre, MovesKeepFirst
<1>5. CASE \E batch \in SUBSET Job : Collects(batch)
  BY <1>5, CollectsKeepFirst
<1>6. CASE \E c \in Job : Enters({}, c) \/ \E p \in Job : Enters({ p }, c)
  BY <1>6, EntersKeepsFirst
<1>7. QED
  BY <1>1, <1>2, <1>3, <1>4, <1>5, <1>6 DEF CalmEffect

\* In the calm regime at most one agent task of a session is under way, across
\* its waits, its requeues and restarts: the key it gives up while it is queued
\* between two children comes back to it by the ready order, because it was
\* created before every task that could take it (active_ordering_keys,
\* claim_due_jobs, resolve_waiting_jobs).
THEOREM CalmOneTurnPerSession == Calm /\ TasksHaveKeys => (Spec => []OneTurnPerSession)
<1> SUFFICES ASSUME Calm, TasksHaveKeys
             PROVE  Spec => []OneTurnPerSession
  OBVIOUS
<1>1. Init => BegunComesFirst
  <2>1. Init => \A j \in Job : row[j].state = Gone
    BY BlankType DEF Init, NoRows
  <2>2. QED
    BY <2>1, OpenStates DEF BegunComesFirst, Begun, OpenTask
<1>2. TypeInv /\ CalmInv /\ TreeInv /\ BegunComesFirst /\ [Next]_vars => BegunComesFirst'
  BY TreeNext, EffectsKeepFirst
<1>3. TypeInv /\ BegunComesFirst => OneTurnPerSession
  BY DEF BegunComesFirst, Begun, OpenTask, OneTurnPerSession
<1>4. QED
  BY <1>1, <1>2, <1>3, CalmTrees, PTL DEF Spec

(***************************************************************************)
(* The refinement of JobContract: each effect of the calm regime is one of  *)
(* its actions, or a stuttering step.                                       *)
(***************************************************************************)

\* What the table says of a job, in the terms of the contract.
LEMMA StatusIs ==
    ASSUME RowsAreCreated, PlainStates, TypeInv, NEW j \in Job
    PROVE  /\ j \notin Created => StatusOf(j) = "none" /\ row[j].state = "gone"
           /\ j \in Created /\ row[j].state \in Terminal \cup { Gone } => StatusOf(j) = "settled"
           /\ row[j].state = "queued"  => StatusOf(j) = "ready"
           /\ row[j].state = "waiting" => StatusOf(j) = "parked"
           /\ row[j].state = "running" => StatusOf(j) = "active"
           /\ row[j].state \in Terminal \cup { Gone, "queued", "waiting", "running" }
<1>1. row[j].state \in JobState \cup { Gone }
  BY DEF TypeInv, TypeOK, Row
<1>2. row[j].state \in Terminal \cup { Gone, "queued", "waiting", "running" }
  BY <1>1 DEF PlainStates, JobState, Terminal
<1>3. QED
  BY <1>2 DEF RowsAreCreated, StatusOf, Exists, IsTerminal, Terminal, Gone

LEMMA StatusIsNext ==
    ASSUME RowsAreCreated', PlainStates', TypeInv', NEW j \in Job
    PROVE  /\ j \notin Created' => StatusOf(j)' = "none"
           /\ j \in Created' /\ row'[j].state \in Terminal \cup { Gone } => StatusOf(j)' = "settled"
           /\ row'[j].state = "queued"  => StatusOf(j)' = "ready"
           /\ row'[j].state = "waiting" => StatusOf(j)' = "parked"
           /\ row'[j].state = "running" => StatusOf(j)' = "active"
<1>1. row'[j].state \in JobState \cup { Gone }
  BY DEF TypeInv, TypeOK, Row
<1>2. row'[j].state \in Terminal \cup { Gone, "queued", "waiting", "running" }
  BY <1>1 DEF PlainStates, JobState, Terminal
<1>3. QED
  BY <1>2 DEF RowsAreCreated, StatusOf, Exists, IsTerminal, Terminal, Gone

\* A job whose row says the same as before has the status it had.
LEMMA StatusStays ==
    ASSUME TypeInv, TypeInv', CalmInv, CalmInv', TreeInv, TreeInv', NEW j \in Job,
           row'[j].state = row[j].state, j \in Created' <=> j \in Created
    PROVE  StatusOf(j)' = StatusOf(j)
<1>1. RowsAreCreated /\ RowsAreCreated' /\ PlainStates /\ PlainStates'
  BY DEF CalmInv, TreeInv, TreeRows
<1>2. QED
  BY <1>1, StatusIs, StatusIsNext

LEMMA ContractOwners ==
    ASSUME TypeInv, CalmInv, TreeInv, NEW j \in Job
    PROVE  Contract!Owns(j) <=> HoldsKey(j)
<1>1. RowsAreCreated /\ PlainStates
  BY DEF CalmInv, TreeInv, TreeRows
<1>2. /\ StatusOf(j) = "active" <=> row[j].state = "running"
      /\ StatusOf(j) = "parked" <=> row[j].state = "waiting"
      /\ row[j].state # "cancel_requested"
  BY <1>1, StatusIs DEF Terminal, PlainStates, Gone
<1>3. QED
  BY <1>2 DEF Contract!Owns, HoldsKey

\* A parent with no open child has what it waited for.
LEMMA ContractNeedsMet ==
    ASSUME TypeInv, CalmInv, TreeInv, NEW j \in Job, OpenChildren(j) = {}
    PROVE  Contract!NeedsMet(j)
<1>1. RowsAreCreated /\ PlainStates /\ EdgesAreCreated
  BY DEF CalmInv, TreeInv, TreeRows
<1>2. ASSUME NEW c \in Job, << j, c >> \in deps
      PROVE  StatusOf(c) = "settled"
  <2>1. c \in Created /\ row[c].state \notin Open
    BY <1>1, <1>2 DEF EdgesAreCreated, OpenChildren, Children
  <2>2. QED
    BY <1>1, <2>1, StatusIs, OpenStates
<1>3. QED
  BY <1>2 DEF Contract!NeedsMet

\* An insertion in the terms of the contract.
LEMMA EntersContract ==
    ASSUME TypeInv, TypeInv', CalmInv, CalmInv', TreeInv, TreeInv',
           NEW parents \in SUBSET Job, NEW c \in Job, Enters(parents, c)
    PROVE  /\ StatusOf(c) = "none" /\ StatusOf(c)' = "ready"
           /\ \A p \in parents : p # c /\ StatusOf(p) = "active" /\ StatusOf(p)' = "parked"
           /\ \A j \in Job \ (parents \cup { c }) : StatusOf(j)' = StatusOf(j)
           /\ \A e \in deps : row'[e[1]].state \in Open <=> row[e[1]].state \in Open
           /\ \A p \in parents : row'[p].state \in Open
<1>1. RowsAreCreated /\ RowsAreCreated' /\ PlainStates /\ PlainStates' /\ EdgesAreCreated
  BY DEF CalmInv, TreeInv, TreeRows
<1>2. deps \in SUBSET (Job \X Job)
  BY DEF TypeInv, TypeOK
<1>3. /\ Created' = Created \cup { c } /\ c \notin parents /\ c \notin Created
      /\ row'[c].state = "queued"
      /\ \A p \in parents : row[p].state = "running" /\ row'[p].state = "waiting"
      /\ \A j \in Job \ (parents \cup { c }) : row'[j].state = row[j].state
      /\ deps' = deps \cup { << p, c >> : p \in parents }
  BY EntersEdges DEF Enters, SameRow
<1>4. StatusOf(c) = "none" /\ StatusOf(c)' = "ready"
  BY <1>1, <1>3, StatusIs, StatusIsNext
<1>5. \A p \in parents : p # c /\ StatusOf(p) = "active" /\ StatusOf(p)' = "parked"
  BY <1>1, <1>3, StatusIs, StatusIsNext
<1>6. \A j \in Job \ (parents \cup { c }) : StatusOf(j)' = StatusOf(j)
  BY <1>3, StatusStays
<1>7. ASSUME NEW e \in deps
      PROVE  row'[e[1]].state \in Open <=> row[e[1]].state \in Open
  <2>1. e[1] \in Job /\ e[1] # c
    BY <1>1, <1>2, <1>3 DEF EdgesAreCreated
  <2>2. QED
    BY <1>3, <2>1, OpenStates
<1>8. \A p \in parents : row'[p].state \in Open
  BY <1>3, OpenStates
<1>9. QED
  BY <1>3, <1>4, <1>5, <1>6, <1>7, <1>8

LEMMA EffectsKeepContract ==
    ASSUME TypeInv, TypeInv', CalmInv, CalmInv', TreeInv, TreeInv', CalmEffect
    PROVE  [Contract!Next]_(Contract!vars)
<1> DEFINE old == [ j \in Job |-> StatusOf(j) ]
           new == [ j \in Job |-> StatusOf(j)' ]
           needs == { e \in deps : row[e[1]].state \in Open }
           next == { e \in deps' : row'[e[1]].state \in Open }
<1>1. RowsAreCreated /\ RowsAreCreated' /\ PlainStates /\ PlainStates' /\ EdgesAreCreated
  BY DEF CalmInv, TreeInv, TreeRows
<1>2. deps \in SUBSET (Job \X Job) /\ deps' \in SUBSET (Job \X Job)
  BY DEF TypeInv, TypeOK
<1>3. ASSUME old = new, needs = next
      PROVE  [Contract!Next]_(Contract!vars)
  BY <1>3 DEF Contract!vars
<1>4. CASE Stutters
  <2>1. Created' = Created /\ \A j \in Job : row'[j].state = row[j].state
    BY <1>4 DEF Stutters, SameRow, Created
  <2>2. old = new
    BY <2>1, StatusStays
  <2>3. needs = next
    BY <1>2, <1>4, <2>1 DEF Stutters
  <2>4. QED
    BY <1>3, <2>2, <2>3
<1>5. ASSUME NEW batch \in SUBSET Job, Collects(batch)
      PROVE  [Contract!Next]_(Contract!vars)
  <2>1. /\ Created' = Created
        /\ \A j \in Job \ batch : row'[j].state = row[j].state
        /\ \A j \in batch : row[j].state \in Terminal /\ row'[j].state = Gone
    BY <1>5 DEF Collects, SameRow, Created
  <2>2. \A j \in batch : StatusOf(j) = "settled" /\ StatusOf(j)' = "settled"
    BY <1>1, <2>1, StatusIs, StatusIsNext, OpenStates DEF RowsAreCreated
  <2>3. \A j \in Job : StatusOf(j)' = StatusOf(j)
    BY <2>1, <2>2, StatusStays
  <2>4. needs = next
    <3>1. deps' = { e \in deps : e[1] \notin batch /\ e[2] \notin batch }
      BY <1>5 DEF Collects
    <3>2. ASSUME NEW e \in deps, row[e[1]].state \in Open
          PROVE  e[1] \notin batch /\ e[2] \notin batch
      <4>1. e[1] \in Job /\ e[2] \in Job /\ e = << e[1], e[2] >>
        BY <1>2
      <4>2. e[2] \in Children(e[1])
        BY <4>1 DEF Children
      <4>3. QED
        BY <1>5, <2>1, <3>2, <4>1, <4>2, OpenStates DEF Collects
    <3>3. \A e \in deps' : row'[e[1]].state = row[e[1]].state
      BY <1>2, <2>1, <3>1
    <3>4. QED
      BY <3>1, <3>2, <3>3
  <2>5. QED
    BY <1>3, <2>3, <2>4
<1>6. ASSUME NEW batch \in SUBSET Job, Settles(batch)
      PROVE  [Contract!Next]_(Contract!vars)
  <2>1. /\ Created' = Created /\ deps' = deps
        /\ \A j \in Job \ batch : row'[j].state = row[j].state
        /\ \A j \in batch : row'[j].state \in Terminal
    BY <1>6 DEF Settles, SameRow, Created
  <2>2. \A j \in batch : StatusOf(j)' = "settled"
    BY <1>1, <2>1, StatusIsNext, OpenStates DEF RowsAreCreated
  <2>3. new = [ j \in Job |-> IF j \in batch THEN "settled" ELSE old[j] ]
    BY <2>1, <2>2, StatusStays
  <2>4. next = { e \in needs : e[1] \notin batch }
    BY <1>2, <2>1, OpenStates
  <2>5. \A j \in batch : old[j] = "active" \/ (old[j] = "parked" /\ Contract!NeedsMet(j))
    BY <1>1, <1>6, StatusIs, ContractNeedsMet DEF Settles
  <2>6. Contract!Settle(batch)
    BY <2>3, <2>4, <2>5 DEF Contract!Settle
  <2>7. QED
    BY <2>6 DEF Contract!Next
<1>7. ASSUME NEW j \in Job, Requeues(j)
      PROVE  [Contract!Next]_(Contract!vars)
  <2>1. /\ Created' = Created /\ deps' = deps
        /\ \A i \in Job \ { j } : row'[i].state = row[i].state
        /\ row'[j].state = "queued" /\ row[j].state \in Open /\ row'[j].state \in Open
    BY <1>7, OpenStates DEF Requeues, SameRow, Created
  <2>2. StatusOf(j)' = "ready"
    BY <1>1, <2>1, StatusIsNext
  <2>3. new = [ old EXCEPT ![j] = "ready" ]
    BY <2>1, <2>2, StatusStays
  <2>4. next = needs
    BY <1>2, <2>1
  <2>5. old[j] = "active" \/ (old[j] = "parked" /\ Contract!NeedsMet(j))
    BY <1>1, <1>7, StatusIs, ContractNeedsMet DEF Requeues
  <2>6. Contract!Again(j)
    BY <2>3, <2>4, <2>5 DEF Contract!Again
  <2>7. QED
    BY <2>6 DEF Contract!Next
<1>8. ASSUME NEW batch \in SUBSET Job, Starts(batch)
      PROVE  [Contract!Next]_(Contract!vars)
  <2>1. /\ Created' = Created /\ deps' = deps
        /\ \A j \in Job \ batch : row'[j].state = row[j].state
        /\ \A j \in batch : row[j].state = "queued" /\ row'[j].state = "running"
    BY <1>8 DEF Starts, SameRow, Created
  <2>2. \A j \in batch : StatusOf(j)' = "active" /\ StatusOf(j) = "ready"
    BY <1>1, <2>1, StatusIs, StatusIsNext
  <2>3. new = [ j \in Job |-> IF j \in batch THEN "active" ELSE old[j] ]
    BY <2>1, <2>2, StatusStays
  <2>4. next = needs
    BY <1>2, <2>1, OpenStates
  <2>5. \A j \in batch : KeyOf[j] # NoKey =>
          /\ \A i \in Job : Contract!Owns(i) => KeyOf[i] # KeyOf[j]
          /\ \A i \in batch : i # j => KeyOf[i] # KeyOf[j]
    BY <1>8, ContractOwners DEF Starts
  <2>6. Contract!Begin(batch)
    BY <2>2, <2>3, <2>4, <2>5 DEF Contract!Begin
  <2>7. QED
    BY <2>6 DEF Contract!Next
<1>10. ASSUME NEW c \in Job, Enters({}, c)
       PROVE  [Contract!Next]_(Contract!vars)
  <2>1. PICK parents \in SUBSET Job : parents = {}
    OBVIOUS
  <2>2. Enters(parents, c)
    BY <1>10, <2>1
  <2>3. old[c] = "none" /\ new = [ old EXCEPT ![c] = "ready" ]
    <3>1. StatusOf(c) = "none" /\ StatusOf(c)' = "ready"
      BY <2>2, EntersContract
    <3>2. \A j \in Job \ (parents \cup { c }) : StatusOf(j)' = StatusOf(j)
      BY <2>2, EntersContract
    <3>3. QED
      BY <2>1, <3>1, <3>2
  <2>4. next = needs
    <3>1. deps' = deps
      BY <1>10 DEF Enters
    <3>2. \A e \in deps : row'[e[1]].state \in Open <=> row[e[1]].state \in Open
      BY <2>2, EntersContract
    <3>3. QED
      BY <3>1, <3>2
  <2>5. Contract!Enter(c)
    BY <2>3, <2>4 DEF Contract!Enter
  <2>6. QED
    BY <2>5 DEF Contract!Next
<1>11. ASSUME NEW c \in Job, NEW p \in Job, Enters({ p }, c)
       PROVE  [Contract!Next]_(Contract!vars)
  <2>1. PICK parents \in SUBSET Job : parents = { p }
    OBVIOUS
  <2>2. Enters(parents, c)
    BY <1>11, <2>1
  <2>3. /\ StatusOf(c) = "none" /\ StatusOf(c)' = "ready"
        /\ p # c /\ StatusOf(p) = "active" /\ StatusOf(p)' = "parked"
        /\ \A j \in Job \ { p, c } : StatusOf(j)' = StatusOf(j)
    <3>1. StatusOf(c) = "none" /\ StatusOf(c)' = "ready"
      BY <2>2, EntersContract
    <3>2. \A q \in parents : q # c /\ StatusOf(q) = "active" /\ StatusOf(q)' = "parked"
      BY <2>2, EntersContract
    <3>3. \A j \in Job \ (parents \cup { c }) : StatusOf(j)' = StatusOf(j)
      BY <2>2, EntersContract
    <3>4. QED
      BY <2>1, <3>1, <3>2, <3>3
  <2>4. new = [ old EXCEPT ![p] = "parked", ![c] = "ready" ]
    BY <2>3
  <2>5. next = needs \cup { << p, c >> }
    <3>1. deps' = deps \cup { << p, c >> }
      BY <1>11 DEF Enters
    <3>2. \A e \in deps : row'[e[1]].state \in Open <=> row[e[1]].state \in Open
      BY <2>2, EntersContract
    <3>3. row'[p].state \in Open
      BY <2>1, <2>2, EntersContract
    <3>4. QED
      BY <3>1, <3>2, <3>3
  <2>6. Contract!Park(p, c)
    BY <2>3, <2>4, <2>5 DEF Contract!Park
  <2>7. QED
    BY <2>6 DEF Contract!Next
<1>12. QED
  BY <1>4, <1>5, <1>6, <1>7, <1>8, <1>10, <1>11 DEF CalmEffect

LEMMA ContractInit == Init => Contract!Init
<1> SUFFICES ASSUME Init
             PROVE  Contract!Init
  OBVIOUS
<1>1. Created = {} /\ deps = {} /\ \A j \in Job : row[j].state = Gone
  BY BlankType DEF Init, NoRows, Created
<1>2. \A j \in Job : StatusOf(j) = "none"
  BY <1>1 DEF StatusOf, Exists, IsTerminal, Terminal, Gone
<1>3. QED
  BY <1>1, <1>2 DEF Contract!Init

\* In the calm regime the engine implements JobContract: keys are taken only
\* when free and kept as long as promised, parents wait for their children,
\* nothing settles twice, across lost writes and restarts.
THEOREM EngineKeepsContract == Calm => (Spec => KeepsContract)
<1> SUFFICES ASSUME Calm
             PROVE  Spec => KeepsContract
  OBVIOUS
<1>1. /\ TypeInv /\ CalmInv /\ TreeInv /\ TypeInv' /\ CalmInv' /\ TreeInv' /\ [Next]_vars
        => [ Undisturbed' => Contract!Next \/ UNCHANGED Contract!vars ]_vars
  BY TreeNext, EffectsKeepContract
<1>2. QED
  BY <1>1, ContractInit, CalmTrees, PTL DEF Spec, KeepsContract
===============================================================================
