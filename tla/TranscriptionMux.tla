-------------------------- MODULE TranscriptionMux --------------------------
(***************************************************************************)
(* From captured speech to transcript for one transcription source: the     *)
(* audio_segment jobs that create slots, the transcription_mux_plan jobs    *)
(* that batch them, the transcription_mux jobs that send a batch to the     *)
(* provider, wake activations that promote slots, and the maintenance pass  *)
(* that repairs what was left behind.  Every step is a transaction or a     *)
(* provider call.  Of the job engine the module keeps the claim, the        *)
(* planner's ordering key, the mux lane's permits and the stale sweep.      *)
(***************************************************************************)
EXTENDS MuxBatch

CONSTANTS
    Segment,     \* captured segments; each has one audio_segment job and one slot
    Mux,         \* ids of transcription_mux jobs, reused once settled
    Planner,     \* permits that run plan jobs
    MaxStreams,  \* transcription.mux_provider_streams
    BatchDelay,  \* transcription.mux_batch_delay_ms > 0
    MaxFaults,   \* bound on retryable provider errors, failed transactions, lost
                 \* writes and restarts
    Window,      \* the segments that overlap the wake activation's window
    None

ASSUME MuxAssumption ==
    /\ MaxStreams \in Nat \ { 0 }
    /\ IsFiniteSet(Mux)
    /\ BatchDelay \in BOOLEAN
    /\ Window \subseteq Segment
    /\ MaxFaults \in Nat
    /\ None \notin Segment \cup Mux

VARIABLES
    audio,    \* [Segment -> its job's row, and where its worker is]
    slot,     \* [Segment -> Slot]
    created,  \* slots in the order of their creation
    events,   \* [Segment -> speech events appended for it]
    plan,     \* the row of the source's plan job
    planner,  \* [Planner -> what the worker does]
    mux,      \* [Mux -> state of the job's row]
    muxer,    \* [Mux -> what its worker does]
    wake,     \* the wake activation
    faults,   \* faults so far
    overlap   \* history: two planners have worked at the same time

vars == << audio, slot, created, events, plan, planner, mux, muxer, wake, faults,
           overlap >>

\* hurry: about to write the plan job's row that it has read back without its delay.
AudioState ==
    { "queued", "ensure", "ensure_now", "hurry", "lost", "complete", "failed",
      "failed_retryable" }

\* A slot or an audio job that failed with a retryable error is told apart.  The
\* fields of a slot that will not be sent again are never read and have no value.
Slot == [ state  : { "none", "queued", "planned", "muxing", "complete", "failed",
                     "failed_retryable" },
          mux    : Mux \cup { None },
          single : BOOLEAN,
          urgent : BOOLEAN ]

\* A delayed row is a queued one with a next_run_at.
PlanState == { "none", "queued", "delayed", "running" }

PlanWorker == [ pc : { "idle", "count", "commit", "done" }, active : Nat ]

\* A settled row that no slot refers to is none.
MuxState == { "none", "queued", "running", "complete", "failed" }

MuxWorker ==
    [ pc : { "idle", "start", "call", "assign", "append", "record", "ensure", "hurry",
             "complete", "fail", "requeue" },
      batch : SUBSET Segment,
      current : Segment \cup { None } ]

WakeState == { "closed", "hurry", "open" }

NoSlot == [ state |-> "none", mux |-> None, single |-> FALSE, urgent |-> FALSE ]
Settled(state) == [ NoSlot EXCEPT !.state = state ]
IdlePlanner == [ pc |-> "idle", active |-> 0 ]
IdleMuxer == [ pc |-> "idle", batch |-> {}, current |-> None ]

InSlot(state) == { s \in Segment : slot[s].state = state }
SlotsOf(m) ==
    { s \in Segment : slot[s].mux = m /\ slot[s].state \in { "planned", "muxing" } }

---------------------------------------------------------------------------
(***************************************************************************)
(* ensure_transcription_mux_plan_job: when slots wait, create the plan job, *)
(* or write the one that was read back without its delay in a step of its   *)
(* own.  Reading and creating are one step here: two callers could create   *)
(* two jobs, which their ordering key would run one after the other.        *)
(***************************************************************************)

MustHurry(now) == now /\ InSlot("queued") # {} /\ plan = "delayed"

Ensured(now) ==
    IF InSlot("queued") # {} /\ plan = "none"
    THEN IF now THEN "queued" ELSE "delayed"
    ELSE plan

---------------------------------------------------------------------------
(***************************************************************************)
(* audio_segment jobs and wake activations.                                 *)
(***************************************************************************)

AudioWorks(s) == audio[s] \in { "ensure", "ensure_now", "hurry" }

Urgent(s) == wake # "closed" /\ s \in Window

\* One slot for one job (ON CONFLICT DO NOTHING), urgent during a wake activation.
MakeSlot(s) ==
    /\ audio[s] = "queued" /\ events[s] = 0
    /\ IF slot[s].state = "none"
       THEN /\ slot' = [ slot EXCEPT ![s] =
                  [ state |-> "queued", mux |-> None, single |-> FALSE,
                    urgent |-> Urgent(s) ] ]
            /\ created' = Append(created, s)
       ELSE UNCHANGED << slot, created >>
    /\ audio' = [ audio EXCEPT ![s] =
            IF Urgent(s) \/ ~BatchDelay THEN "ensure_now" ELSE "ensure" ]
    /\ UNCHANGED << events, plan, planner, mux, muxer, wake, faults, overlap >>

\* Speech that has its event, or no valid recording, makes no slot.
SkipAudio(s) ==
    /\ audio[s] = "queued"
    /\ audio' = [ audio EXCEPT ![s] = IF events[s] > 0 THEN "complete" ELSE "failed" ]
    /\ UNCHANGED << slot, created, events, plan, planner, mux, muxer, wake, faults,
                    overlap >>

EnsureAudio(s) ==
    LET now == audio[s] = "ensure_now"
    IN  /\ audio[s] \in { "ensure", "ensure_now" }
        /\ plan' = Ensured(now)
        /\ audio' = [ audio EXCEPT ![s] = IF MustHurry(now) THEN "hurry" ELSE "complete" ]
        /\ UNCHANGED << slot, created, events, planner, mux, muxer, wake, faults,
                        overlap >>

HurryAudio(s) ==
    /\ audio[s] = "hurry"
    /\ plan' = "queued"
    /\ audio' = [ audio EXCEPT ![s] = "complete" ]
    /\ UNCHANGED << slot, created, events, planner, mux, muxer, wake, faults, overlap >>

\* A wake activation promotes the queued slots in its window, and has them planned.
Wake ==
    LET promoted == Window \cap InSlot("queued")
    IN  /\ wake = "closed"
        /\ slot' = [ s \in Segment |->
             IF s \in promoted THEN [ slot[s] EXCEPT !.urgent = TRUE ] ELSE slot[s] ]
        /\ plan' = IF promoted # {} THEN Ensured(TRUE) ELSE plan
        /\ wake' = IF MustHurry(promoted # {}) THEN "hurry" ELSE "open"
        /\ UNCHANGED << audio, created, events, planner, mux, muxer, faults, overlap >>

HurryWake ==
    /\ wake = "hurry"
    /\ plan' = "queued"
    /\ wake' = "open"
    /\ UNCHANGED << audio, slot, created, events, planner, mux, muxer, faults, overlap >>

---------------------------------------------------------------------------
(***************************************************************************)
(* transcription_mux_plan jobs.  The streams are counted before the slots   *)
(* are selected and locked.                                                 *)
(***************************************************************************)

ActiveStreams == { m \in Mux : mux[m] \in { "queued", "running" } /\ SlotsOf(m) # {} }

\* Ids no row, slot or worker refers to.
FreshMux == { m \in Mux : mux[m] = "none" /\ muxer[m].pc = "idle" }

\* Plan jobs of one source share an ordering key.
ClaimPlan(w) ==
    /\ planner[w].pc = "idle"
    /\ plan \in { "queued", "delayed" }
    /\ plan' = "running"
    /\ planner' = [ planner EXCEPT ![w] = [ pc |-> "count", active |-> 0 ] ]
    /\ overlap' = (overlap \/ \E v \in Planner : planner[v].pc # "idle")
    /\ UNCHANGED << audio, slot, created, events, mux, muxer, wake, faults >>

PlanCount(w) ==
    /\ planner[w].pc = "count"
    /\ planner' = [ planner EXCEPT ![w] =
            [ pc |-> "commit", active |-> Cardinality(ActiveStreams) ] ]
    /\ UNCHANGED << audio, slot, created, events, plan, mux, muxer, wake, faults,
                    overlap >>

Queue == SelectSeq(created, LAMBDA s : slot[s].state = "queued")

NextBatch(queue) ==
    Batch(queue, { s \in Segment : slot[s].urgent }, { s \in Segment : slot[s].single })

\* What waits after n batches have been taken.
Rest[n \in 0 .. MaxStreams] ==
    IF n = 0 THEN Queue
    ELSE LET taken == ToSet(NextBatch(Rest[n - 1]))
         IN  SelectSeq(Rest[n - 1], LAMBDA s : s \notin taken)

\* mark_transcription_slots_planned, for the i-th batch with the id of its new job.
PlanBatches(id) ==
    LET Taken(i) == ToSet(NextBatch(Rest[i - 1])) \cap InSlot("queued")
    IN  /\ slot' = [ s \in Segment |->
             IF \E i \in DOMAIN id : s \in Taken(i)
             THEN [ slot[s] EXCEPT !.state = "planned",
                      !.mux = id[CHOOSE i \in DOMAIN id : s \in Taken(i)] ]
             ELSE slot[s] ]
        /\ mux' = [ m \in Mux |-> IF m \in Range(id) THEN "queued" ELSE mux[m] ]

\* A first stream is started at once, another one when slots would be late.
PlanCommit(w) ==
    /\ planner[w].pc = "commit"
    /\ \E n \in 0 .. MaxStreams :
         /\ n + planner[w].active <= MaxStreams \/ n = 0
         /\ planner[w].active = 0 /\ Queue # << >> => n > 0
         /\ \A i \in 1 .. n : Rest[i - 1] # << >>
         /\ \E id \in Injection(1 .. n, FreshMux) : PlanBatches(id)
    /\ planner' = [ planner EXCEPT ![w] = [ IdlePlanner EXCEPT !.pc = "done" ] ]
    /\ UNCHANGED << audio, created, events, plan, muxer, wake, faults, overlap >>

\* complete_dispatched_job leaves a row alone that was written back to queued.
PlanDone(w) ==
    /\ planner[w].pc = "done"
    /\ plan' = IF plan = "running" THEN "none" ELSE plan
    /\ planner' = [ planner EXCEPT ![w] = IdlePlanner ]
    /\ UNCHANGED << audio, slot, created, events, mux, muxer, wake, faults, overlap >>

---------------------------------------------------------------------------
(***************************************************************************)
(* transcription_mux jobs.                                                  *)
(***************************************************************************)

MoveMuxer(m, pc) == muxer' = [ muxer EXCEPT ![m].pc = pc ]
LeaveBatch(m, pc) == muxer' = [ muxer EXCEPT ![m] = [ IdleMuxer EXCEPT !.pc = pc ] ]

ClaimMux(m) ==
    /\ mux[m] = "queued" /\ muxer[m].pc = "idle"
    /\ Cardinality({ n \in Mux : muxer[n].pc # "idle" }) < MaxStreams
    /\ mux' = [ mux EXCEPT ![m] = "running" ]
    /\ MoveMuxer(m, "start")
    /\ UNCHANGED << audio, slot, created, events, plan, planner, wake, faults, overlap >>

\* A retried job finds its slots muxing; a new one takes the planned ones.
Start(m) ==
    LET existing == { s \in SlotsOf(m) : slot[s].state = "muxing" }
        batch    == IF existing # {} THEN existing ELSE SlotsOf(m)
    IN  /\ muxer[m].pc = "start"
        /\ slot' = [ s \in Segment |->
             IF s \in batch THEN [ slot[s] EXCEPT !.state = "muxing" ] ELSE slot[s] ]
        /\ muxer' = [ muxer EXCEPT ![m] =
             [ pc |-> IF batch = {} THEN "complete" ELSE "call", batch |-> batch,
               current |-> None ] ]
        /\ UNCHANGED << audio, created, events, plan, planner, mux, wake, faults,
                        overlap >>

\* fail_transcription_slots_for_mux; the text of the error decides about a retry.
FailSlots(m) ==
    \E state \in { "failed", "failed_retryable" } :
        /\ slot' = [ s \in Segment |->
             IF s \notin SlotsOf(m) THEN slot[s]
             ELSE IF state = "failed" THEN Settled(state)
             ELSE [ slot[s] EXCEPT !.state = state, !.mux = None ] ]
        /\ \/ state = "failed" /\ UNCHANGED faults
           \/ state = "failed_retryable" /\ faults < MaxFaults /\ faults' = faults + 1
        /\ LeaveBatch(m, "fail")

\* requeue_transcription_slots_as_single_slot_muxes.
Replan(m) ==
    /\ slot' = [ s \in Segment |->
         IF s \in SlotsOf(m)
         THEN [ slot[s] EXCEPT !.state = "queued", !.mux = None, !.single = TRUE ]
         ELSE slot[s] ]
    /\ LeaveBatch(m, IF SlotsOf(m) = {} THEN "fail" ELSE "ensure")
    /\ UNCHANGED faults

\* The provider fails for now or for good, answers with timestamps or nothing, or
\* with a text nobody can attribute; what follows is written at once.
Call(m) ==
    /\ muxer[m].pc = "call"
    /\ \/ /\ faults < MaxFaults
          /\ LeaveBatch(m, "requeue")
          /\ faults' = faults + 1
          /\ UNCHANGED slot
       \/ FailSlots(m)
       \/ /\ MoveMuxer(m, "assign")
          /\ UNCHANGED << slot, faults >>
       \/ /\ Cardinality(muxer[m].batch) > 1
          /\ IF \E s \in muxer[m].batch : slot[s].single THEN FailSlots(m) ELSE Replan(m)
    /\ UNCHANGED << audio, created, events, plan, planner, mux, wake, overlap >>

\* complete_transcription_slot asks neither for the slot's state nor for its job.
Completed(s) == [ slot EXCEPT ![s] = Settled("complete") ]

\* The slots of a batch come in the order of their creation.
FirstOf(batch) ==
    LET rest == SelectSeq(created, LAMBDA s : s \in batch)
    IN  { s \in batch : rest[1] = s }

\* Mutant: the event is appended without a look at what is there.
AssignUnchecked(m) ==
    /\ muxer[m].pc = "assign"
    /\ \/ /\ muxer[m].batch = {}
          /\ LeaveBatch(m, "ensure")
          /\ UNCHANGED slot
       \/ \E s \in FirstOf(muxer[m].batch) :
            \/ /\ slot' = Completed(s)
               /\ muxer' = [ muxer EXCEPT ![m].batch = @ \ { s } ]
            \/ /\ muxer' = [ muxer EXCEPT ![m] =
                    [ pc |-> "append", batch |-> muxer[m].batch, current |-> s ] ]
               /\ UNCHANGED slot
    /\ UNCHANGED << audio, created, events, plan, planner, mux, wake, faults, overlap >>

\* Slot by slot: nothing said, already transcribed, or a new event.
Assign(m) ==
    /\ muxer[m].pc = "assign"
    /\ \/ /\ muxer[m].batch = {}
          /\ LeaveBatch(m, "ensure")
          /\ UNCHANGED slot
       \/ \E s \in FirstOf(muxer[m].batch) :
            \/ /\ slot' = Completed(s)
               /\ muxer' = [ muxer EXCEPT ![m].batch = @ \ { s } ]
            \/ /\ events[s] = 0
               /\ muxer' = [ muxer EXCEPT ![m] =
                    [ pc |-> "append", batch |-> muxer[m].batch, current |-> s ] ]
               /\ UNCHANGED slot
    /\ UNCHANGED << audio, created, events, plan, planner, mux, wake, faults, overlap >>

AppendEvent(m) ==
    /\ muxer[m].pc = "append"
    /\ events' = [ events EXCEPT ![muxer[m].current] = @ + 1 ]
    /\ MoveMuxer(m, "record")
    /\ UNCHANGED << audio, slot, created, plan, planner, mux, wake, faults, overlap >>

Record(m) ==
    /\ muxer[m].pc = "record"
    /\ slot' = Completed(muxer[m].current)
    /\ muxer' = [ muxer EXCEPT ![m] =
         [ pc |-> "assign", batch |-> muxer[m].batch \ { muxer[m].current },
           current |-> None ] ]
    /\ UNCHANGED << audio, created, events, plan, planner, mux, wake, faults, overlap >>

EnsureMux(m) ==
    /\ muxer[m].pc = "ensure"
    /\ plan' = Ensured(TRUE)
    /\ MoveMuxer(m, IF MustHurry(TRUE) THEN "hurry" ELSE "complete")
    /\ UNCHANGED << audio, slot, created, events, planner, mux, wake, faults, overlap >>

HurryMux(m) ==
    /\ muxer[m].pc = "hurry"
    /\ plan' = "queued"
    /\ MoveMuxer(m, "complete")
    /\ UNCHANGED << audio, slot, created, events, planner, mux, wake, faults, overlap >>

\* complete_, fail_ and requeue_dispatched_job.
MuxDone(m) ==
    /\ muxer[m].pc \in { "complete", "fail", "requeue" }
    /\ mux' = [ mux EXCEPT ![m] =
         CASE muxer[m].pc = "requeue" -> "queued"
           [] SlotsOf(m) = {}         -> "none"
           [] muxer[m].pc = "fail"    -> "failed"
           [] OTHER                   -> "complete" ]
    /\ muxer' = [ muxer EXCEPT ![m] = IdleMuxer ]
    /\ UNCHANGED << audio, slot, created, events, plan, planner, wake, faults, overlap >>

---------------------------------------------------------------------------
(***************************************************************************)
(* The maintenance pass.  Its transactions carry nothing from one to the    *)
(* next and are one step.                                                   *)
(***************************************************************************)

AbandonedAudio == { s \in Segment : audio[s] = "lost" }
AbandonedMux == { m \in Mux : mux[m] = "running" /\ muxer[m].pc = "idle" }
PlanAbandoned == plan = "running" /\ \A w \in Planner : planner[w].pc = "idle"

Requeued(s) == [ slot[s] EXCEPT !.state = "queued", !.mux = None ]

\* Mutant: slots under way are taken back whether or not their job is over.
RepairedEarly(s, timedOut) ==
    IF slot[s].state \in { "planned", "muxing", "failed_retryable" } THEN Requeued(s)
    ELSE slot[s]

\* Mutant: slots whose job failed before it could say so are not looked at.
RepairedTimeouts(s, timedOut) ==
    IF slot[s].mux \in timedOut \/ slot[s].state = "failed_retryable" THEN Requeued(s)
    ELSE slot[s]

\* recover_abandoned_transcription_slots, by how the slot's job ended, and
\* requeue_retryable_failed_transcription_slots.
Repaired(s, timedOut) ==
    IF slot[s].state \in { "planned", "muxing" }
    THEN CASE slot[s].mux \in timedOut -> Requeued(s)
           [] mux[slot[s].mux] \in { "complete", "failed" } -> Settled("failed")
           [] OTHER -> slot[s]
    ELSE IF slot[s].state = "failed_retryable" THEN Requeued(s)
    ELSE slot[s]

\* What no worker serves is swept once it is old; audio jobs that timed out or failed
\* for now run again.  A pass with nothing to repair or to plan changes nothing.
Maintain(old) ==
    LET lost     == IF old THEN AbandonedAudio ELSE {}
        again    == lost \cup { s \in Segment : audio[s] = "failed_retryable" }
        timedOut == IF old THEN AbandonedMux ELSE {}
        swept    == old /\ PlanAbandoned
    IN  /\ slot' = [ s \in Segment |-> Repaired(s, timedOut) ]
        /\ mux' = [ m \in Mux |-> IF m \in timedOut \/ mux[m] \in { "complete", "failed" }
                                  THEN "none" ELSE mux[m] ]
        /\ audio' = [ s \in Segment |-> IF s \in again THEN "queued" ELSE audio[s] ]
        /\ plan' = IF \E s \in Segment : slot'[s].state = "queued"
                   THEN IF swept \/ plan = "none"
                        THEN IF BatchDelay THEN "delayed" ELSE "queued"
                        ELSE plan
                   ELSE IF swept THEN "none" ELSE plan
        /\ IF old
           THEN swept \/ lost \cup timedOut # {}
           ELSE << audio', slot', plan' >> # << audio, slot, plan >>
        /\ UNCHANGED << created, events, planner, muxer, wake, faults, overlap >>

---------------------------------------------------------------------------
(***************************************************************************)
(* Faults.                                                                  *)
(***************************************************************************)

\* A transaction of a handler fails: the job fails where it is.
AbortMux(m) ==
    /\ faults < MaxFaults
    /\ muxer[m].pc \in { "start", "call", "assign", "append", "record", "ensure", "hurry" }
    /\ LeaveBatch(m, "fail")
    /\ faults' = faults + 1
    /\ UNCHANGED << audio, slot, created, events, plan, planner, mux, wake, overlap >>

AbortAudio(s) ==
    /\ faults < MaxFaults
    /\ AudioWorks(s)
    /\ \E state \in { "failed", "failed_retryable" } :
         audio' = [ audio EXCEPT ![s] = state ]
    /\ faults' = faults + 1
    /\ UNCHANGED << slot, created, events, plan, planner, mux, muxer, wake, overlap >>

\* The write of a decision is lost: the row stays running.
LoseMux(m) ==
    /\ faults < MaxFaults
    /\ muxer[m].pc \in { "complete", "fail", "requeue" }
    /\ muxer' = [ muxer EXCEPT ![m] = IdleMuxer ]
    /\ faults' = faults + 1
    /\ UNCHANGED << audio, slot, created, events, plan, planner, mux, wake, overlap >>

LosePlan(w) ==
    /\ faults < MaxFaults
    /\ planner[w].pc = "done"
    /\ planner' = [ planner EXCEPT ![w] = IdlePlanner ]
    /\ faults' = faults + 1
    /\ UNCHANGED << audio, slot, created, events, plan, mux, muxer, wake, overlap >>

Restart ==
    /\ faults < MaxFaults
    /\ audio' = [ s \in Segment |-> IF AudioWorks(s) THEN "lost" ELSE audio[s] ]
    /\ planner' = [ w \in Planner |-> IdlePlanner ]
    /\ muxer' = [ m \in Mux |-> IdleMuxer ]
    /\ wake' = IF wake = "hurry" THEN "open" ELSE wake
    /\ faults' = faults + 1
    /\ UNCHANGED << slot, created, events, plan, mux, overlap >>

---------------------------------------------------------------------------
Init ==
    /\ audio = [ s \in Segment |-> "queued" ]
    /\ slot = [ s \in Segment |-> NoSlot ]
    /\ created = << >>
    /\ events = [ s \in Segment |-> 0 ]
    /\ plan = "none"
    /\ planner = [ w \in Planner |-> IdlePlanner ]
    /\ mux = [ m \in Mux |-> "none" ]
    /\ muxer = [ m \in Mux |-> IdleMuxer ]
    /\ wake = "closed"
    /\ faults = 0
    /\ overlap = FALSE

AudioStep(s) == MakeSlot(s) \/ SkipAudio(s) \/ EnsureAudio(s) \/ HurryAudio(s)
PlanStep(w) == ClaimPlan(w) \/ PlanCount(w) \/ PlanCommit(w) \/ PlanDone(w)
MuxStep(m) ==
    \/ ClaimMux(m) \/ Start(m) \/ Call(m) \/ Assign(m) \/ AppendEvent(m) \/ Record(m)
    \/ EnsureMux(m) \/ HurryMux(m) \/ MuxDone(m)

Next ==
    \/ \E s \in Segment : AudioStep(s) \/ AbortAudio(s)
    \/ \E w \in Planner : PlanStep(w) \/ LosePlan(w)
    \/ \E m \in Mux : MuxStep(m) \/ AbortMux(m) \/ LoseMux(m)
    \/ Wake \/ HurryWake
    \/ \E old \in BOOLEAN : Maintain(old)
    \/ Restart

Spec == Init /\ [][Next]_vars

\* Workers go on, passes come again, and abandoned rows grow old.
Fairness ==
    /\ \A s \in Segment : WF_vars(AudioStep(s))
    /\ \A w \in Planner : WF_vars(PlanStep(w))
    /\ \A m \in Mux : WF_vars(MuxStep(m))
    /\ WF_vars(Maintain(FALSE)) /\ SF_vars(Maintain(TRUE))

FairSpec == Spec /\ Fairness

---------------------------------------------------------------------------
(***************************************************************************)
(* Properties.                                                              *)
(***************************************************************************)

\* Every variable has its type.
TypeOK ==
    /\ audio \in [Segment -> AudioState]
    /\ slot \in [Segment -> Slot]
    /\ created \in Seq(Segment)
    /\ events \in [Segment -> Nat]
    /\ plan \in PlanState
    /\ planner \in [Planner -> PlanWorker]
    /\ mux \in [Mux -> MuxState]
    /\ muxer \in [Mux -> MuxWorker]
    /\ wake \in WakeState
    /\ faults \in Nat
    /\ overlap \in BOOLEAN

\* What a worker sends to the provider are slots that are muxing under its own job, and
\* the job's row is running: nobody took them back, failed them or planned them again
\* behind its back (start_transcription_slots_for_mux,
\* recover_abandoned_transcription_slots).
WorkersHoldTheirSlots ==
    \A m \in Mux :
        /\ muxer[m].pc # "idle" => mux[m] = "running"
        /\ \A s \in muxer[m].batch : slot[s].state = "muxing" /\ slot[s].mux = m

\* No recording is in the batches of two workers at once, whatever was retried,
\* recovered or planned again (execute_transcription_mux_job).
BatchesDisjoint ==
    \A m, n \in Mux : m # n => muxer[m].batch \cap muxer[n].batch = {}

\* As long as plan jobs follow one another, no more batches are under way than the
\* provider has streams: they are counted before the slots are selected, and until the
\* commit streams can only end (plan_transcription_mux_jobs).
StreamsWithinLimit == overlap \/ Cardinality(ActiveStreams) <= MaxStreams

\* A segment gets at most one speech event, also when its batch is sent again after
\* a crash between the event and the slot (execute_transcription_mux_job).
OneEventPerSegment == \A s \in Segment : events[s] <= 1

\* A transcribed slot stays transcribed: no recovery, retry or late answer takes it
\* back (complete_transcription_slot, recover_abandoned_transcription_slots).
CompleteIsFinal ==
    [][ \A s \in Segment : slot[s].state = "complete" => slot'[s].state = "complete" ]_vars

\* Every captured segment is transcribed or fails for good, through provider errors,
\* lost jobs and restarts (prepare_runtime_maintenance_job).
SpeechSettles ==
    \A s \in Segment :
        <>[]( \/ slot[s].state \in { "complete", "failed" }
              \/ audio[s] = "failed" /\ slot[s].state = "none" )
=============================================================================
