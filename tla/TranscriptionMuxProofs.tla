------------------------ MODULE TranscriptionMuxProofs ------------------------
(***************************************************************************)
(* What a worker sends is its own, a segment is heard once, a transcribed   *)
(* slot stays transcribed, and a single planner keeps to the provider's     *)
(* streams: proved for any number of segments, jobs, planners, faults and   *)
(* any way of choosing batches.                                             *)
(***************************************************************************)
EXTENDS TranscriptionMux, FiniteSetTheorems, FunctionTheorems, TLAPS

Sending == { "call", "assign", "append", "record" }

\* A worker has slots only between their start and their end, and the slot it is at is
\* one of them.
BatchWhileSending ==
    \A m \in Mux :
        /\ muxer[m].pc \notin Sending => muxer[m].batch = {}
        /\ muxer[m].pc \in { "append", "record" } => muxer[m].current \in muxer[m].batch

\* Nobody has appended the event that a worker is about to append.
AboutToAppend ==
    \A m \in Mux : muxer[m].pc = "append" => events[muxer[m].current] = 0

Inv ==
    /\ TypeOK
    /\ WorkersHoldTheirSlots
    /\ BatchWhileSending
    /\ OneEventPerSegment
    /\ AboutToAppend

---------------------------------------------------------------------------
\* What the writes of a slot's row make of it.
LEMMA SlotWrites ==
    /\ NoSlot \in Slot
    /\ \A state \in { "complete", "failed" } : Settled(state) \in Slot
    /\ \A x \in Slot :
         /\ [ x EXCEPT !.urgent = TRUE ] \in Slot
         /\ [ x EXCEPT !.state = "muxing" ] \in Slot
         /\ [ x EXCEPT !.state = "queued", !.mux = None ] \in Slot
         /\ [ x EXCEPT !.state = "failed_retryable", !.mux = None ] \in Slot
         /\ [ x EXCEPT !.state = "queued", !.mux = None, !.single = TRUE ] \in Slot
         /\ \A m \in Mux : [ x EXCEPT !.state = "planned", !.mux = m ] \in Slot
<1>1. NoSlot \in Slot
  BY DEF NoSlot, Slot
<1>2. \A state \in { "complete", "failed" } : Settled(state) \in Slot
  BY DEF NoSlot, Settled, Slot
<1>3. ASSUME NEW x \in Slot PROVE [ x EXCEPT !.urgent = TRUE ] \in Slot
  BY <1>3 DEF Slot
<1>4. ASSUME NEW x \in Slot PROVE [ x EXCEPT !.state = "muxing" ] \in Slot
  BY <1>4 DEF Slot
<1>5. ASSUME NEW x \in Slot, NEW m \in Mux \cup { None },
             NEW state \in { "queued", "planned", "failed_retryable" }
      PROVE  [ x EXCEPT !.state = state, !.mux = m ] \in Slot
  <2>1. [ x EXCEPT !.state = state ] \in Slot
    BY <1>5 DEF Slot
  <2>2. [ [ x EXCEPT !.state = state ] EXCEPT !.mux = m ] \in Slot
    BY <2>1 DEF Slot
  <2> QED BY <2>2
<1>6. ASSUME NEW x \in Slot
      PROVE  [ x EXCEPT !.state = "queued", !.mux = None, !.single = TRUE ] \in Slot
  <2>1. [ x EXCEPT !.state = "queued", !.mux = None ] \in Slot
    BY <1>5
  <2>2. [ [ x EXCEPT !.state = "queued", !.mux = None ] EXCEPT !.single = TRUE ] \in Slot
    BY <2>1 DEF Slot
  <2> QED BY <2>2
<1> QED BY <1>1, <1>2, <1>3, <1>4, <1>5, <1>6

LEMMA InitInv == Init => Inv
<1> SUFFICES ASSUME Init PROVE Inv
  OBVIOUS
<1> USE DEF Init
<1>1. slot \in [Segment -> Slot]
  BY SlotWrites
<1>2. IdleMuxer \in MuxWorker /\ IdlePlanner \in PlanWorker
  BY DEF IdleMuxer, MuxWorker, IdlePlanner, PlanWorker
<1>3. created \in Seq(Segment)
  OBVIOUS
<1>4. TypeOK
  BY <1>1, <1>2, <1>3 DEF TypeOK, AudioState, PlanState, MuxState, WakeState
<1>5. WorkersHoldTheirSlots /\ BatchWhileSending /\ AboutToAppend
  BY DEF WorkersHoldTheirSlots, BatchWhileSending, AboutToAppend, IdleMuxer, Sending
<1>6. OneEventPerSegment
  BY DEF OneEventPerSegment
<1> QED BY <1>4, <1>5, <1>6 DEF Inv

---------------------------------------------------------------------------
\* A plan job that a caller ensures has a state, and so has the plan job's row.
LEMMA EnsuredType == TypeOK => \A now \in BOOLEAN : Ensured(now) \in PlanState
  BY DEF TypeOK, Ensured, PlanState

\* Moving a worker on, or taking its batch away, keeps its type.
LEMMA MuxerWrites ==
    ASSUME TypeOK, NEW m \in Mux,
           NEW pc \in { "start", "assign", "record", "ensure", "hurry", "complete", "fail",
                         "requeue" }
    PROVE  /\ MoveMuxer(m, pc) => muxer' \in [Mux -> MuxWorker]
           /\ LeaveBatch(m, pc) => muxer' \in [Mux -> MuxWorker]
<1>1. [ muxer[m] EXCEPT !.pc = pc ] \in MuxWorker
  BY DEF TypeOK, MuxWorker
<1>2. [ IdleMuxer EXCEPT !.pc = pc ] \in MuxWorker
  BY DEF IdleMuxer, MuxWorker
<1>3. MoveMuxer(m, pc) => muxer' \in [Mux -> MuxWorker]
  BY <1>1 DEF TypeOK, MoveMuxer
<1>4. LeaveBatch(m, pc) => muxer' \in [Mux -> MuxWorker]
  BY <1>2 DEF TypeOK, LeaveBatch
<1> QED BY <1>3, <1>4

LEMMA AudioTypes == Inv /\ (\E s \in Segment : AudioStep(s) \/ AbortAudio(s)) => TypeOK'
<1> SUFFICES ASSUME Inv, NEW s \in Segment, AudioStep(s) \/ AbortAudio(s) PROVE TypeOK'
  OBVIOUS
<1> USE DEF Inv, TypeOK
<1>1. CASE MakeSlot(s)
  <2>1. [ state |-> "queued", mux |-> None, single |-> FALSE, urgent |-> Urgent(s) ] \in Slot
    <3>1. Urgent(s) \in BOOLEAN
      BY DEF Urgent
    <3> QED BY <3>1 DEF Slot
  <2>2. slot' \in [Segment -> Slot]
    BY <1>1, <2>1 DEF MakeSlot
  <2>3. created' \in Seq(Segment)
    <3>1. created' \in { Append(created, s), created }
      BY <1>1 DEF MakeSlot
    <3>2. created \in Seq(Segment) /\ Append(created, s) \in Seq(Segment)
      OBVIOUS
    <3> QED BY <3>1, <3>2
  <2>4. audio' \in [Segment -> AudioState]
    BY <1>1 DEF MakeSlot, AudioState
  <2> QED BY <1>1, <2>2, <2>3, <2>4 DEF MakeSlot
<1>2. CASE SkipAudio(s)
  BY <1>2 DEF SkipAudio, AudioState
<1>3. CASE EnsureAudio(s)
  <2>1. plan' \in PlanState
    BY <1>3, EnsuredType DEF EnsureAudio
  <2>2. audio' \in [Segment -> AudioState]
    BY <1>3 DEF EnsureAudio, AudioState
  <2> QED BY <1>3, <2>1, <2>2 DEF EnsureAudio
<1>4. CASE HurryAudio(s)
  BY <1>4 DEF HurryAudio, AudioState, PlanState
<1>5. CASE AbortAudio(s)
  BY <1>5 DEF AbortAudio, AudioState
<1> QED BY <1>1, <1>2, <1>3, <1>4, <1>5 DEF AudioStep

LEMMA WakeTypes == Inv /\ (Wake \/ HurryWake) => TypeOK'
<1> SUFFICES ASSUME Inv, Wake \/ HurryWake PROVE TypeOK'
  OBVIOUS
<1> USE DEF Inv, TypeOK
<1>1. CASE Wake
  <2>1. slot' \in [Segment -> Slot]
    BY <1>1, SlotWrites DEF Wake
  <2>2. plan' \in PlanState /\ wake' \in WakeState
    BY <1>1, EnsuredType DEF Wake, WakeState
  <2> QED BY <1>1, <2>1, <2>2 DEF Wake
<1>2. CASE HurryWake
  BY <1>2 DEF HurryWake, PlanState, WakeState
<1> QED BY <1>1, <1>2

\* Whatever is batched, only waiting slots are planned, under ids that are free.
LEMMA BatchesTaken ==
    ASSUME Inv, NEW n \in 0 .. MaxStreams, NEW id \in Injection(1 .. n, FreshMux),
           PlanBatches(id)
    PROVE  /\ slot' \in [Segment -> Slot]
           /\ mux' \in [Mux -> MuxState]
           /\ \A s \in Segment : slot[s].state # "queued" => slot'[s] = slot[s]
           /\ \A m \in Mux : mux'[m] = mux[m] \/ muxer[m].pc = "idle"
<1> DEFINE Taken(i) == ToSet(NextBatch(Rest[i - 1])) \cap InSlot("queued")
<1>1. id \in [1 .. n -> FreshMux] /\ DOMAIN id = 1 .. n
  BY DEF Injection, IsInjective
<1>2. slot' = [ s \in Segment |->
                 IF \E i \in DOMAIN id : s \in Taken(i)
                 THEN [ slot[s] EXCEPT !.state = "planned",
                          !.mux = id[CHOOSE i \in DOMAIN id : s \in Taken(i)] ]
                 ELSE slot[s] ]
  BY DEF PlanBatches
<1>3. \A i : Taken(i) \subseteq InSlot("queued")
  OBVIOUS
<1> HIDE DEF Taken
<1>4. ASSUME NEW s \in Segment PROVE slot'[s] \in Slot
  <2>1. CASE \E i \in DOMAIN id : s \in Taken(i)
    <3>1. PICK j \in DOMAIN id : j = CHOOSE i \in DOMAIN id : s \in Taken(i)
      BY <2>1
    <3>2. id[j] \in Mux
      BY <1>1, <3>1 DEF FreshMux
    <3> QED BY <1>2, <2>1, <3>1, <3>2, SlotWrites DEF Inv, TypeOK
  <2>2. CASE ~\E i \in DOMAIN id : s \in Taken(i)
    BY <1>2, <2>2 DEF Inv, TypeOK
  <2> QED BY <2>1, <2>2
<1>5. mux' \in [Mux -> MuxState]
  BY DEF PlanBatches, Inv, TypeOK, MuxState
<1>6. \A s \in Segment : slot[s].state # "queued" => slot'[s] = slot[s]
  BY <1>2, <1>3 DEF InSlot
<1>7. \A m \in Mux : mux'[m] = mux[m] \/ muxer[m].pc = "idle"
  <2>1. Range(id) \subseteq FreshMux
    BY <1>1 DEF Range
  <2> QED BY <2>1 DEF PlanBatches, FreshMux
<1> QED BY <1>2, <1>4, <1>5, <1>6, <1>7

LEMMA PlanTypes == Inv /\ (\E w \in Planner : PlanStep(w) \/ LosePlan(w)) => TypeOK'
<1> SUFFICES ASSUME Inv, NEW w \in Planner, PlanStep(w) \/ LosePlan(w) PROVE TypeOK'
  OBVIOUS
<1> USE DEF Inv, TypeOK
<1>1. CASE ClaimPlan(w)
  <2>1. overlap' \in BOOLEAN
    BY <1>1 DEF ClaimPlan
  <2>2. planner' \in [Planner -> PlanWorker]
    BY <1>1 DEF ClaimPlan, PlanWorker
  <2> QED BY <1>1, <2>1, <2>2 DEF ClaimPlan, PlanState
<1>2. CASE PlanCount(w)
  <2>1. Cardinality(ActiveStreams) \in Nat
    BY MuxAssumption, FS_Subset, FS_CardinalityType DEF ActiveStreams
  <2> QED BY <1>2, <2>1 DEF PlanCount, PlanWorker
<1>3. CASE PlanCommit(w)
  <2>1. slot' \in [Segment -> Slot] /\ mux' \in [Mux -> MuxState]
    BY <1>3, BatchesTaken DEF PlanCommit
  <2>2. [ IdlePlanner EXCEPT !.pc = "done" ] \in PlanWorker
    BY DEF IdlePlanner, PlanWorker
  <2> QED BY <1>3, <2>1, <2>2 DEF PlanCommit
<1>4. CASE PlanDone(w)
  BY <1>4 DEF PlanDone, PlanState, IdlePlanner, PlanWorker
<1>5. CASE LosePlan(w)
  BY <1>5 DEF LosePlan, IdlePlanner, PlanWorker
<1> QED BY <1>1, <1>2, <1>3, <1>4, <1>5 DEF PlanStep

\* What follows a call that failed, or whose text nobody can attribute.
LEMMA CallWrites ==
    ASSUME Inv, NEW m \in Mux
    PROVE  /\ FailSlots(m) => /\ slot' \in [Segment -> Slot] /\ faults' \in Nat
                              /\ LeaveBatch(m, "fail")
           /\ Replan(m) => /\ slot' \in [Segment -> Slot] /\ faults' \in Nat
                           /\ LeaveBatch(m, "fail") \/ LeaveBatch(m, "ensure")
           /\ FailSlots(m) \/ Replan(m)
                => \A s \in Segment : s \notin SlotsOf(m) => slot'[s] = slot[s]
<1> USE DEF Inv, TypeOK
<1>1. ASSUME FailSlots(m) PROVE slot' \in [Segment -> Slot]
  <2>1. PICK state \in { "failed", "failed_retryable" } :
          slot' = [ s \in Segment |->
             IF s \notin SlotsOf(m) THEN slot[s]
             ELSE IF state = "failed" THEN Settled(state)
             ELSE [ slot[s] EXCEPT !.state = state, !.mux = None ] ]
    BY <1>1 DEF FailSlots
  <2>2. ASSUME NEW s \in Segment PROVE slot'[s] \in Slot
    BY <2>1, SlotWrites
  <2> QED BY <2>1, <2>2
<1>2. ASSUME Replan(m) PROVE slot' \in [Segment -> Slot]
  BY <1>2, SlotWrites DEF Replan
<1>3. ASSUME FailSlots(m) PROVE faults' \in Nat /\ LeaveBatch(m, "fail")
  <2>1. faults' \in { faults, faults + 1 } /\ LeaveBatch(m, "fail")
    BY <1>3 DEF FailSlots
  <2> QED BY <2>1
<1>4. Replan(m) => /\ faults' \in Nat
                   /\ LeaveBatch(m, "fail") \/ LeaveBatch(m, "ensure")
  BY DEF Replan
<1>5. FailSlots(m) \/ Replan(m)
        => \A s \in Segment : s \notin SlotsOf(m) => slot'[s] = slot[s]
  BY DEF FailSlots, Replan
<1> QED BY <1>1, <1>2, <1>3, <1>4, <1>5

LEMMA MuxTypes ==
    Inv /\ (\E m \in Mux : MuxStep(m) \/ AbortMux(m) \/ LoseMux(m)) => TypeOK'
<1> SUFFICES ASSUME Inv, NEW m \in Mux, MuxStep(m) \/ AbortMux(m) \/ LoseMux(m)
             PROVE  TypeOK'
  OBVIOUS
<1> USE DEF Inv, TypeOK
<1>0. IdleMuxer \in MuxWorker /\ Settled("complete") \in Slot
  BY SlotWrites DEF IdleMuxer, MuxWorker
<1>1. CASE ClaimMux(m)
  BY <1>1, MuxerWrites DEF ClaimMux, MuxState
<1>2. CASE Start(m)
  <2>1. slot' \in [Segment -> Slot]
    BY <1>2, SlotWrites DEF Start
  <2>2. muxer' \in [Mux -> MuxWorker]
    BY <1>2 DEF Start, SlotsOf, MuxWorker
  <2> QED BY <1>2, <2>1, <2>2 DEF Start
<1>3. CASE Call(m)
  <2>1. slot' \in [Segment -> Slot] /\ faults' \in Nat
    BY <1>3, CallWrites DEF Call
  <2>2. muxer' \in [Mux -> MuxWorker]
    BY <1>3, CallWrites, MuxerWrites DEF Call
  <2> QED BY <1>3, <2>1, <2>2 DEF Call
<1>4. CASE Assign(m)
  <2>1. CASE LeaveBatch(m, "ensure") /\ UNCHANGED slot
    BY <1>4, <2>1, MuxerWrites DEF Assign
  <2>2. ASSUME NEW s \in Segment, slot' = Completed(s),
               muxer' = [ muxer EXCEPT ![m].batch = @ \ { s } ]
        PROVE  TypeOK'
    <3>1. [ muxer[m] EXCEPT !.batch = @ \ { s } ] \in MuxWorker
      BY DEF MuxWorker
    <3> QED BY <1>0, <1>4, <2>2, <3>1 DEF Assign, Completed
  <2>3. ASSUME NEW s \in Segment, UNCHANGED slot,
               muxer' = [ muxer EXCEPT ![m] =
                            [ pc |-> "append", batch |-> muxer[m].batch, current |-> s ] ]
        PROVE  TypeOK'
    <3>1. [ pc |-> "append", batch |-> muxer[m].batch, current |-> s ] \in MuxWorker
      BY DEF MuxWorker
    <3> QED BY <1>4, <2>3, <3>1 DEF Assign
  <2>4. muxer[m].batch \subseteq Segment /\ FirstOf(muxer[m].batch) \subseteq muxer[m].batch
    BY DEF MuxWorker, FirstOf
  <2> QED BY <1>4, <2>1, <2>2, <2>3, <2>4 DEF Assign
<1>5. CASE AppendEvent(m)
  <2>1. \A x \in Nat : x + 1 \in Nat
    OBVIOUS
  <2>2. events' \in [Segment -> Nat]
    BY <1>5, <2>1 DEF AppendEvent
  <2> QED BY <1>5, <2>2, MuxerWrites DEF AppendEvent
<1>6. CASE Record(m)
  <2>1. muxer[m].current \in Segment
    BY <1>6 DEF Record, BatchWhileSending, MuxWorker
  <2>2. slot' \in [Segment -> Slot]
    BY <1>0, <1>6, <2>1 DEF Record, Completed
  <2>3. muxer' \in [Mux -> MuxWorker]
    BY <1>6 DEF Record, MuxWorker
  <2> QED BY <1>6, <2>2, <2>3 DEF Record
<1>7. CASE EnsureMux(m)
  <2>1. plan' \in PlanState
    BY <1>7, EnsuredType DEF EnsureMux
  <2> QED BY <1>7, <2>1, MuxerWrites DEF EnsureMux
<1>8. CASE HurryMux(m)
  BY <1>8, MuxerWrites DEF HurryMux, PlanState
<1>9. CASE MuxDone(m)
  <2>1. mux' \in [Mux -> MuxState]
    BY <1>9 DEF MuxDone, MuxState
  <2> QED BY <1>0, <1>9, <2>1 DEF MuxDone
<1>10. CASE AbortMux(m)
  BY <1>10, MuxerWrites DEF AbortMux
<1>11. CASE LoseMux(m)
  BY <1>0, <1>11 DEF LoseMux
<1> QED BY <1>1, <1>2, <1>3, <1>4, <1>5, <1>6, <1>7, <1>8, <1>9, <1>10, <1>11 DEF MuxStep

\* What the maintenance pass makes of a slot.
LEMMA RepairedSlots ==
    ASSUME TypeOK, NEW s \in Segment, NEW timedOut \in SUBSET Mux
    PROVE  /\ Repaired(s, timedOut) \in Slot
           /\ slot[s].state \in { "none", "queued", "complete", "failed" }
                => Repaired(s, timedOut) = slot[s]
           /\ slot[s].state = "muxing" /\ slot[s].mux \notin timedOut
              /\ mux[slot[s].mux] \notin { "complete", "failed" }
                => Repaired(s, timedOut) = slot[s]
<1>1. Settled("failed") \in Slot /\ Requeued(s) \in Slot /\ slot[s] \in Slot
  BY SlotWrites DEF TypeOK, Requeued
<1>2. Repaired(s, timedOut) \in { Settled("failed"), Requeued(s), slot[s] }
  BY DEF Repaired
<1>3. slot[s].state \in { "none", "queued", "complete", "failed" }
        => Repaired(s, timedOut) = slot[s]
  BY DEF Repaired
<1>4. slot[s].state = "muxing" /\ slot[s].mux \notin timedOut
      /\ mux[slot[s].mux] \notin { "complete", "failed" }
        => Repaired(s, timedOut) = slot[s]
  BY DEF Repaired
<1> QED BY <1>1, <1>2, <1>3, <1>4

LEMMA MaintainTypes == Inv /\ (Restart \/ \E old \in BOOLEAN : Maintain(old)) => TypeOK'
<1> USE DEF Inv, TypeOK
<1>1. ASSUME Inv, NEW old \in BOOLEAN, Maintain(old) PROVE TypeOK'
  <2>1. slot' \in [Segment -> Slot]
    <3>1. AbandonedMux \subseteq Mux
      BY DEF AbandonedMux
    <3>2. PICK timedOut \in SUBSET Mux : slot' = [ s \in Segment |-> Repaired(s, timedOut) ]
      BY <1>1, <3>1 DEF Maintain
    <3> QED BY <1>1, <3>2, RepairedSlots
  <2>2. mux' \in [Mux -> MuxState]
    BY <1>1 DEF Maintain, MuxState
  <2>3. audio' \in [Segment -> AudioState]
    BY <1>1 DEF Maintain, AudioState
  <2>4. plan' \in PlanState
    BY <1>1 DEF Maintain, PlanState
  <2> QED BY <1>1, <2>1, <2>2, <2>3, <2>4 DEF Maintain
<1>2. ASSUME Inv, Restart PROVE TypeOK'
  <2>1. audio' \in [Segment -> AudioState] /\ wake' \in WakeState
    BY <1>2 DEF Restart, AudioState, WakeState
  <2>2. muxer' \in [Mux -> MuxWorker] /\ planner' \in [Planner -> PlanWorker]
    BY <1>2 DEF Restart, IdleMuxer, MuxWorker, IdlePlanner, PlanWorker
  <2>3. faults' \in Nat
    BY <1>2 DEF Restart
  <2> QED BY <1>2, <2>1, <2>2, <2>3 DEF Restart
<1> QED BY <1>1, <1>2

LEMMA StepTypes == Inv /\ [Next]_vars => TypeOK'
<1> SUFFICES ASSUME Inv, [Next]_vars PROVE TypeOK'
  OBVIOUS
<1>1. CASE UNCHANGED vars
  BY <1>1 DEF vars, Inv, TypeOK
<1>2. CASE Next
  BY <1>2, AudioTypes, WakeTypes, PlanTypes, MuxTypes, MaintainTypes DEF Next
<1> QED BY <1>1, <1>2

---------------------------------------------------------------------------
\* The invariant, worker by worker.
Own(m) ==
    /\ muxer[m].pc # "idle" => mux[m] = "running"
    /\ \A s \in muxer[m].batch : slot[s].state = "muxing" /\ slot[s].mux = m
    /\ muxer[m].pc \notin Sending => muxer[m].batch = {}
    /\ muxer[m].pc \in { "append", "record" } => muxer[m].current \in muxer[m].batch
    /\ muxer[m].pc = "append" => events[muxer[m].current] = 0

Holds == OneEventPerSegment /\ \A m \in Mux : Own(m)

LEMMA InvByWorker == Inv <=> TypeOK /\ Holds
  BY DEF Inv, Holds, Own, WorkersHoldTheirSlots, BatchWhileSending, AboutToAppend

\* A worker whose row, slots and events nobody touched still has what it had.
LEMMA Undisturbed ==
    ASSUME Inv, NEW m \in Mux, muxer'[m] = muxer[m],
           muxer[m].pc # "idle" => mux'[m] = mux[m],
           \A s \in muxer[m].batch : slot'[s] = slot[s] /\ events'[s] = events[s]
    PROVE  Own(m)'
  BY InvByWorker DEF Holds, Own

\* Steps of anybody but the workers and the repairs.
LEMMA OthersHold ==
    ASSUME Inv, UNCHANGED << muxer, events >>,
           \A m \in Mux : mux'[m] = mux[m] \/ muxer[m].pc = "idle",
           \A s \in Segment : slot[s].state = "muxing" => slot'[s] = slot[s]
    PROVE  Holds'
<1>1. ASSUME NEW m \in Mux PROVE Own(m)'
  <2>1. \A s \in muxer[m].batch : slot'[s] = slot[s]
    BY DEF Inv, TypeOK, MuxWorker, WorkersHoldTheirSlots
  <2> QED BY <2>1, Undisturbed
<1> QED BY <1>1 DEF Inv, Holds, OneEventPerSegment

\* A step of one worker that touches no slot under another job.
LEMMA WorkerHolds ==
    ASSUME Inv, NEW m \in Mux, Own(m)', OneEventPerSegment',
           \A n \in Mux \ { m } : muxer'[n] = muxer[n] /\ mux'[n] = mux[n],
           \A s \in Segment : slot[s].state = "muxing" /\ slot[s].mux # m
                => slot'[s] = slot[s] /\ events'[s] = events[s]
    PROVE  Holds'
<1>1. ASSUME NEW n \in Mux \ { m } PROVE Own(n)'
  <2>1. \A s \in muxer[n].batch : slot'[s] = slot[s] /\ events'[s] = events[s]
    BY DEF Inv, TypeOK, MuxWorker, WorkersHoldTheirSlots
  <2> QED BY <2>1, Undisturbed
<1> QED BY <1>1 DEF Holds

LEMMA AudioHolds ==
    Inv /\ (\/ \E s \in Segment : AudioStep(s) \/ AbortAudio(s)
            \/ Wake \/ HurryWake
            \/ \E w \in Planner : PlanStep(w) \/ LosePlan(w)) => Holds'
<1>1. ASSUME Inv, NEW s \in Segment, AudioStep(s) \/ AbortAudio(s) PROVE Holds'
  <2>1. UNCHANGED << muxer, events, mux >>
    BY <1>1 DEF AudioStep, MakeSlot, SkipAudio, EnsureAudio, HurryAudio, AbortAudio
  <2>2. \A t \in Segment : slot[t].state = "muxing" => slot'[t] = slot[t]
    BY <1>1 DEF AudioStep, MakeSlot, SkipAudio, EnsureAudio, HurryAudio, AbortAudio, Inv,
                TypeOK
  <2> QED BY <1>1, <2>1, <2>2, OthersHold
<1>2. ASSUME Inv, Wake \/ HurryWake PROVE Holds'
  <2>1. UNCHANGED << muxer, events, mux >>
    BY <1>2 DEF Wake, HurryWake
  <2>2. \A t \in Segment : slot[t].state = "muxing" => slot'[t] = slot[t]
    BY <1>2 DEF Wake, HurryWake, InSlot
  <2> QED BY <1>2, <2>1, <2>2, OthersHold
<1>3. ASSUME Inv, NEW w \in Planner, PlanStep(w) \/ LosePlan(w) PROVE Holds'
  <2>1. CASE PlanCommit(w)
    <3>1. UNCHANGED << muxer, events >>
      BY <2>1 DEF PlanCommit
    <3>2. /\ \A m \in Mux : mux'[m] = mux[m] \/ muxer[m].pc = "idle"
          /\ \A t \in Segment : slot[t].state # "queued" => slot'[t] = slot[t]
      BY <1>3, <2>1, BatchesTaken DEF PlanCommit
    <3> QED BY <1>3, <3>1, <3>2, OthersHold
  <2>2. CASE UNCHANGED << muxer, events, mux, slot >>
    BY <1>3, <2>2, OthersHold
  <2> QED BY <1>3, <2>1, <2>2 DEF PlanStep, ClaimPlan, PlanCount, PlanDone, LosePlan
<1> QED BY <1>1, <1>2, <1>3

LEMMA RepairsHold == Inv /\ (Restart \/ \E old \in BOOLEAN : Maintain(old)) => Holds'
<1>1. ASSUME Inv, NEW old \in BOOLEAN, Maintain(old) PROVE Holds'
  <2>1. PICK timedOut \in SUBSET AbandonedMux :
          /\ slot' = [ s \in Segment |-> Repaired(s, timedOut) ]
          /\ mux' = [ m \in Mux |-> IF m \in timedOut \/ mux[m] \in { "complete", "failed" }
                                    THEN "none" ELSE mux[m] ]
    BY <1>1 DEF Maintain
  <2>2. UNCHANGED << muxer, events >>
    BY <1>1 DEF Maintain
  <2>3. ASSUME NEW m \in Mux PROVE Own(m)'
    <3>1. CASE muxer[m].pc = "idle"
      <4>1. muxer[m].batch = {}
        BY <1>1, <3>1 DEF Inv, BatchWhileSending, Sending
      <4> QED BY <1>1, <2>2, <3>1, <4>1, Undisturbed
    <3>2. CASE muxer[m].pc # "idle"
      <4>1. m \notin timedOut /\ mux[m] = "running"
        BY <1>1, <2>1, <3>2 DEF AbandonedMux, Inv, WorkersHoldTheirSlots
      <4>2. ASSUME NEW s \in muxer[m].batch PROVE slot'[s] = slot[s]
        <5>1. s \in Segment /\ slot[s].state = "muxing" /\ slot[s].mux = m
          BY <1>1 DEF Inv, TypeOK, MuxWorker, WorkersHoldTheirSlots
        <5>2. timedOut \in SUBSET Mux
          BY <2>1 DEF AbandonedMux
        <5>3. Repaired(s, timedOut) = slot[s]
          BY <1>1, <4>1, <5>1, <5>2, RepairedSlots DEF Inv
        <5> QED BY <2>1, <5>1, <5>3
      <4>3. mux'[m] = mux[m]
        BY <2>1, <4>1
      <4> QED BY <1>1, <2>2, <4>2, <4>3, Undisturbed
    <3> QED BY <3>1, <3>2
  <2> QED BY <1>1, <2>2, <2>3 DEF Holds, Inv, OneEventPerSegment
<1>2. ASSUME Inv, Restart PROVE Holds'
  BY <1>2 DEF Restart, IdleMuxer, Holds, Own, Sending, Inv, OneEventPerSegment
<1> QED BY <1>1, <1>2

LEMMA MuxHolds == Inv /\ (\E m \in Mux : MuxStep(m) \/ AbortMux(m) \/ LoseMux(m)) => Holds'
<1> SUFFICES ASSUME Inv, NEW m \in Mux, MuxStep(m) \/ AbortMux(m) \/ LoseMux(m)
             PROVE  Holds'
  OBVIOUS
<1>0. /\ TypeOK /\ Own(m) /\ OneEventPerSegment
      /\ muxer[m].batch \subseteq Segment
      /\ \A s \in Segment : s \in SlotsOf(m) => slot[s].mux = m
  BY InvByWorker DEF Holds, TypeOK, MuxWorker, SlotsOf
<1> USE DEF TypeOK, Sending
<1>1. CASE ClaimMux(m)
  <2>1. muxer'[m].pc = "start" /\ muxer'[m].batch = {} /\ mux'[m] = "running"
    BY <1>0, <1>1 DEF ClaimMux, MoveMuxer, Own, MuxWorker
  <2>2. /\ \A n \in Mux \ { m } : muxer'[n] = muxer[n] /\ mux'[n] = mux[n]
        /\ UNCHANGED << slot, events >>
    BY <1>0, <1>1 DEF ClaimMux, MoveMuxer
  <2>3. Own(m)' /\ OneEventPerSegment'
    BY <1>0, <2>1, <2>2 DEF Own, OneEventPerSegment
  <2> QED BY <2>2, <2>3, WorkerHolds
<1>2. CASE Start(m)
  <2>1. PICK batch \in SUBSET SlotsOf(m) :
          /\ slot' = [ s \in Segment |->
               IF s \in batch THEN [ slot[s] EXCEPT !.state = "muxing" ] ELSE slot[s] ]
          /\ muxer' = [ muxer EXCEPT ![m] =
               [ pc |-> IF batch = {} THEN "complete" ELSE "call", batch |-> batch,
                 current |-> None ] ]
    BY <1>2 DEF Start
  <2>2. /\ muxer'[m].batch = batch
        /\ muxer'[m].pc = IF batch = {} THEN "complete" ELSE "call"
    BY <1>0, <2>1
  <2>3. \A s \in batch : slot'[s].state = "muxing" /\ slot'[s].mux = m
    BY <1>0, <2>1 DEF SlotsOf, Slot
  <2>4. UNCHANGED << mux, events >> /\ mux[m] = "running"
    BY <1>0, <1>2 DEF Start, Own
  <2>5. Own(m)' /\ OneEventPerSegment'
    BY <1>0, <2>2, <2>3, <2>4 DEF Own, OneEventPerSegment
  <2>6. /\ \A n \in Mux \ { m } : muxer'[n] = muxer[n]
        /\ \A s \in Segment : slot[s].mux # m => slot'[s] = slot[s]
    BY <1>0, <2>1
  <2> QED BY <2>4, <2>5, <2>6, WorkerHolds
<1>3. ASSUME NEW pc \in { "ensure", "fail", "requeue" }, LeaveBatch(m, pc),
             UNCHANGED << mux, events >>, muxer[m].pc # "idle",
             \A s \in Segment : s \notin SlotsOf(m) => slot'[s] = slot[s]
      PROVE  Holds'
  <2>1. muxer'[m].batch = {} /\ muxer'[m].pc = pc
    BY <1>0, <1>3 DEF LeaveBatch, IdleMuxer
  <2>2. Own(m)' /\ OneEventPerSegment'
    BY <1>0, <1>3, <2>1 DEF Own, OneEventPerSegment
  <2>3. \A n \in Mux \ { m } : muxer'[n] = muxer[n]
    BY <1>0, <1>3 DEF LeaveBatch
  <2>4. \A s \in Segment : slot[s].mux # m => slot'[s] = slot[s]
    BY <1>0, <1>3
  <2> QED BY <1>3, <2>2, <2>3, <2>4, WorkerHolds
<1>4. ASSUME NEW pc \in { "assign", "hurry", "complete" }, MoveMuxer(m, pc),
             UNCHANGED << mux, events, slot >>, muxer[m].pc # "idle",
             pc = "assign" \/ muxer[m].batch = {}
      PROVE  Holds'
  <2>1. muxer'[m].batch = muxer[m].batch /\ muxer'[m].pc = pc
    BY <1>0, <1>4 DEF MoveMuxer, MuxWorker
  <2>2. Own(m)' /\ OneEventPerSegment'
    BY <1>0, <1>4, <2>1 DEF Own, OneEventPerSegment
  <2>3. \A n \in Mux \ { m } : muxer'[n] = muxer[n]
    BY <1>0, <1>4 DEF MoveMuxer
  <2> QED BY <1>4, <2>2, <2>3, WorkerHolds
<1>5. CASE Call(m)
  <2>1. UNCHANGED << mux, events >> /\ muxer[m].pc = "call"
    BY <1>5 DEF Call
  <2>2. CASE LeaveBatch(m, "requeue") /\ UNCHANGED slot
    BY <1>3, <2>1, <2>2
  <2>3. CASE FailSlots(m) \/ Replan(m)
    BY <1>3, <2>1, <2>3, CallWrites
  <2>4. CASE MoveMuxer(m, "assign") /\ UNCHANGED slot
    BY <1>4, <2>1, <2>4
  <2> QED BY <1>5, <2>2, <2>3, <2>4 DEF Call
<1>6. ASSUME NEW s \in muxer[m].batch, slot' = Completed(s), UNCHANGED << mux, events >>,
             muxer[m].pc # "idle", muxer'[m].pc = "assign",
             muxer'[m].batch = muxer[m].batch \ { s },
             \A n \in Mux \ { m } : muxer'[n] = muxer[n]
      PROVE  Holds'
  <2>1. slot[s].mux = m /\ s \in Segment
    BY <1>0 DEF Own
  <2>2. \A x \in Segment \ { s } : slot'[x] = slot[x]
    BY <1>0, <1>6, <2>1 DEF Completed
  <2>3. Own(m)' /\ OneEventPerSegment'
    BY <1>0, <1>6, <2>2 DEF Own, OneEventPerSegment
  <2> QED BY <1>6, <2>1, <2>2, <2>3, WorkerHolds
<1>7. CASE Assign(m)
  <2>1. UNCHANGED << mux, events >> /\ muxer[m].pc = "assign"
    BY <1>7 DEF Assign
  <2>2. CASE LeaveBatch(m, "ensure") /\ UNCHANGED slot
    BY <1>3, <2>1, <2>2
  <2>3. ASSUME NEW s \in muxer[m].batch, slot' = Completed(s),
               muxer' = [ muxer EXCEPT ![m].batch = @ \ { s } ]
        PROVE  Holds'
    <3>1. muxer'[m].pc = "assign" /\ muxer'[m].batch = muxer[m].batch \ { s }
      BY <1>0, <2>1, <2>3 DEF MuxWorker
    <3> QED BY <1>0, <1>6, <2>1, <2>3, <3>1
  <2>4. ASSUME NEW s \in muxer[m].batch, events[s] = 0, UNCHANGED slot,
               muxer' = [ muxer EXCEPT ![m] =
                            [ pc |-> "append", batch |-> muxer[m].batch, current |-> s ] ]
        PROVE  Holds'
    <3>1. /\ muxer'[m].pc = "append" /\ muxer'[m].batch = muxer[m].batch
          /\ muxer'[m].current = s
          /\ \A n \in Mux \ { m } : muxer'[n] = muxer[n]
      BY <1>0, <2>4
    <3>2. Own(m)' /\ OneEventPerSegment'
      BY <1>0, <2>1, <2>4, <3>1 DEF Own, OneEventPerSegment
    <3> QED BY <2>1, <2>4, <3>1, <3>2, WorkerHolds
  <2>5. FirstOf(muxer[m].batch) \subseteq muxer[m].batch
    BY DEF FirstOf
  <2> QED BY <1>7, <2>2, <2>3, <2>4, <2>5 DEF Assign
<1>8. CASE AppendEvent(m)
  <2> DEFINE s == muxer[m].current
  <2>1. s \in muxer[m].batch /\ s \in Segment /\ slot[s].mux = m /\ events[s] = 0
    BY <1>0, <1>8 DEF AppendEvent, Own
  <2>2. events'[s] = 1 /\ \A x \in Segment \ { s } : events'[x] = events[x]
    BY <1>0, <1>8, <2>1 DEF AppendEvent
  <2>3. OneEventPerSegment'
    BY <1>0, <2>2 DEF OneEventPerSegment
  <2>4. /\ muxer'[m].pc = "record" /\ muxer'[m].batch = muxer[m].batch
        /\ muxer'[m].current = s
        /\ \A n \in Mux \ { m } : muxer'[n] = muxer[n]
        /\ UNCHANGED << slot, mux >> /\ muxer[m].pc = "append"
    BY <1>0, <1>8 DEF AppendEvent, MoveMuxer, MuxWorker
  <2> HIDE DEF s
  <2>5. Own(m)'
    BY <1>0, <2>1, <2>4 DEF Own
  <2> QED BY <2>1, <2>2, <2>3, <2>4, <2>5, WorkerHolds
<1>9. CASE Record(m)
  <2>1. muxer[m].current \in muxer[m].batch
    BY <1>0, <1>9 DEF Record, Own
  <2>2. /\ slot' = Completed(muxer[m].current) /\ UNCHANGED << mux, events >>
        /\ muxer[m].pc = "record"
        /\ muxer'[m].pc = "assign"
        /\ muxer'[m].batch = muxer[m].batch \ { muxer[m].current }
        /\ \A n \in Mux \ { m } : muxer'[n] = muxer[n]
    BY <1>0, <1>9 DEF Record
  <2> QED BY <1>6, <2>1, <2>2
<1>10. CASE EnsureMux(m)
  <2>1. muxer[m].batch = {} /\ muxer[m].pc # "idle"
    BY <1>0, <1>10 DEF EnsureMux, Own
  <2> QED BY <1>4, <1>10, <2>1 DEF EnsureMux
<1>11. CASE HurryMux(m)
  <2>1. muxer[m].batch = {} /\ muxer[m].pc # "idle"
    BY <1>0, <1>11 DEF HurryMux, Own
  <2> QED BY <1>4, <1>11, <2>1 DEF HurryMux
<1>12. CASE MuxDone(m) \/ LoseMux(m)
  <2>1. /\ muxer'[m].pc = "idle" /\ muxer'[m].batch = {}
        /\ \A n \in Mux \ { m } : muxer'[n] = muxer[n] /\ mux'[n] = mux[n]
        /\ UNCHANGED << slot, events >>
    BY <1>0, <1>12 DEF MuxDone, LoseMux, IdleMuxer
  <2>2. Own(m)' /\ OneEventPerSegment'
    BY <1>0, <2>1 DEF Own, OneEventPerSegment
  <2> QED BY <2>1, <2>2, WorkerHolds
<1>13. CASE AbortMux(m)
  BY <1>3, <1>13 DEF AbortMux
<1> QED BY <1>1, <1>2, <1>5, <1>7, <1>8, <1>9, <1>10, <1>11, <1>12, <1>13 DEF MuxStep

LEMMA StepInv == Inv /\ [Next]_vars => Inv'
<1> SUFFICES ASSUME Inv, [Next]_vars PROVE Inv'
  OBVIOUS
<1>1. TypeOK'
  BY StepTypes
<1>2. CASE UNCHANGED vars
  <2>1. UNCHANGED << muxer, events, mux, slot >>
    BY <1>2 DEF vars
  <2>2. Holds'
    BY <2>1, OthersHold
  <2> QED BY <1>1, <2>2, InvByWorker, PTL
<1>3. CASE Next
  <2>1. Holds'
    BY <1>3, AudioHolds, RepairsHold, MuxHolds DEF Next
  <2> QED BY <1>1, <2>1, InvByWorker, PTL
<1> QED BY <1>2, <1>3

LEMMA InvHolds == Spec => []Inv
<1>1. Init => Inv
  BY InitInv
<1>2. Inv /\ [Next]_vars => Inv'
  BY StepInv
<1> QED BY <1>1, <1>2, PTL DEF Spec

\* Every variable keeps its type.
THEOREM MuxTypeCorrect == Spec => []TypeOK
<1>1. Inv => TypeOK
  BY DEF Inv
<1> QED BY <1>1, InvHolds, PTL

\* A worker's batch is muxing under the worker's own running job, however claims,
\* answers, repairs and restarts interleave (start_transcription_slots_for_mux,
\* recover_abandoned_transcription_slots).
THEOREM WorkersKeepTheirSlots == Spec => []WorkersHoldTheirSlots
<1>1. Inv => WorkersHoldTheirSlots
  BY DEF Inv
<1> QED BY <1>1, InvHolds, PTL

\* No recording is sent by two workers at once: a slot names one job
\* (execute_transcription_mux_job).
THEOREM NoSlotSentTwiceAtOnce == Spec => []BatchesDisjoint
<1>1. Inv => BatchesDisjoint
  BY DEF Inv, WorkersHoldTheirSlots, BatchesDisjoint
<1> QED BY <1>1, InvHolds, PTL

\* A segment gets at most one speech event: between the look for an event and its
\* append nobody else has the slot (execute_transcription_mux_job).
THEOREM HeardOnce == Spec => []OneEventPerSegment
<1>1. Inv => OneEventPerSegment
  BY DEF Inv
<1> QED BY <1>1, InvHolds, PTL

---------------------------------------------------------------------------
LEMMA CompleteStays ==
    ASSUME Inv, [Next]_vars, NEW s \in Segment, slot[s].state = "complete"
    PROVE  slot'[s].state = "complete"
<1> USE DEF Inv, TypeOK
<1>1. CASE UNCHANGED slot
  BY <1>1
<1>2. ASSUME NEW t \in Segment, MakeSlot(t) PROVE slot'[s].state = "complete"
  BY <1>2 DEF MakeSlot
<1>3. CASE Wake
  BY <1>3 DEF Wake, InSlot
<1>4. ASSUME NEW w \in Planner, PlanCommit(w) PROVE slot'[s].state = "complete"
  BY <1>4, BatchesTaken DEF PlanCommit
<1>5. ASSUME NEW m \in Mux, Start(m) \/ Call(m) PROVE slot'[s].state = "complete"
  <2>1. s \notin SlotsOf(m)
    BY DEF SlotsOf
  <2>2. CASE Start(m)
    BY <2>1, <2>2 DEF Start
  <2>3. CASE Call(m)
    BY <2>1, <2>3, CallWrites DEF Call
  <2> QED BY <1>5, <2>2, <2>3
<1>6. ASSUME NEW t, slot' = Completed(t) PROVE slot'[s].state = "complete"
  BY <1>6 DEF Completed, Settled, NoSlot
<1>7. ASSUME NEW m \in Mux, Assign(m) \/ Record(m) PROVE slot'[s].state = "complete"
  BY <1>1, <1>6, <1>7 DEF Assign, Record
<1>8. ASSUME NEW old \in BOOLEAN, Maintain(old) PROVE slot'[s].state = "complete"
  <2>1. PICK timedOut \in SUBSET Mux : slot' = [ x \in Segment |-> Repaired(x, timedOut) ]
    BY <1>8 DEF Maintain, AbandonedMux
  <2> QED BY <2>1, RepairedSlots
<1>9. ASSUME NEW t \in Segment, AudioStep(t) \/ AbortAudio(t)
      PROVE  slot'[s].state = "complete"
  BY <1>1, <1>2, <1>9 DEF AudioStep, SkipAudio, EnsureAudio, HurryAudio, AbortAudio
<1>10. ASSUME NEW w \in Planner, PlanStep(w) \/ LosePlan(w)
       PROVE  slot'[s].state = "complete"
  BY <1>1, <1>4, <1>10 DEF PlanStep, ClaimPlan, PlanCount, PlanDone, LosePlan
<1>11. ASSUME NEW m \in Mux, MuxStep(m) \/ AbortMux(m) \/ LoseMux(m)
       PROVE  slot'[s].state = "complete"
  BY <1>1, <1>5, <1>7, <1>11 DEF MuxStep, ClaimMux, AppendEvent, EnsureMux, HurryMux,
                                 MuxDone, AbortMux, LoseMux
<1>12. CASE HurryWake \/ Restart
  BY <1>1, <1>12 DEF HurryWake, Restart
<1>13. CASE UNCHANGED vars
  BY <1>1, <1>13 DEF vars
<1> QED BY <1>3, <1>8, <1>9, <1>10, <1>11, <1>12, <1>13 DEF Next

\* A transcribed slot stays transcribed, whichever job runs again, answers late or is
\* repaired (complete_transcription_slot, recover_abandoned_transcription_slots).
THEOREM TranscribedForGood == Spec => CompleteIsFinal
<1>1. Inv /\ [Next]_vars
        => [ \A s \in Segment : slot[s].state = "complete" => slot'[s].state = "complete" ]_vars
  BY CompleteStays
<1> QED BY <1>1, InvHolds, PTL DEF Spec, CompleteIsFinal

---------------------------------------------------------------------------
\* One plan job at a time: what it has counted still bounds the streams at its commit.
StreamInv ==
    \/ overlap
    \/ /\ \A v, w \in Planner : planner[v].pc # "idle" /\ planner[w].pc # "idle" => v = w
       /\ \A w \in Planner :
            planner[w].pc = "commit" => Cardinality(ActiveStreams) <= planner[w].active
       /\ Cardinality(ActiveStreams) <= MaxStreams

\* What a step does to the streams when it starts none.
OnlyEnds ==
    /\ \A s \in Segment :
         slot'[s].state \in { "planned", "muxing" }
           => slot[s].state \in { "planned", "muxing" } /\ slot'[s].mux = slot[s].mux
    /\ \A m \in Mux :
         mux'[m] \in { "queued", "running" } => mux[m] \in { "queued", "running" }

\* Streams are finitely many, and fewer when some of them end.
LEMMA FewerStreams ==
    ASSUME NEW S \in SUBSET Mux, NEW T \in SUBSET S
    PROVE  /\ Cardinality(S) \in Nat /\ Cardinality(T) \in Nat
           /\ Cardinality(T) <= Cardinality(S)
<1>1. IsFiniteSet(S)
  BY MuxAssumption, FS_Subset
<1>2. IsFiniteSet(T) /\ Cardinality(T) <= Cardinality(S)
  BY <1>1, FS_Subset
<1> QED BY <1>1, <1>2, FS_CardinalityType

LEMMA StreamsEnd == OnlyEnds => ActiveStreams' \subseteq ActiveStreams
  BY DEF OnlyEnds, ActiveStreams, SlotsOf

\* No step but the commit of a plan job starts a stream.
LEMMA OthersOnlyEnd ==
    ASSUME Inv, [Next]_vars, ~\E w \in Planner : PlanCommit(w)
    PROVE  OnlyEnds
<1> USE DEF OnlyEnds
<1>1. CASE UNCHANGED << slot, mux >>
  BY <1>1
<1>2. ASSUME NEW s \in Segment, AudioStep(s) \/ AbortAudio(s) PROVE OnlyEnds
  <2>1. CASE MakeSlot(s)
    <3>1. slot \in [Segment -> Slot]
      BY DEF Inv, TypeOK
    <3>2. \A t \in Segment : slot'[t] = slot[t] \/ slot'[t].state = "queued"
      BY <2>1, <3>1 DEF MakeSlot
    <3>3. mux' = mux
      BY <2>1 DEF MakeSlot
    <3> QED BY <3>2, <3>3
  <2> QED BY <1>1, <1>2, <2>1 DEF AudioStep, SkipAudio, EnsureAudio, HurryAudio, AbortAudio
<1>3. CASE Wake
  BY <1>3 DEF Wake, InSlot
<1>4. CASE HurryWake \/ Restart
  BY <1>1, <1>4 DEF HurryWake, Restart
<1>5. ASSUME NEW w \in Planner, PlanStep(w) \/ LosePlan(w) PROVE OnlyEnds
  BY <1>1, <1>5 DEF PlanStep, ClaimPlan, PlanCount, PlanDone, LosePlan
<1>6. ASSUME NEW m \in Mux, MuxStep(m) \/ AbortMux(m) \/ LoseMux(m) PROVE OnlyEnds
  <2>1. CASE ClaimMux(m)
    BY <2>1 DEF ClaimMux, Inv, TypeOK
  <2>2. CASE Start(m)
    BY <2>2 DEF Start, SlotsOf, Inv, TypeOK, Slot
  <2>3. CASE Call(m)
    <3>1. mux' = mux
      BY <2>3 DEF Call
    <3>2. CASE UNCHANGED slot
      BY <3>1, <3>2
    <3>3. CASE FailSlots(m)
      <4>1. PICK state \in { "failed", "failed_retryable" } :
              slot' = [ s \in Segment |->
                 IF s \notin SlotsOf(m) THEN slot[s]
                 ELSE IF state = "failed" THEN Settled(state)
                 ELSE [ slot[s] EXCEPT !.state = state, !.mux = None ] ]
        BY <3>3 DEF FailSlots
      <4>2. Settled("failed").state = "failed"
        BY DEF Settled, NoSlot
      <4>3. \A x \in Slot :
              [ x EXCEPT !.state = "failed_retryable", !.mux = None ].state = "failed_retryable"
        BY DEF Slot
      <4>4. slot \in [Segment -> Slot]
        BY DEF Inv, TypeOK
      <4>5. \A s \in Segment : slot'[s] = slot[s] \/ slot'[s].state = state
        BY <4>1, <4>2, <4>3, <4>4
      <4> QED BY <3>1, <4>5
    <3>4. CASE Replan(m)
      BY <3>1, <3>4 DEF Replan, Inv, TypeOK, Slot
    <3> QED BY <2>3, <3>2, <3>3, <3>4 DEF Call
  <2>4. CASE Assign(m) \/ Record(m)
    <3>1. mux' = mux
      BY <2>4 DEF Assign, Record
    <3>2. UNCHANGED slot \/ \E t : slot' = Completed(t)
      BY <2>4 DEF Assign, Record
    <3> QED BY <3>1, <3>2 DEF Completed, Settled, NoSlot, Inv, TypeOK
  <2>5. CASE MuxDone(m)
    <3>1. mux[m] = "running"
      BY <2>5 DEF MuxDone, Inv, WorkersHoldTheirSlots
    <3> QED BY <2>5, <3>1 DEF MuxDone, Inv, TypeOK
  <2> QED BY <1>1, <1>6, <2>1, <2>2, <2>3, <2>4, <2>5
          DEF MuxStep, AppendEvent, EnsureMux, HurryMux, AbortMux, LoseMux
<1>7. ASSUME NEW old \in BOOLEAN, Maintain(old) PROVE OnlyEnds
  <2>1. \A m \in Mux : mux'[m] \in { mux[m], "none" }
    BY <1>7 DEF Maintain
  <2>2. PICK timedOut \in SUBSET Mux : slot' = [ s \in Segment |-> Repaired(s, timedOut) ]
    BY <1>7 DEF Maintain, AbandonedMux
  <2>3. ASSUME NEW s \in Segment, slot'[s].state \in { "planned", "muxing" }
        PROVE  slot'[s] = slot[s]
    <3>1. Requeued(s).state = "queued" /\ Settled("failed").state = "failed"
      BY DEF Requeued, Settled, NoSlot, Inv, TypeOK, Slot
    <3> QED BY <2>2, <2>3, <3>1 DEF Repaired
  <2> QED BY <2>1, <2>3
<1>8. CASE UNCHANGED vars
  BY <1>1, <1>8 DEF vars
<1> QED BY <1>2, <1>3, <1>4, <1>5, <1>6, <1>7, <1>8 DEF Next

\* A commit starts as many streams as it has ids.
LEMMA CommitStarts ==
    ASSUME Inv, NEW n \in 0 .. MaxStreams, NEW id \in Injection(1 .. n, FreshMux),
           PlanBatches(id)
    PROVE  Cardinality(ActiveStreams') <= Cardinality(ActiveStreams) + n
<1>1. id \in [1 .. n -> FreshMux]
  BY DEF Injection, IsInjective
<1>2. Range(id) \subseteq Mux
  BY <1>1 DEF Range, FreshMux
<1>3. ActiveStreams' \subseteq ActiveStreams \cup Range(id)
  <2> DEFINE Taken(i) == ToSet(NextBatch(Rest[i - 1])) \cap InSlot("queued")
  <2>1. slot' = [ s \in Segment |->
                   IF \E i \in DOMAIN id : s \in Taken(i)
                   THEN [ slot[s] EXCEPT !.state = "planned",
                            !.mux = id[CHOOSE i \in DOMAIN id : s \in Taken(i)] ]
                   ELSE slot[s] ]
    BY DEF PlanBatches
  <2>2. mux' = [ m \in Mux |-> IF m \in Range(id) THEN "queued" ELSE mux[m] ]
    BY DEF PlanBatches
  <2> HIDE DEF Taken
  <2>3. ASSUME NEW s \in Segment, \E i \in DOMAIN id : s \in Taken(i)
        PROVE  slot'[s].mux \in Range(id)
    <3>1. (CHOOSE i \in DOMAIN id : s \in Taken(i)) \in DOMAIN id
      BY <2>3
    <3>2. slot[s] \in Slot
      BY DEF Inv, TypeOK
    <3>3. slot'[s].mux = id[CHOOSE i \in DOMAIN id : s \in Taken(i)]
      BY <2>1, <2>3, <3>2 DEF Slot
    <3> QED BY <3>1, <3>3 DEF Range
  <2>4. ASSUME NEW m \in Mux, m \in ActiveStreams', m \notin Range(id)
        PROVE  m \in ActiveStreams
    <3>1. mux[m] \in { "queued", "running" }
      BY <2>2, <2>4 DEF ActiveStreams
    <3>2. PICK s \in Segment : slot'[s].mux = m /\ slot'[s].state \in { "planned", "muxing" }
      BY <2>4 DEF ActiveStreams, SlotsOf
    <3>3. slot'[s] = slot[s]
      BY <2>1, <2>3, <2>4, <3>2
    <3> QED BY <3>1, <3>2, <3>3 DEF ActiveStreams, SlotsOf
  <2> QED BY <2>4 DEF ActiveStreams
<1>4. IsFiniteSet(Range(id)) /\ Cardinality(Range(id)) <= n
  <2>1. id \in Surjection(1 .. n, Range(id))
    BY <1>1, Fun_RangeProperties
  <2>2. IsFiniteSet(1 .. n) /\ Cardinality(1 .. n) = n
    BY FS_Interval
  <2> QED BY <2>1, <2>2, FS_Surjection
<1>5. IsFiniteSet(ActiveStreams)
  BY MuxAssumption, FS_Subset DEF ActiveStreams
<1> DEFINE All == ActiveStreams \cup Range(id)
<1>6. Cardinality(All) <= Cardinality(ActiveStreams) + n
  <2>1. IsFiniteSet(ActiveStreams \cap Range(id))
    BY <1>5, FS_Subset
  <2>2. /\ Cardinality(ActiveStreams) \in Nat /\ Cardinality(Range(id)) \in Nat
        /\ Cardinality(ActiveStreams \cap Range(id)) \in Nat
    BY <1>4, <1>5, <2>1, FS_CardinalityType
  <2>3. Cardinality(All) = Cardinality(ActiveStreams) + Cardinality(Range(id))
                             - Cardinality(ActiveStreams \cap Range(id))
    BY <1>4, <1>5, FS_Union
  <2> QED BY <1>4, <2>2, <2>3
<1>7. All \in SUBSET Mux
  BY <1>2 DEF ActiveStreams
<1>8. Cardinality(ActiveStreams') <= Cardinality(All) /\ Cardinality(ActiveStreams') \in Nat
  BY <1>3, <1>7, FewerStreams
<1>9. Cardinality(ActiveStreams) \in Nat /\ Cardinality(All) \in Nat
  BY <1>7, FewerStreams DEF ActiveStreams
<1> QED BY <1>6, <1>8, <1>9

LEMMA StreamStep == Inv /\ StreamInv /\ [Next]_vars => StreamInv'
<1> SUFFICES ASSUME Inv, StreamInv, [Next]_vars, ~overlap' PROVE StreamInv'
  BY DEF StreamInv
<1>1. ~overlap
  BY DEF Next, vars, AudioStep, MakeSlot, SkipAudio, EnsureAudio, HurryAudio, AbortAudio,
         PlanStep, ClaimPlan, PlanCount, PlanCommit, PlanDone, LosePlan,
         MuxStep, ClaimMux, Start, Call, Assign, AppendEvent, Record, EnsureMux, HurryMux,
         MuxDone, AbortMux, LoseMux, Wake, HurryWake, Maintain, Restart
<1>2. planner \in [Planner -> PlanWorker] /\ MaxStreams \in Nat
  BY MuxAssumption DEF Inv, TypeOK
<1>3. ActiveStreams \in SUBSET Mux /\ ActiveStreams' \in SUBSET Mux
  BY DEF ActiveStreams
<1>4. Cardinality(ActiveStreams) \in Nat /\ Cardinality(ActiveStreams') \in Nat
  BY <1>3, FewerStreams
<1>5. ASSUME NEW w \in Planner, PlanCommit(w) PROVE StreamInv'
  <2>1. PICK n \in 0 .. MaxStreams :
          /\ n + planner[w].active <= MaxStreams \/ n = 0
          /\ \E id \in Injection(1 .. n, FreshMux) : PlanBatches(id)
    BY <1>5 DEF PlanCommit
  <2>2. Cardinality(ActiveStreams') <= Cardinality(ActiveStreams) + n
    BY <2>1, CommitStarts
  <2>3. Cardinality(ActiveStreams) <= planner[w].active /\ planner[w].active \in Nat
    BY <1>1, <1>2, <1>5 DEF StreamInv, PlanCommit, PlanWorker
  <2>4. Cardinality(ActiveStreams') <= MaxStreams
    <3>1. Cardinality(ActiveStreams) <= MaxStreams
      BY <1>1 DEF StreamInv
    <3> QED BY <1>2, <1>4, <2>1, <2>2, <2>3, <3>1
  <2>5. \A v \in Planner : planner'[v].pc # "idle" => v = w
    BY <1>1, <1>2, <1>5 DEF StreamInv, PlanCommit
  <2>6. planner'[w].pc = "done"
    BY <1>2, <1>5 DEF PlanCommit, IdlePlanner
  <2> QED BY <2>4, <2>5, <2>6 DEF StreamInv
<1>6. CASE ~\E w \in Planner : PlanCommit(w)
  <2>1. ActiveStreams' \subseteq ActiveStreams
    BY <1>6, OthersOnlyEnd, StreamsEnd
  <2>2. Cardinality(ActiveStreams') <= Cardinality(ActiveStreams)
    BY <1>3, <2>1, FewerStreams
  <2>3. Cardinality(ActiveStreams') <= MaxStreams
    BY <1>1, <1>2, <1>4, <2>2 DEF StreamInv
  <2>4. CASE UNCHANGED planner
    BY <1>1, <1>2, <1>4, <2>2, <2>3, <2>4 DEF StreamInv, PlanWorker
  <2>5. ASSUME NEW w \in Planner, ClaimPlan(w) PROVE StreamInv'
    <3>1. \A v \in Planner : planner[v].pc = "idle"
      BY <2>5 DEF ClaimPlan
    <3>2. planner' = [ planner EXCEPT ![w] = [ pc |-> "count", active |-> 0 ] ]
      BY <2>5 DEF ClaimPlan
    <3> QED BY <1>2, <2>3, <3>1, <3>2 DEF StreamInv
  <2>6. ASSUME NEW w \in Planner, PlanCount(w) PROVE StreamInv'
    <3>1. planner' = [ planner EXCEPT ![w] =
                         [ pc |-> "commit", active |-> Cardinality(ActiveStreams) ] ]
      BY <2>6 DEF PlanCount
    <3>2. \A v \in Planner : planner'[v].pc # "idle" => v = w
      BY <1>1, <1>2, <2>6, <3>1 DEF StreamInv, PlanCount
    <3>3. planner'[w].active = Cardinality(ActiveStreams)
      BY <1>2, <3>1
    <3> QED BY <2>2, <2>3, <3>2, <3>3 DEF StreamInv
  <2>7. ASSUME NEW w \in Planner, PlanDone(w) \/ LosePlan(w) PROVE StreamInv'
    <3>1. planner' = [ planner EXCEPT ![w] = IdlePlanner ]
      BY <2>7 DEF PlanDone, LosePlan
    <3>2. \A v \in Planner : planner'[v] = planner[v] \/ planner'[v].pc = "idle"
      BY <1>2, <3>1 DEF IdlePlanner
    <3> QED BY <1>1, <1>2, <1>4, <2>2, <2>3, <3>2 DEF StreamInv, PlanWorker
  <2>8. CASE Restart
    <3>1. \A v \in Planner : planner'[v].pc = "idle"
      BY <2>8 DEF Restart, IdlePlanner
    <3> QED BY <2>3, <3>1 DEF StreamInv
  <2>9. ASSUME NEW s \in Segment, AudioStep(s) \/ AbortAudio(s) PROVE UNCHANGED planner
    BY <2>9 DEF AudioStep, MakeSlot, SkipAudio, EnsureAudio, HurryAudio, AbortAudio
  <2>10. ASSUME NEW m \in Mux, MuxStep(m) \/ AbortMux(m) \/ LoseMux(m)
         PROVE  UNCHANGED planner
    BY <2>10 DEF MuxStep, ClaimMux, Start, Call, Assign, AppendEvent, Record, EnsureMux,
                 HurryMux, MuxDone, AbortMux, LoseMux
  <2>11. ASSUME Wake \/ HurryWake \/ (\E old \in BOOLEAN : Maintain(old)) \/ UNCHANGED vars
         PROVE  UNCHANGED planner
    BY <2>11 DEF Wake, HurryWake, Maintain, vars
  <2> QED BY <1>6, <2>4, <2>5, <2>6, <2>7, <2>8, <2>9, <2>10, <2>11 DEF Next, PlanStep
<1> QED BY <1>5, <1>6

\* While plan jobs of the source follow one another, the batches under way never exceed
\* the provider's streams, though they are counted before the slots are locked and jobs
\* fail, are repaired and start in between (plan_transcription_mux_jobs).
THEOREM StreamsAreBounded == Spec => []StreamsWithinLimit
<1>1. Init => StreamInv
  <2> SUFFICES ASSUME Init PROVE StreamInv
    OBVIOUS
  <2>1. ActiveStreams = {}
    BY DEF Init, ActiveStreams
  <2>2. Cardinality(ActiveStreams) = 0
    BY <2>1, FS_EmptySet
  <2>3. \A w \in Planner : planner[w].pc = "idle"
    BY DEF Init, IdlePlanner
  <2> QED BY <2>2, <2>3, MuxAssumption DEF StreamInv
<1>2. Inv /\ StreamInv /\ [Next]_vars => StreamInv'
  BY StreamStep
<1>3. StreamInv => StreamsWithinLimit
  BY DEF StreamInv, StreamsWithinLimit
<1> QED BY <1>1, <1>2, <1>3, InvHolds, PTL DEF Spec

=============================================================================
