------------------------------ MODULE MuxBatch ------------------------------
(***************************************************************************)
(* How the planner packs the slots that wait for one transcription source   *)
(* into the batch of one provider call: by priority, then in fair turns of  *)
(* the speakers, within the limits on slots and audio.  A queue is the      *)
(* sequence of the waiting slots in the order of their creation.            *)
(***************************************************************************)
EXTENDS Integers, SequencesExt

CONSTANTS
    Duration,   \* [slot -> milliseconds of speech]
    Flow,       \* [slot -> its room and speaker]
    MaxSlots,   \* transcription.mux_max_slots
    MaxAudio,   \* transcription.mux_max_audio_ms
    Guard       \* transcription.mux_guard_ms

\* Speech, with a guard before and after each slot but before the first.
MuxAudio(batch) ==
    IF batch = << >> THEN 0
    ELSE FoldLeft(LAMBDA sum, s : sum + Duration[s], 0, batch)
           + Guard * (2 * Len(batch) - 1)

IsFull(batch) == Len(batch) >= MaxSlots

\* A slot joins unless the batch is full, or not empty and would be too long.
Join(batch, s) ==
    IF \/ IsFull(batch)
       \/ batch # << >> /\ MuxAudio(Append(batch, s)) > MaxAudio
    THEN batch
    ELSE Append(batch, s)

FlowOf(queue, s) == SelectSeq(queue, LAMBDA t : Flow[t] = Flow[s])

\* The r-th turn: the r-th slot of every flow, flows in the order of their oldest.
Turn(queue, r) ==
    LET oldest == SelectSeq(queue, LAMBDA s : FlowOf(queue, s)[1] = s)
        long   == SelectSeq(oldest, LAMBDA s : Len(FlowOf(queue, s)) >= r)
    IN  [ i \in DOMAIN long |-> FlowOf(queue, long[i])[r] ]

\* Turns are taken until one of them adds nothing.
TakeTurns(batch, queue) ==
    LET after[r \in 0 .. Len(queue)] ==
          IF r = 0 THEN batch
          ELSE IF r > 1 /\ after[r - 1] = after[r - 2] THEN after[r - 1]
          ELSE FoldLeft(Join, after[r - 1], Turn(queue, r))
    IN  after[Len(queue)]

\* A slot that must go alone goes alone, or waits.
CutAtSingle(batch, single) ==
    LET first == SelectInSeq(batch, LAMBDA s : s \in single)
    IN  CASE first = 0 -> batch
          [] first = 1 -> SubSeq(batch, 1, 1)
          [] OTHER     -> SubSeq(batch, 1, first - 1)

\* select_fair_mux_batch, for the two priorities the program knows.
Batch(queue, urgent, single) ==
    LET first == TakeTurns(<< >>, SelectSeq(queue, LAMBDA s : s \in urgent))
        all   == IF IsFull(first) \/ MuxAudio(first) >= MaxAudio THEN first
                 ELSE TakeTurns(first, SelectSeq(queue, LAMBDA s : s \notin urgent))
    IN  CutAtSingle(all, single)
=============================================================================
