----------------------------- MODULE WakeActivation -----------------------------
(***************************************************************************)
(* The wake activations of one room: a wake word opens a window in which    *)
(* the speaker's request is collected, a later wake amends or replaces the  *)
(* activation, and once the request's audio is transcribed an agent task is *)
(* dispatched.  The handler of an activation, the wakes that rewrite its    *)
(* row, the capture and the transcription of speech, and a crash all go on  *)
(* at once; what a handler read is in its worker's record.                  *)
(*                                                                         *)
(* Time is counted in ticks longer than the lag of the committed capture    *)
(* statistics and the polls of the handler, which are one tick.             *)
(***************************************************************************)
EXTENDS Integers, FiniteSets, Sequences

CONSTANTS
    Wake,         \* wake_detected events, numbered as they are heard
    Segment,      \* stretches of speech, each an audio segment in the end
    Worker,       \* the workers of the lane
    WakerOf,      \* [Wake -> speakers]
    VoiceOf,      \* [Segment -> speakers]
    MinPost,      \* min_post_seconds
    Idle,         \* speaker_idle_seconds
    MaxWindow,    \* max_window_seconds
    Additive,     \* additive_preempt_seconds
    Independent,  \* independent_after_seconds
    Settlement,   \* transcription_settlement_seconds, at least 1
    LastInput,    \* bound: the last tick at which a wake or speech begins
    LastTick,     \* bound on time
    MaxCrashes    \* bound on crashes

ASSUME WakeAssumption ==
    /\ Wake \subseteq Nat /\ IsFiniteSet(Wake) /\ Wake # {}
    /\ { MinPost, Idle, MaxWindow, Additive, Independent, LastInput, LastTick, MaxCrashes } \subseteq Nat
    /\ Settlement \in Nat \ { 0 }
    /\ LastInput + MaxWindow + Settlement <= LastTick

VARIABLES
    now,       \* the clock
    rows,      \* the wake_activation rows, in the order of their creation
    progress,  \* [row -> closed_at of its progress record, or Never]
    tasks,     \* [Wake -> what its request became]
    closings,  \* [Wake -> window_closed events that name it as the latest wake]
    wakes,     \* [Wake -> the schedule_from_wake_event that handles it]
    speech,    \* [Segment -> the stretch of speech and where it is]
    worker,    \* [Worker -> Idling or the handler at work]
    raced,     \* activations whose row was rewritten under a handler or another wake
    crowded,   \* wakes whose row was claimed between a handler's last read and write of it
    slipped,   \* segments that became a slot after a handler had read the slots
    crashes    \* crashes so far

vars == << now, rows, progress, tasks, closings, wakes, speech, worker, raced, crowded, slipped, crashes >>

Never == -1
Time == 0 .. LastTick
Index == 1 .. Cardinality(Wake)

\* A row or task that is complete, failed or cancelled has settled: which of
\* these it is decides nothing here.  latest, first: the latest and the first wake; heard: all that the payload names.
\* The row's activation_id stands for its first wake.
Row == [ state : { "queued", "running", "waiting", "cancel_requested", "settled" },
         due : Int, first : Wake, latest : Wake, heard : SUBSET Wake ]

Earlier(a, b) == IF a < b THEN a ELSE b
Later(a, b) == IF a < b THEN b ELSE a
Latest(times) == CHOOSE t \in times : \A u \in times : u <= t

At(w) == wakes[w].at
HardCap(r) == At(r.first) + MaxWindow

---------------------------------------------------------------------------
(***************************************************************************)
(* The clock, and speech on its way from the microphone to the timeline.    *)
(***************************************************************************)

Tick ==
    /\ now < LastTick
    /\ now' = now + 1
    /\ UNCHANGED << rows, progress, tasks, closings, wakes, speech, worker, raced, crowded, slipped, crashes >>

unchangedByAudio == UNCHANGED << now, rows, progress, tasks, closings, wakes, worker, raced, crowded, crashes >>

InAir(s) == speech[s].stage \in { "live", "orphan" }

\* A speaker begins: the committed statistics show audio in the buffer.
Speak(s) ==
    /\ speech[s].stage = "silent" /\ now <= LastInput
    /\ \A t \in Segment : VoiceOf[t] = VoiceOf[s] => speech[t].stage # "live"
    /\ speech' = [ speech EXCEPT ![s] = [ stage |-> "live", start |-> now, end |-> now ] ]
    /\ UNCHANGED slipped
    /\ unchangedByAudio

\* A longer pause ends the stretch: only the flush is left.
Talk(s) ==
    /\ speech[s].stage = "live" /\ speech[s].end = now - 1
    /\ speech' = [ speech EXCEPT ![s].end = now ]
    /\ UNCHANGED slipped
    /\ unchangedByAudio

\* flush_ready_buffers stores the audio_segment job before it commits the
\* statistics that no longer show the audio.
Flush(s) ==
    /\ speech[s].stage = "live"
    /\ speech' = [ speech EXCEPT ![s].stage = "audio" ]
    /\ UNCHANGED slipped
    /\ unchangedByAudio

\* The audio_segment job makes its slot and completes, or fails for good; one
\* that may be retried counts as pending and stays.
Validate(s) ==
    /\ speech[s].stage = "audio"
    /\ \E next \in { "slot", "audio_failed" } :
         /\ speech' = [ speech EXCEPT ![s].stage = next ]
         /\ slipped' = IF next = "slot" /\ \E k \in Worker : worker[k].stage = "jobs"
                       THEN slipped \cup { s } ELSE slipped
    /\ unchangedByAudio

\* The mux job publishes the text, finds that there is none, or fails.
Transcribe(s) ==
    /\ speech[s].stage = "slot"
    /\ \E next \in { "published", "blank", "slot_failed" } :
         speech' = [ speech EXCEPT ![s].stage = next ]
    /\ UNCHANGED slipped
    /\ unchangedByAudio

\* After a crash the statistics show audio that is gone, until they are synced.
DropOrphan(s) ==
    /\ speech[s].stage = "orphan"
    /\ speech' = [ speech EXCEPT ![s].stage = "dropped" ]
    /\ UNCHANGED slipped
    /\ unchangedByAudio

Overlaps(s, from, to) == speech[s].start <= to /\ speech[s].end >= from

---------------------------------------------------------------------------
(***************************************************************************)
(* schedule_from_wake_event, in a wake_probe or a /wake job.                *)
(***************************************************************************)

NoRow == [ state |-> "queued", due |-> 0, first |-> CHOOSE w \in Wake : TRUE,
           latest |-> CHOOSE w \in Wake : TRUE, heard |-> {} ]

Unheard == [ stage |-> "unheard", at |-> 0, target |-> 0, copy |-> NoRow, listed |-> {} ]

Tasked(j) == \E w \in Wake : tasks[w].state # "none" /\ tasks[w].of = j

\* Wakes at work on row j: from their choice of the row to their last write.
Rewriters(j) ==
    { w \in Wake : /\ wakes[w].target = j
                   /\ wakes[w].stage \in { "chosen", "clear", "amend", "cancel", "root" } }

Handlers(j) == { k \in Worker : worker[k].stage # "idle" /\ worker[k].job = j }

Apart(w, r) == IF At(w) < At(r.latest) THEN At(r.latest) - At(w) ELSE At(w) - At(r.latest)

\* list_active_jobs_by_scope_kind
Listed(w) ==
    { [ job |-> j, row |-> rows[j] ] :
        j \in { i \in DOMAIN rows : rows[i].state # "settled" /\ Apart(w, rows[i]) <= Independent } }

\* activation_can_be_rewritten: what it has spawned is read after the rows.
Candidates(w) ==
    { c \in wakes[w].listed :
        Apart(w, c.row) <= Additive \/ c.row.state = "queued" \/ ~Tasked(c.job) }

Hear(w) ==
    /\ wakes[w].stage = "unheard" /\ now <= LastInput
    /\ \A v \in Wake : v < w => wakes[v].stage # "unheard"
    /\ wakes' = [ wakes EXCEPT ![w].stage = "heard", ![w].at = now ]
    /\ UNCHANGED << now, rows, progress, tasks, closings, speech, worker, raced, crowded, slipped, crashes >>

\* activation_followup_target: the active rows are read, and the newest that fits
\* is chosen.
Look(w) ==
    /\ wakes[w].stage = "heard"
    /\ wakes' = [ wakes EXCEPT ![w].stage = "listed", ![w].listed = Listed(w) ]
    /\ UNCHANGED << now, rows, progress, tasks, closings, speech, worker, raced, crowded, slipped, crashes >>

Choose(w) ==
    /\ wakes[w].stage = "listed"
    /\ \/ /\ Candidates(w) = {}
          /\ wakes' = [ wakes EXCEPT ![w].stage = "create", ![w].listed = {} ]
          /\ UNCHANGED raced
       \/ \E c \in Candidates(w) :
            /\ \A d \in Candidates(w) : d.job <= c.job
            /\ wakes' = [ wakes EXCEPT ![w].stage = "chosen", ![w].listed = {},
                                      ![w].target = c.job, ![w].copy = c.row ]
            /\ raced' = IF Handlers(c.job) = {} /\ Rewriters(c.job) = {} /\ rows[c.job] = c.row
                        THEN raced ELSE raced \cup { c.job }
    /\ UNCHANGED << now, rows, progress, tasks, closings, speech, worker, crowded, slipped, crashes >>

\* What the activation has spawned by now decides what becomes of it.
Inspect(w) ==
    /\ wakes[w].stage = "chosen"
    /\ wakes' = [ wakes EXCEPT ![w].stage = IF Tasked(wakes[w].target) THEN "cancel" ELSE "clear" ]
    /\ UNCHANGED << now, rows, progress, tasks, closings, speech, worker, raced, crowded, slipped, crashes >>

\* ready_at_string, of a wake that ended when it began.
ReadyAt(w) == At(w) + Later(MinPost, Idle)

\* amend_payload
Amended(r, w) == [ r EXCEPT !.latest = w, !.heard = @ \cup { w } ]

Queued(r, w) == [ r EXCEPT !.state = "queued", !.due = ReadyAt(w) ]

Scheduled(w) == [ wakes EXCEPT ![w].stage = "done", ![w].copy = NoRow ]

Insert(r) ==
    /\ rows' = Append(rows, r)
    /\ progress' = Append(progress, Never)

Create(w) ==
    /\ wakes[w].stage = "create"
    /\ Insert(Queued([ NoRow EXCEPT !.first = w, !.latest = w, !.heard = { w } ], w))
    /\ wakes' = Scheduled(w)
    /\ UNCHANGED << now, tasks, closings, speech, worker, raced, crowded, slipped, crashes >>

\* Mutant: an amended activation keeps the boundary it had recorded.
KeepProgress(w) ==
    /\ wakes[w].stage = "clear"
    /\ wakes' = [ wakes EXCEPT ![w].stage = "amend" ]
    /\ UNCHANGED << now, rows, progress, tasks, closings, speech, worker, raced, crowded, slipped, crashes >>

\* amend_activation_job clears the progress and then writes the row it read.
Clear(w) ==
    /\ wakes[w].stage = "clear"
    /\ progress' = [ progress EXCEPT ![wakes[w].target] = Never ]
    /\ wakes' = [ wakes EXCEPT ![w].stage = "amend" ]
    /\ UNCHANGED << now, rows, tasks, closings, speech, worker, raced, crowded, slipped, crashes >>

Amend(w) ==
    /\ wakes[w].stage = "amend"
    /\ rows' = [ rows EXCEPT ![wakes[w].target] = Queued(Amended(wakes[w].copy, w), w) ]
    /\ wakes' = Scheduled(w)
    /\ UNCHANGED << now, progress, tasks, closings, speech, worker, raced, crowded, slipped, crashes >>

\* cancel_job_tree: of the tasks there are by now some settle, one at work is only
\* asked to stop.
CancelTree(w) ==
    /\ wakes[w].stage = "cancel"
    /\ \E stopped \in SUBSET { v \in Wake : tasks[v].of = wakes[w].target /\ tasks[v].state = "open" } :
         tasks' = [ v \in Wake |-> IF v \in stopped THEN [ tasks[v] EXCEPT !.state = "settled" ]
                                   ELSE tasks[v] ]
    /\ wakes' = [ wakes EXCEPT ![w].stage = "root" ]
    /\ UNCHANGED << now, rows, progress, closings, speech, worker, raced, crowded, slipped, crashes >>

\* Last the row is written, as it was listed.
CancelRoot(w) ==
    /\ wakes[w].stage = "root"
    /\ rows' = [ rows EXCEPT ![wakes[w].target] =
                   [ wakes[w].copy EXCEPT !.state = IF @ = "running" THEN "cancel_requested"
                                                    ELSE "settled" ] ]
    /\ wakes' = [ wakes EXCEPT ![w].stage = "replace" ]
    /\ UNCHANGED << now, progress, tasks, closings, speech, worker, raced, crowded, slipped, crashes >>

\* replacement_activation_job: a new row with the payload of the old one.
Replace(w) ==
    /\ wakes[w].stage = "replace"
    /\ Insert(Queued(Amended(wakes[w].copy, w), w))
    /\ wakes' = Scheduled(w)
    /\ UNCHANGED << now, tasks, closings, speech, worker, raced, crowded, slipped, crashes >>

Schedule(w) ==
    \/ Look(w) \/ Choose(w) \/ Inspect(w) \/ Create(w) \/ Clear(w) \/ Amend(w)
    \/ CancelTree(w) \/ CancelRoot(w) \/ Replace(w)

---------------------------------------------------------------------------
(***************************************************************************)
(* wake_activations::execute, from the claim of a row to the write of the   *)
(* decision.  A worker works on the row, and at the time, of its claim.     *)
(***************************************************************************)

Idling == [ stage |-> "idle", job |-> 0, copy |-> NoRow, time |-> 0,
            closed |-> Never, pending |-> {} ]

Goto(k, stage) == worker' = [ worker EXCEPT ![k].stage = stage ]

Leave(k) == Goto(k, "leave")

\* The room's ordering key is held by the rows that run or are asked to stop.
KeyHeld == \E j \in DOMAIN rows : rows[j].state \in { "running", "cancel_requested" }

Claim(k, j) ==
    /\ worker[k].stage = "idle"
    /\ rows[j].state = "queued" /\ rows[j].due <= now /\ ~KeyHeld
    /\ rows' = [ rows EXCEPT ![j].state = "running", ![j].due = 0 ]
    /\ worker' = [ worker EXCEPT ![k] =
                     [ Idling EXCEPT !.stage = "start", !.job = j, !.copy = rows'[j], !.time = now ] ]
    /\ raced' = IF Rewriters(j) = {} THEN raced ELSE raced \cup { j }
    /\ crowded' = IF \E i \in Handlers(j) : worker[i].stage = "finish"
                  THEN crowded \cup { rows[j].latest } ELSE crowded
    /\ UNCHANGED << now, progress, tasks, closings, wakes, speech, slipped, crashes >>

\* What worker k sees as its activation.
Mine(k) == worker[k].copy
Voice(r) == WakerOf[r.latest]

Spoken(r) == { s \in Segment : VoiceOf[s] = Voice(r) /\ speech[s].stage # "silent" }

\* latest_speaker_event_end looks at every event of the speaker: wakes and
\* closings as well as speech.
SpeakerEnds(r) ==
    { At(w) : w \in { v \in Wake : WakerOf[v] = Voice(r) /\ wakes[v].stage # "unheard" } }
    \cup (UNION { { closings[w][i] : i \in DOMAIN closings[w] } :
                  w \in { v \in Wake : WakerOf[v] = Voice(r) } })
    \cup { speech[s].end : s \in { t \in Spoken(r) : speech[t].stage = "published" } }

\* activation_due_at, with the hard cap
DueAt(r) ==
    LET last == Latest({ At(r.latest) } \cup SpeakerEnds(r))
    IN  Earlier(Later(At(r.latest) + MinPost, last + Idle), HardCap(r))

\* live_speaker_capture_hold: the speaker's latest packet, and what is buffered.
Hold(r, time) ==
    /\ time < HardCap(r)
    /\ \E s \in Spoken(r) : speech[s].end >= At(r.latest)
                            /\ (InAir(s) \/ speech[s].end + Idle > time)

HeldUntil(r, time) ==
    LET last == Latest({ speech[s].end : s \in Spoken(r) })
    IN  Earlier(IF last + Idle > time THEN last + Idle ELSE time + 1, HardCap(r))

\* The handler's copy is written back as queued.
Defer(k, due) ==
    /\ rows' = [ rows EXCEPT ![worker[k].job] = [ Mine(k) EXCEPT !.state = "queued", !.due = due ] ]
    /\ Leave(k)
    /\ UNCHANGED << now, progress, tasks, closings, wakes, speech, raced, crowded, slipped, crashes >>

Settling(k, stage, closed) ==
    worker' = [ worker EXCEPT ![k].stage = stage, ![k].closed = closed ]

unchangedByReading == UNCHANGED << now, rows, tasks, wakes, speech, raced, crowded, slipped, crashes >>

\* Retries reuse the boundary that is recorded.
Resume(k) ==
    /\ worker[k].stage = "start" /\ progress[worker[k].job] # Never
    /\ Settling(k, "live", progress[worker[k].job])
    /\ unchangedByReading /\ UNCHANGED << progress, closings >>

Started(k) == worker[k].stage = "start" /\ progress[worker[k].job] = Never

\* Mutant: closed whatever the events say.
NotClosed(k) == TRUE

\* activation_window_closed_at
Unclosed(k) == closings[Mine(k).latest] = << >>

\* The event is there although the progress is not: the boundary is recorded.
Rediscover(k) ==
    /\ Started(k) /\ ~Unclosed(k)
    /\ Settling(k, "record", Latest({ closings[Mine(k).latest][i] :
                                        i \in DOMAIN closings[Mine(k).latest] }))
    /\ unchangedByReading /\ UNCHANGED << progress, closings >>

WaitForDue(k) ==
    /\ Started(k) /\ Unclosed(k) /\ worker[k].time < DueAt(Mine(k))
    /\ Defer(k, DueAt(Mine(k)))

WaitForSpeaker(k) ==
    /\ Started(k) /\ Unclosed(k) /\ worker[k].time >= DueAt(Mine(k))
    /\ Hold(Mine(k), worker[k].time)
    /\ Defer(k, HeldUntil(Mine(k), worker[k].time))

EndWindow(k) ==
    /\ Started(k) /\ Unclosed(k) /\ worker[k].time >= DueAt(Mine(k))
    /\ ~Hold(Mine(k), worker[k].time)
    /\ Settling(k, "close", IF worker[k].time >= HardCap(Mine(k)) THEN HardCap(Mine(k))
                            ELSE DueAt(Mine(k)))
    /\ unchangedByReading /\ UNCHANGED << progress, closings >>

\* record_activation_window_closed: the event and the acknowledgement.
Close(k) ==
    /\ worker[k].stage = "close"
    /\ closings' = [ closings EXCEPT ![Mine(k).latest] = Append(@, worker[k].closed) ]
    /\ Goto(k, "record")
    /\ unchangedByReading /\ UNCHANGED progress

\* record_wake_activation_progress
Record(k) ==
    /\ worker[k].stage = "record"
    /\ progress' = [ progress EXCEPT ![worker[k].job] = worker[k].closed ]
    /\ Goto(k, "live")
    /\ unchangedByReading /\ UNCHANGED closings

Open(k) ==
    \/ Resume(k) \/ Rediscover(k) \/ WaitForDue(k) \/ WaitForSpeaker(k)
    \/ EndWindow(k) \/ Close(k) \/ Record(k)

---------------------------------------------------------------------------
(***************************************************************************)
(* room_transcription_settlement and what follows from it.                  *)
(***************************************************************************)

\* is_requester_audio: the speaker's own, since the latest wake.
IsRequester(k, s) == VoiceOf[s] = Voice(Mine(k)) /\ Overlaps(s, At(Mine(k).latest), worker[k].closed)

InWindow(k, stages) == { s \in Segment : speech[s].stage \in stages
                                         /\ speech[s].start <= worker[k].closed }

Pending(k, stages) == { IF IsRequester(k, s) THEN "requester" ELSE "context" : s \in InWindow(k, stages) }

Failure(k, stage) == { "failed" : s \in { t \in InWindow(k, { stage }) : IsRequester(k, t) } }

See(k, stage, found) == worker' = [ worker EXCEPT ![k].stage = stage, ![k].pending = @ \cup found ]

\* The live sessions, the slots and the jobs are read one after the other.
ReadLive(k) ==
    /\ worker[k].stage = "live"
    /\ See(k, "slots", Pending(k, { "live", "orphan" }))
    /\ unchangedByReading /\ UNCHANGED << progress, closings >>

ReadSlots(k) ==
    /\ worker[k].stage = "slots"
    /\ See(k, "jobs", Pending(k, { "slot" }) \cup Failure(k, "slot_failed"))
    /\ unchangedByReading /\ UNCHANGED << progress, closings >>

\* What the three reads have found once the jobs are read.
Found(k) == worker[k].pending \cup Pending(k, { "audio" }) \cup Failure(k, "audio_failed")

\* Mutant: there is no deadline.
NoDeadline(k) == FALSE

Expired(k) == worker[k].time >= worker[k].closed + Settlement

\* Mutant: at the deadline the speaker is treated like the others.
FailsOnFailure(k) == "failed" \in Found(k)

Fails(k) == "failed" \in Found(k) \/ (Expired(k) /\ "requester" \in Found(k))

Waits(k) == ~Fails(k) /\ ~Expired(k) /\ Found(k) # {}

WaitForTranscription(k) ==
    /\ worker[k].stage = "jobs" /\ Waits(k)
    /\ Defer(k, worker[k].time + 1)

ReadJobs(k) ==
    /\ worker[k].stage = "jobs" /\ ~Waits(k)
    /\ See(k, IF Fails(k) THEN "fail" ELSE "dispatch", {})
    /\ unchangedByReading /\ UNCHANGED << progress, closings >>

\* Some text of the speaker lies in the window.
HasText(k) == \E s \in Segment : speech[s].stage = "published" /\ IsRequester(k, s)

\* create_child_job inserts the task and writes the handler's copy as waiting.
Dispatch(k) ==
    /\ worker[k].stage = "dispatch" /\ HasText(k)
    /\ tasks' = [ tasks EXCEPT ![Mine(k).latest] =
                    [ state |-> "open", of |-> worker[k].job, closed |-> worker[k].closed ] ]
    /\ rows' = [ rows EXCEPT ![worker[k].job] = [ Mine(k) EXCEPT !.state = "waiting" ] ]
    /\ Leave(k)
    /\ UNCHANGED << now, progress, closings, wakes, speech, raced, crowded, slipped, crashes >>

\* There is no text, or none but the wake phrase.
NoRequest(k) ==
    /\ worker[k].stage = "dispatch"
    /\ Leave(k)
    /\ unchangedByReading /\ UNCHANGED << progress, closings >>

\* complete_dispatched_job and fail_dispatched_job read the row and write it back;
\* one that was deferred may be claimed by another worker meanwhile.
Reread(k) ==
    /\ worker[k].stage \in { "leave", "fail" }
    /\ LET row == rows[worker[k].job]
           done == worker[k].stage = "fail" \/ row.state \notin { "queued", "waiting" }
       IN  worker' = [ worker EXCEPT ![k].stage = "finish",
                                     ![k].copy = IF done THEN [ row EXCEPT !.state = "settled" ]
                                                 ELSE row ]
    /\ unchangedByReading /\ UNCHANGED << progress, closings >>

Finish(k) ==
    /\ worker[k].stage = "finish"
    /\ rows' = [ rows EXCEPT ![worker[k].job] = Mine(k) ]
    /\ worker' = [ worker EXCEPT ![k] = Idling ]
    /\ UNCHANGED << now, progress, tasks, closings, wakes, speech, raced, crowded, slipped, crashes >>

Handle(k) ==
    \/ Open(k) \/ ReadLive(k) \/ ReadSlots(k) \/ WaitForTranscription(k) \/ ReadJobs(k)
    \/ Dispatch(k) \/ NoRequest(k) \/ Reread(k) \/ Finish(k)

---------------------------------------------------------------------------
(***************************************************************************)
(* The rest of the runtime.                                                 *)
(***************************************************************************)

TaskSettles(w) ==
    /\ tasks[w].state = "open"
    /\ tasks' = [ tasks EXCEPT ![w].state = "settled" ]
    /\ UNCHANGED << now, rows, progress, closings, wakes, speech, worker, raced, crowded, slipped, crashes >>

\* resolve_waiting_jobs: the parent settles once its tasks have.
ResolveWaiting(j) ==
    /\ rows[j].state = "waiting"
    /\ \A w \in Wake : tasks[w].of = j => tasks[w].state # "open"
    /\ rows' = [ rows EXCEPT ![j].state = "settled" ]
    /\ UNCHANGED << now, progress, tasks, closings, wakes, speech, worker, raced, crowded, slipped, crashes >>

\* The process stops: handlers and wakes under way are gone, and so is the audio
\* in the buffers, which the statistics still show.
Crash ==
    /\ crashes < MaxCrashes
    /\ crashes' = crashes + 1
    /\ worker' = [ k \in Worker |-> Idling ]
    /\ wakes' = [ w \in Wake |-> IF wakes[w].stage \in { "unheard", "done", "lost" } THEN wakes[w]
                                 ELSE [ wakes[w] EXCEPT !.stage = "lost", !.copy = NoRow, !.listed = {} ] ]
    /\ speech' = [ s \in Segment |-> IF speech[s].stage = "live"
                                     THEN [ speech[s] EXCEPT !.stage = "orphan" ] ELSE speech[s] ]
    /\ UNCHANGED << now, rows, progress, tasks, closings, raced, crowded, slipped >>

\* fail_stale_running_jobs: a row that runs without a handler times out.
Sweep(j) ==
    /\ rows[j].state = "running" /\ Handlers(j) = {}
    /\ rows' = [ rows EXCEPT ![j].state = "settled" ]
    /\ UNCHANGED << now, progress, tasks, closings, wakes, speech, worker, raced, crowded, slipped, crashes >>

Init ==
    /\ now = 0
    /\ rows = << >>
    /\ progress = << >>
    /\ tasks = [ w \in Wake |-> [ state |-> "none", of |-> 0, closed |-> Never ] ]
    /\ closings = [ w \in Wake |-> << >> ]
    /\ wakes = [ w \in Wake |-> Unheard ]
    /\ speech = [ s \in Segment |-> [ stage |-> "silent", start |-> 0, end |-> 0 ] ]
    /\ worker = [ k \in Worker |-> Idling ]
    /\ raced = {}
    /\ crowded = {}
    /\ slipped = {}
    /\ crashes = 0

Hearing(s) == Flush(s) \/ Validate(s) \/ Transcribe(s) \/ DropOrphan(s)

Runtime(j) == ResolveWaiting(j) \/ Sweep(j) \/ \E k \in Worker : Claim(k, j)

\* What the runtime does by itself.
Work ==
    \/ \E w \in Wake : Schedule(w) \/ TaskSettles(w)
    \/ \E k \in Worker : Handle(k)
    \/ \E j \in DOMAIN rows : Runtime(j)

Next ==
    \/ Tick \/ Crash \/ Work
    \/ \E w \in Wake : Hear(w)
    \/ \E s \in Segment : Speak(s) \/ Talk(s) \/ Hearing(s)

Spec == Init /\ [][Next]_vars

\* Time passes and the runtime does not stop; speakers and providers may.
FairSpec == Spec /\ WF_vars(Tick \/ Work)

---------------------------------------------------------------------------
(***************************************************************************)
(* Properties.                                                              *)
(***************************************************************************)

Moment == Time \cup { Never }

Task == [ state : { "none", "open", "settled" }, of : Nat, closed : Moment ]

Stretch ==
    [ stage : { "silent", "live", "orphan", "audio", "audio_failed", "slot", "slot_failed",
                "published", "blank", "dropped" },
      start : Time, end : Time ]

Schedules(targets) ==
    [ stage : { "unheard", "heard", "listed", "chosen", "create", "clear", "amend", "cancel", "root",
                "replace", "done", "lost" },
      at : Time, target : targets, copy : Row, listed : SUBSET [ job : targets, row : Row ] ]

Handler(jobs) ==
    [ stage : { "idle", "start", "close", "record", "live", "slots", "jobs", "dispatch", "fail",
                "leave", "finish" },
      job : jobs, copy : Row, time : Time, closed : Moment,
      pending : SUBSET { "requester", "context", "failed" } ]

\* Every variable has its type, and every wake at most one row.
TypeOK ==
    /\ now \in Time
    /\ rows \in Seq(Row) /\ Len(rows) <= Cardinality(Wake)
    /\ progress \in Seq(Moment) /\ Len(progress) = Len(rows)
    /\ tasks \in [ Wake -> Task ]
    /\ closings \in [ Wake -> Seq(Time) ]
    /\ wakes \in [ Wake -> Schedules({ 0 } \cup DOMAIN rows) ]
    /\ speech \in [ Segment -> Stretch ]
    /\ \A s \in Segment : speech[s].start <= speech[s].end /\ speech[s].end <= now
    /\ worker \in [ Worker -> Handler({ 0 } \cup DOMAIN rows) ]
    /\ raced \subseteq DOMAIN rows /\ crowded \subseteq Wake /\ slipped \subseteq Segment /\ crashes \in 0 .. MaxCrashes

\* The window of a wake is closed, and the speaker told so, once: not again by a
\* retry, by a copy of the row that an amendment had replaced, or after a crash
\* (execute looks for the event when there is no progress).  Excepted are wakes whose
\* row was claimed between the read and the write of complete_dispatched_job for a
\* handler that had deferred it: the write queues it again under the new handler.
ClosedOnce == \A w \in Wake : Len(closings[w]) <= 1 \/ w \in crowded

\* Some of stretch s was spoken in the ticks from the first up to the second.
Within(s, from, to) == from < to /\ Overlaps(s, from, to - 1)

\* An agent task is dispatched only when what its speaker said in the window is
\* transcribed: nothing of the request is cut off on its way from the buffer to
\* the timeline.  Excepted is what became a slot between the handler's read of
\* the slots and its read of the jobs (room_transcription_settlement).
RequestIsWhole ==
    [][ \A w \in Wake : tasks[w].state = "none" /\ tasks'[w].state = "open" =>
          \A s \in Segment :
            VoiceOf[s] = WakerOf[w] /\ Within(s, At(w), tasks'[w].closed) =>
              speech[s].stage \in { "silent", "published", "blank", "dropped" } \/ s \in slipped ]_vars

\* A later wake of an activation is given its time: what is dispatched was not
\* closed at the boundary of an earlier one.  Excepted are activations that a
\* wake rewrote while a handler was at work on them (amend_activation_job), and
\* wakes heard after the one that was scheduled last, whose time the row takes
\* (amend_payload).
LaterWakeIsHeardOut ==
    \A w \in Wake : tasks[w].state # "none" /\ tasks[w].of \notin raced =>
      LET r == rows[tasks[w].of]
      IN  \A v \in r.heard :
            At(v) <= At(r.latest) =>
              tasks[w].closed >= Earlier(At(v) + MinPost, HardCap(r))

\* A wake whose scheduling a crash did not cut short belongs to an activation
\* that settles, whatever speakers and providers do: the hard cap closes the
\* window, the deadline ends the wait for transcription.  Excepted are rows
\* rewritten under a handler, and a row asked to stop that nobody works on any more,
\* after a crash or because its handler had gone when cancel_job_tree wrote it; and
\* two handlers may not go on for ever to write one row back under each other.
EveryWakeIsAnswered ==
    \/ []<>(\E j \in DOMAIN rows : \E k, i \in Handlers(j) : k # i)
    \/ <>[]
         \/ \E j \in DOMAIN rows : rows[j].state = "cancel_requested"
                                  /\ (crashes > 0 \/ j \in raced)
         \/ \A w \in Wake :
              \/ wakes[w].stage \in { "unheard", "lost" }
              \/ /\ wakes[w].stage = "done"
                 /\ \E j \in DOMAIN rows :
                      /\ rows[j].state = "settled"
                      /\ w \in rows[j].heard \/ wakes[w].target \in raced
=============================================================================
