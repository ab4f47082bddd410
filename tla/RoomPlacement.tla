----------------------------- MODULE RoomPlacement -----------------------------
(***************************************************************************)
(* Which bot records which room: the placement jobs that claim a bot and    *)
(* have it join or leave, the automation that submits them, the controls    *)
(* that hold a room or keep bots away from it, and the sync that corrects   *)
(* the rows after what the adapter saw.  A placement job holds its room's   *)
(* ordering key while it runs, but not while it waits for its children.     *)
(***************************************************************************)
EXTENDS VoiceAdapter

CONSTANTS
    Crowd       \* what a room may hold: { "gone", "few", "deaf", "enough" }

VARIABLES
    join,       \* [Room -> the open placement job that joins it]
    leave,      \* [Room -> the open placement job that leaves it]
    control,    \* [Room -> its row of room_controls]
    people      \* [Room -> who is in it]

placementVars == << join, leave, control, people >>
vars == << adapterVars, placementVars >>

\* by: who asked for it; bot: the bot read as free, in a claim.
JoinPlacement ==
    [ step : { "none", "queued", "claiming", "waiting", "cue" }, by : { "user", "policy" },
      capture : Capture \cup { Nothing }, bot : Bot \cup { Nothing } ]

\* why: the reason, "manual" for manual_leave.
LeavePlacement ==
    [ step : { "none", "queued", "waiting" }, why : { "manual", "policy" },
      capture : Capture \cup { Nothing } ]

\* until: auto_join_suppressed_until has not passed, and for which reason.
Control == [ hold : BOOLEAN, until : { "none", "manual", "policy" } ]

NoJoin  == [ step |-> "none", by |-> "policy", capture |-> Nothing, bot |-> Nothing ]
NoLeave == [ step |-> "none", why |-> "policy", capture |-> Nothing ]

Init ==
    /\ AdapterInit
    /\ join = [ r \in Room |-> NoJoin ]
    /\ leave = [ r \in Room |-> NoLeave ]
    /\ control = [ r \in Room |-> [ hold |-> FALSE, until |-> "none" ] ]
    /\ people \in [ Room -> Crowd ]

-----------------------------------------------------------------------------
(* What the store answers. *)

Open == { c \in Capture : assign[c] \in { "joining", "capturing", "leaving" } }

Assigned(r)      == { c \in Open : RoomOf(c) = r }
RecordingIn(r)   == { c \in Capture : row[c] = "active" /\ RoomOf(c) = r }
SeenInRoom(r)    == { b \in Bot : botRow[b].room = r }

\* A bot that may be claimed, as read by one statement.
Idle(b) == botRow[b].room = Nothing /\ ~botRow[b].pending
Free(b) == Idle(b) /\ \A c \in Open : BotOf(c) # b

Available == \E b \in Bot : Free(b)

\* active_voice_join_for_room.
JoinUnderWay(r) ==
    \E c \in Capture : RoomOf(c) = r /\ joining[c] \in { "queued", "started" }

Oldest(S) == { c \in S : \A d \in S : c <= d }

\* close_capture_run: the run, its assignment and its session, each row read and
\* written as a whole.
Close(S, state) ==
    /\ assign' = [ c \in Capture |-> IF c \in S THEN state ELSE assign[c] ]
    /\ row' = [ c \in Capture |-> IF c \in S /\ row[c] # "none" THEN "ended" ELSE row[c] ]

\* set_room_manual_hold and suppress_room_auto_join; each clears the other.
Hold(r)        == control' = [ control EXCEPT ![r] = [ hold |-> TRUE, until |-> "none" ] ]
KeepAway(r, u) == control' = [ control EXCEPT ![r] = [ hold |-> FALSE, until |-> u ] ]

\* The bot statuses that children return are persisted again by their parents.
StoreBot(b, status) == botRow' = [ botRow EXCEPT ![b] = status ]

unchangedAdapter == << place, live, audio, voice, client, snap, flushing, events >>

-----------------------------------------------------------------------------
(* Joining a room. *)

\* prepare_join_room_jobs: nothing to do when the room has an assignment, a bot,
\* or a join on its way; what a user asks for is held.  The statement of
\* claim_voice_assignment_for_room reads the free bots,
PrepareJoin(r) ==
    /\ join[r].step = "queued"
    /\ IF Assigned(r) # {} \/ SeenInRoom(r) # {} \/ JoinUnderWay(r)
       THEN join' = [ join EXCEPT ![r] = NoJoin ] /\ UNCHANGED control
       ELSE /\ IF join[r].by = "user" THEN Hold(r) ELSE UNCHANGED control
            /\ IF Available
               THEN \E b \in Bot :
                      /\ Free(b)
                      /\ join' = [ join EXCEPT ![r] = [ NoJoin EXCEPT !.step = "claiming", !.bot = b ] ]
               ELSE join' = [ join EXCEPT ![r] = NoJoin ]
    /\ UNCHANGED << adapterVars, leave, people >>

\* then it locks the row of one: of what it read only a row changed since is read
\* again, and may be given up for another; the assignment is inserted and the join
\* job submitted.  When no capture is left within the bound, the placement ends.
Claim(r) ==
    /\ join[r].step = "claiming"
    /\ LET new == { c \in Capture : assign[c] = "none" } IN
       IF new = {} \/ ~Idle(join[r].bot)
       THEN /\ join' \in { [ join EXCEPT ![r] = NoJoin ] } \cup
                         { [ join EXCEPT ![r].bot = b ] : b \in { f \in Bot : new # {} /\ Idle(f) } }
            /\ UNCHANGED << place, assign, joining >>
       ELSE \E c \in Oldest(new) :
            /\ place' = [ place EXCEPT ![c] = [ room |-> r, bot |-> join[r].bot ] ]
            /\ assign' = [ assign EXCEPT ![c] = "joining" ]
            /\ joining' = [ joining EXCEPT ![c] = "queued" ]
            /\ join' = [ join EXCEPT ![r] = [ NoJoin EXCEPT !.step = "waiting", !.capture = c ] ]
    /\ UNCHANGED << row, live, audio, voice, client, botRow, leaves, snap, flushing, events,
                    leave, control, people >>

\* commit_join_room_job writes what the join returned, whatever happened since.
CommitJoin(r, c) ==
    /\ StoreBot(BotOf(c), [ room |-> r, pending |-> FALSE ])
    /\ row' = [ row EXCEPT ![c] = "active" ]
    /\ assign' = [ assign EXCEPT ![c] = "capturing" ]
    /\ UNCHANGED << unchangedAdapter, joining, leaves, leave, control, people >>

\* resume_room_agent_placement_job: after the join, which is committed before the
\* cue is played,
JoinSucceeded(r) ==
    /\ join[r].step = "waiting" /\ joining[join[r].capture] = "ok"
    /\ join' = [ join EXCEPT ![r].step = "cue" ]
    /\ CommitJoin(r, join[r].capture)

\* and again after the cue.
CuePlayed(r) ==
    /\ join[r].step = "cue"
    /\ join' = [ join EXCEPT ![r] = NoJoin ]
    /\ CommitJoin(r, join[r].capture)

\* fail_join_room_job.
JoinGivenUp(r) ==
    /\ join[r].step = "waiting" /\ joining[join[r].capture] = "failed"
    /\ join' = [ join EXCEPT ![r] = NoJoin ]
    /\ KeepAway(r, "policy")
    /\ Close({ join[r].capture }, "failed")
    /\ UNCHANGED << unchangedAdapter, joining, botRow, leaves, leave, people >>

-----------------------------------------------------------------------------
(* Leaving a room. *)

NewLeave(r, c, by) ==
    [ room |-> r, capture |-> c, by |-> by, step |-> "queued", bot |-> Nothing,
      took |-> FALSE ]

\* The claim is made by a running job, which holds the room's ordering key.
KeyFree(r) == join[r].step # "claiming"

\* prepare_leave_room_jobs: bots are kept away; the oldest assignment is marked,
\* and its session left, after a cue; or else a bot without assignment.
PrepareLeave(r) ==
    /\ leave[r].step = "queued" /\ KeyFree(r)
    /\ KeepAway(r, leave[r].why)
    /\ IF Assigned(r) # {}
       THEN \E c \in Oldest(Assigned(r)) :
            /\ assign' = [ assign EXCEPT ![c] = "leaving" ]
            /\ leave' = [ leave EXCEPT ![r].step = "waiting", ![r].capture = c ]
            /\ leaves' = leaves \cup { NewLeave(r, c, "placement") }
       ELSE /\ UNCHANGED assign
            /\ IF SeenInRoom(r) # {}
               THEN /\ leave' = [ leave EXCEPT ![r].step = "waiting" ]
                    /\ leaves' = leaves \cup { NewLeave(r, Nothing, "placement") }
               ELSE leave' = [ leave EXCEPT ![r] = NoLeave ] /\ UNCHANGED leaves
    /\ UNCHANGED << unchangedAdapter, row, joining, botRow, join, people >>

Child(l, r) == l.by = "placement" /\ l.room = r

\* resume_room_agent_placement_job with a leave that completed:
\* commit_finished_room_session submits the audio it returned, closes the run and
\* persists the bot's status.
CommitLeave(r) ==
    /\ leave[r].step = "waiting" /\ KeyFree(r)
    /\ \E l \in leaves :
         /\ Child(l, r) /\ l.step = "done"
         /\ leaves' = leaves \ { l }
         /\ Close({ l.capture }, "ended")
         /\ IF l.took THEN audio' = [ audio EXCEPT ![l.capture] = "submitted" ]
                      ELSE UNCHANGED audio
         /\ IF l.bot = Nothing THEN UNCHANGED botRow
            ELSE \E fresh \in BOOLEAN : StoreBot(l.bot, [ room |-> Nothing, pending |-> fresh ])
    /\ leave' = [ leave EXCEPT ![r] = NoLeave ]
    /\ UNCHANGED << place, joining, live, voice, client, snap, flushing, events, join, control,
                    people >>

\* With a leave that failed nothing is committed.
LeaveGivenUp(r) ==
    /\ leave[r].step = "waiting" /\ KeyFree(r)
    /\ \E l \in leaves : Child(l, r) /\ l.step = "failed" /\ leaves' = leaves \ { l }
    /\ leave' = [ leave EXCEPT ![r] = NoLeave ]
    /\ UNCHANGED << unchangedAdapter, assign, row, joining, botRow, join, control, people >>

-----------------------------------------------------------------------------
(* The sync of a snapshot, sync_voice_adapter_status. *)

\* A snapshot that waited too long is taken again (prepare_voice_status_sync_job).
SnapshotExpired ==
    /\ snap.step = "taken"
    /\ snap' = NoSnapshot
    /\ Event
    /\ UNCHANGED << place, assign, row, joining, live, audio, voice, client, botRow, leaves,
                    flushing, placementVars >>

\* The rows of the snapshot are written; then what started before the snapshot and
\* is not in it is closed, unless it is still joining.
Matched == { c \in snap.sessions : snap.bots[BotOf(c)].room = RoomOf(c) }

\* Mutant: only sessions are looked at.
MissingSessions ==
    { c \in snap.known \ Matched : (c \in snap.sessions \/ row[c] = "active") /\ assign[c] # "joining" }

Missing ==
    { c \in snap.known \ Matched : /\ c \in Open \/ c \in snap.sessions \/ row[c] = "active"
                                   /\ assign[c] # "joining" }

Sync ==
    /\ snap.step = "taken"
    /\ botRow' = snap.bots
    /\ row' = [ c \in Capture |-> IF c \in Missing /\ (row[c] # "none" \/ c \in snap.sessions) THEN "ended"
                                  ELSE IF c \in snap.sessions THEN "active" ELSE row[c] ]
    /\ assign' = [ c \in Capture |-> IF c \in Missing THEN "ended" ELSE assign[c] ]
    /\ snap' = NoSnapshot
    /\ UNCHANGED << place, joining, live, audio, voice, client, leaves, flushing, events,
                    placementVars >>

-----------------------------------------------------------------------------
(* The automation, RoomAgentPlacementAutomation. *)

Present(r) == Assigned(r) # {} \/ RecordingIn(r) # {}

\* Mutant: a room with people in it is left only when they are deafened.
LeaveWantedByPolicy(r) ==
    Present(r) /\ (people[r] = "gone" \/ (people[r] = "deaf" /\ ~control[r].hold))

\* RoomAgentPlacementDecision.
LeaveWanted(r) ==
    Present(r) /\ \/ people[r] = "gone"
                  \/ control[r].until = "manual"
                  \/ (people[r] = "deaf" /\ ~control[r].hold)

JoinWanted(r) ==
    /\ ~Present(r) /\ Available /\ people[r] # "gone" /\ control[r].until # "manual"
    /\ control[r].hold \/ (people[r] = "enough" /\ control[r].until = "none")

Reason(r) == IF people[r] # "gone" /\ control[r].until = "manual" THEN "manual" ELSE "policy"

\* duplicate_voice_bot_sessions_for_room: all but the oldest session of a room.
Duplicates ==
    { NewLeave(RoomOf(c), c, "policy") : c \in
        { d \in UNION { RecordingIn(r) : r \in Room } :
            /\ d \notin Oldest(RecordingIn(RoomOf(d)))
            /\ \A l \in leaves : l.capture = d => l.step \in { "done", "failed" } } }

\* orphan_voice_bot_statuses: a bot that no assignment and no session accounts for.
OrphanIn(r) ==
    \E b \in SeenInRoom(r) :
        ~botRow[b].pending /\ \A c \in Capture : BotOf(c) = b => c \notin Open /\ row[c] # "active"

Orphans ==
    { NewLeave(r, Nothing, "policy") : r \in
        { q \in Room : /\ OrphanIn(q) /\ leave[q].step = "none"
                       /\ \A l \in leaves : l.room = q /\ l.by = "policy" => l.capture # Nothing } }

\* One evaluation: it decides for every room from what it read.  It does not run
\* with the snapshot or the sync, whose ordering key it shares.
Evaluate ==
    /\ snap.step \in { "idle", "taken" }
    /\ leave' = [ r \in Room |->
         IF LeaveWanted(r) /\ leave[r].step = "none" /\ ~JoinUnderWay(r)
         THEN [ NoLeave EXCEPT !.step = "queued", !.why = Reason(r) ] ELSE leave[r] ]
    /\ join' = [ r \in Room |->
         IF JoinWanted(r) /\ join[r].step = "none" /\ ~JoinUnderWay(r)
         THEN [ NoJoin EXCEPT !.step = "queued" ] ELSE join[r] ]
    /\ leaves' = leaves \cup Duplicates \cup Orphans
    /\ UNCHANGED << unchangedAdapter, assign, row, joining, botRow, control, people >>

-----------------------------------------------------------------------------
(* The people. *)

unchangedRows == << place, assign, row, joining, live, audio, voice, client, botRow, leaves,
                    snap, flushing >>

AskJoin(r) ==
    /\ join[r].step = "none"
    /\ join' = [ join EXCEPT ![r] = [ NoJoin EXCEPT !.step = "queued", !.by = "user" ] ]
    /\ Event
    /\ UNCHANGED << unchangedRows, leave, control, people >>

AskLeave(r) ==
    /\ leave[r].step = "none"
    /\ leave' = [ leave EXCEPT ![r] = [ NoLeave EXCEPT !.step = "queued", !.why = "manual" ] ]
    /\ Event
    /\ UNCHANGED << unchangedRows, join, control, people >>

PeopleMove(r) ==
    /\ \E p \in Crowd \ { people[r] } : people' = [ people EXCEPT ![r] = p ]
    /\ Event
    /\ UNCHANGED << unchangedRows, join, leave, control >>

\* manual_hold_until or auto_join_suppressed_until passes.
ControlExpires(r) ==
    /\ control[r].hold \/ control[r].until # "none"
    /\ control' = [ control EXCEPT ![r] = [ hold |-> FALSE, until |-> "none" ] ]
    /\ Event
    /\ UNCHANGED << unchangedRows, join, leave, people >>

-----------------------------------------------------------------------------
PlacementSystem(r) ==
    \/ PrepareJoin(r) \/ Claim(r) \/ JoinSucceeded(r) \/ CuePlayed(r)
    \/ JoinGivenUp(r) \/ PrepareLeave(r) \/ CommitLeave(r) \/ LeaveGivenUp(r)

Environment ==
    \/ \E r \in Room : AskJoin(r) \/ AskLeave(r) \/ PeopleMove(r) \/ ControlExpires(r)
    \/ (AdapterFaults \/ PendingExpires) /\ UNCHANGED placementVars

Next ==
    \/ AdapterSystem /\ UNCHANGED placementVars
    \/ \E r \in Room : PlacementSystem(r)
    \/ SnapshotExpired \/ Sync \/ Evaluate
    \/ Environment

Spec == Init /\ [][Next]_vars

\* Workers run what is queued, Discord answers and marks expire; the maintenance
\* chain keeps taking snapshots, and evaluations, which wait for their ordering key
\* in turn with them.  Gateway events may be lost and nobody need ask for anything.
Work ==
    \/ \E r \in Room : PlacementSystem(r)
    \/ /\ \/ \E c \in Capture : JoinStart(c) \/ JoinEnd(c)
          \/ \E l \in leaves : LeaveSession(l) \/ LeaveOrphan(l) \/ LeaveNothing(l) \/ LeaveEnd(l)
          \/ FlushWrite \/ PendingExpires
       /\ UNCHANGED placementVars

Upkeep == Sync \/ ((SnapshotClaimed \/ SnapshotTaken) /\ UNCHANGED placementVars)

FairSpec == Spec /\ WF_vars(Work) /\ WF_vars(Upkeep) /\ SF_vars(Evaluate)

-----------------------------------------------------------------------------
\* Every variable has its type.
TypeOK ==
    /\ place \in [ Capture -> [ room : Room \cup { Nothing }, bot : Bot \cup { Nothing } ] ]
    /\ assign \in [ Capture -> { "none", "joining", "capturing", "leaving", "ended", "failed" } ]
    /\ row \in [ Capture -> { "none", "active", "ended" } ]
    /\ joining \in [ Capture -> { "none", "queued", "started", "ok", "failed" } ]
    /\ live \subseteq Capture /\ flushing \subseteq Capture
    /\ audio \in [ Capture -> { "none", "job", "submitted", "twice" } ]
    /\ voice \in [ Bot -> Room \cup { Nothing } ]
    /\ client \in [ Bot -> Client ] /\ botRow \in [ Bot -> Status ]
    /\ leaves \subseteq LeaveJob /\ snap \in Snapshot /\ events \in 0..MaxEvents
    /\ join \in [ Room -> JoinPlacement ] /\ leave \in [ Room -> LeavePlacement ]
    /\ control \in [ Room -> Control ] /\ people \in [ Room -> Crowd ]

\* The segments buffered at the end of a session are handed over by whoever took it
\* out of the adapter's map, and never twice: leave jobs, the reconciliation with
\* Discord and failed joins race for it (finish_session, finish_reconciled_session).
AudioOnce == \A c \in Capture : audio[c] # "twice"

\* Nothing says that the room is recorded, and no bot is in it.
Clear(r) == ~Present(r) /\ \A b \in Bot : voice[b] # r

\* A manual leave is honoured whatever fails on the way: the join it overtook, the
\* leave itself, the connection, a sync of an old snapshot.  In the end the room is
\* clear, or the override has been lifted.
LeaveHonoured ==
    \A r \in Room : control[r].until = "manual" ~> (Clear(r) \/ control[r].until # "manual")

Counted(c) == c \in Open \/ row[c] = "active"

\* An assignment or a session row that counts as recording while the adapter has no
\* such session does not stay: the join starts, or placement or the sync closes both
\* (release_assignment, mark_capture_session_ended), although a flush, a commit and
\* the sync of an old snapshot can each write them again.
CapturesClose == \A c \in Capture : (Counted(c) /\ c \notin live) ~> (~Counted(c) \/ c \in live)

Accounted(b) == \E c \in Capture : BotOf(c) = b /\ (Counted(c) \/ c \in live)

\* A bot left in a room without an assignment or a session, by a join that failed or
\* a leave that did, is brought out (orphan_voice_bot_statuses).
OrphansLeave ==
    \A b \in Bot : (voice[b] # Nothing /\ ~Accounted(b)) ~> (voice[b] = Nothing \/ Accounted(b))

=============================================================================
