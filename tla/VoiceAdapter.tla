------------------------------ MODULE VoiceAdapter ------------------------------
(***************************************************************************)
(* The live voice adapter: the Discord clients and capture sessions it      *)
(* keeps in memory, the rows it persists of them, and what changes them:    *)
(* join and leave jobs, gateway events, the periodic flush, and the         *)
(* snapshot that compares them with Discord's voice state.  Each runs in a  *)
(* task of its own; a step ends where the adapter awaits Discord or the     *)
(* store after a lock was released and something else can come between.     *)
(*                                                                          *)
(* A capture is a capture run: its assignment, its session (which has the   *)
(* run's id) and the join job that starts it.                               *)
(***************************************************************************)
EXTENDS Naturals, FiniteSets

CONSTANTS
    Capture,    \* capture runs, in the order in which they are claimed
    Room,       \* voice channels of one guild
    Bot,        \* voice bots
    Nothing,    \* no capture, room or bot
    MaxEvents   \* bound on failures, flushes, requests and on what people do

ASSUME AdapterAssumption ==
    /\ Capture \subseteq Nat /\ MaxEvents \in Nat
    /\ Nothing \notin Capture /\ Nothing \notin Room /\ Nothing \notin Bot

VARIABLES
    place,      \* [Capture -> the room and the bot it was claimed for]
    assign,     \* [Capture -> the state of its assignment and run]
    row,        \* [Capture -> its row of capture_sessions]
    joining,    \* [Capture -> the progress of its join job]
    live,       \* the sessions in the adapter's map
    audio,      \* [Capture -> where the segments buffered at its end are]
    voice,      \* [Bot -> the room in which Discord has the bot]
    client,     \* [Bot -> what the adapter remembers of the bot]
    botRow,     \* [Bot -> its row of bot_states]
    leaves,     \* the open leave jobs
    snap,       \* the voice status sync in progress
    flushing,   \* the sessions whose status a flush has yet to persist
    events      \* events so far

Event == events < MaxEvents /\ events' = events + 1

adapterVars == << place, assign, row, joining, live, audio, voice, client, botRow,
                  leaves, snap, flushing, events >>

Status == [ room : Room \cup { Nothing }, pending : BOOLEAN ]
Client == [ room : Room \cup { Nothing }, pending : BOOLEAN, join : Capture \cup { Nothing } ]

\* by: whether a placement job waits for the leave and commits what it returns:
\* the bot that left and the audio of the session, if the leave took one.
LeaveJob ==
    [ room : Room, capture : Capture \cup { Nothing }, by : { "placement", "policy" },
      step : { "queued", "leaving", "done", "failed" }, bot : Bot \cup { Nothing },
      took : BOOLEAN ]

\* known: the captures that started before the snapshot was claimed; todo: bots
\* to compare with Discord; bots and sessions: what the snapshot returns.
Snapshot ==
    [ step : { "idle", "comparing", "taken" }, known : SUBSET Capture,
      todo : SUBSET Bot, bots : [ Bot -> Status ], sessions : SUBSET Capture ]

StatusOf(c) == [ room |-> c.room, pending |-> c.pending ]

NoSnapshot ==
    [ step |-> "idle", known |-> {}, todo |-> {},
      bots |-> [ b \in Bot |-> [ room |-> Nothing, pending |-> FALSE ] ], sessions |-> {} ]

AdapterInit ==
    /\ place = [ c \in Capture |-> [ room |-> Nothing, bot |-> Nothing ] ]
    /\ assign = [ c \in Capture |-> "none" ]
    /\ row = [ c \in Capture |-> "none" ]
    /\ joining = [ c \in Capture |-> "none" ]
    /\ live = {}
    /\ audio = [ c \in Capture |-> "none" ]
    /\ voice = [ b \in Bot |-> Nothing ]
    /\ client = [ b \in Bot |-> [ room |-> Nothing, pending |-> FALSE, join |-> Nothing ] ]
    /\ botRow = NoSnapshot.bots
    /\ leaves = {}
    /\ snap = NoSnapshot
    /\ flushing = {}
    /\ events = 0

BotOf(c)  == place[c].bot
RoomOf(c) == place[c].room

\* The status of a client is persisted as soon as it changes, persist_bot_status.
SetClient(b, to) ==
    /\ client' = [ client EXCEPT ![b] = to ]
    /\ botRow' = [ botRow EXCEPT ![b] = StatusOf(to) ]

\* LiveCaptureSession::finish hands over the segments still buffered, to whoever
\* took the session out of the map; a second hand-over would repeat them.
HandOver(c, to) == [ audio EXCEPT ![c] = IF @ = "none" THEN to ELSE "twice" ]

-----------------------------------------------------------------------------
(* Joins. *)

InProgress(c) == joining[c] = "started"

\* join_assigned_room, up to the call of Discord.  Joins of one bot are
\* serialized by their ordering key.
JoinStart(c) ==
    /\ joining[c] = "queued"
    /\ \A other \in Capture : InProgress(other) => BotOf(other) # BotOf(c)
    /\ joining' = [ joining EXCEPT ![c] = "started" ]
    /\ client' = [ client EXCEPT ![BotOf(c)].join = c, ![BotOf(c)].pending = FALSE ]
    /\ live' = live \cup { c }
    /\ UNCHANGED << place, assign, row, audio, voice, botRow, leaves, snap, flushing, events >>

\* join_assigned_room gives up before there is a session: the bot is not running, or its
\* client was marked as joining and has no user yet, or an id or the directory is bad;
\* nobody takes the mark back.
JoinRefused(c) ==
    /\ joining[c] = "queued"
    /\ \A other \in Capture : InProgress(other) => BotOf(other) # BotOf(c)
    /\ joining' = [ joining EXCEPT ![c] = "failed" ]
    /\ client' \in { client, [ client EXCEPT ![BotOf(c)].join = c, ![BotOf(c)].pending = FALSE ] }
    /\ Event
    /\ UNCHANGED << place, assign, row, live, audio, voice, botRow, leaves, snap, flushing >>

\* mark_join_failed.
JoinFailed(c) ==
    /\ joining[c] = "started"
    /\ joining' = [ joining EXCEPT ![c] = "failed" ]
    /\ live' = live \ { c }
    /\ SetClient(BotOf(c), [ client[BotOf(c)] EXCEPT !.join = Nothing ])
    /\ Event
    /\ UNCHANGED << place, assign, row, audio, voice, leaves, snap, flushing >>

\* join_assigned_room, once Discord has the bot in the room; the session may have been
\* taken meanwhile, and then the bot stays there without one.
JoinEnd(c) ==
    /\ joining[c] = "started"
    /\ voice' = [ voice EXCEPT ![BotOf(c)] = RoomOf(c) ]
    /\ SetClient(BotOf(c), [ room |-> RoomOf(c), pending |-> FALSE, join |-> Nothing ])
    /\ joining' = [ joining EXCEPT ![c] = IF c \in live THEN "ok" ELSE "failed" ]
    /\ row' = [ row EXCEPT ![c] = IF c \in live THEN "active" ELSE @ ]
    /\ UNCHANGED << place, assign, live, audio, leaves, snap, flushing, events >>

-----------------------------------------------------------------------------
(* Leaves. *)

\* Leave jobs of one session, and all without a session, are serialized.
LeaveMayRun(l) ==
    /\ l.step = "queued"
    /\ \A other \in leaves : other.step = "leaving" => other.capture # l.capture

\* Nobody waits for the leave that the placement policy submits by itself.
LeaveTo(l, to) ==
    leaves' = (leaves \ { l }) \cup
        IF l.by = "policy" /\ to.step \in { "done", "failed" } THEN {} ELSE { to }

\* Mutant: the session is looked up, and taken out of the map once the bot has left.
LeaveSessionLooked(l) ==
    /\ LeaveMayRun(l) /\ l.capture \in live
    /\ audio' = HandOver(l.capture, "job")
    /\ LeaveTo(l, [ l EXCEPT !.step = "leaving", !.bot = BotOf(l.capture), !.took = TRUE ])
    /\ UNCHANGED << place, assign, row, joining, live, voice, client, botRow, snap, flushing,
                    events >>

\* finish_session, up to the call of Discord: the session is taken and finished,
LeaveSession(l) ==
    /\ LeaveMayRun(l) /\ l.capture \in live
    /\ live' = live \ { l.capture }
    /\ audio' = HandOver(l.capture, "job")
    /\ LeaveTo(l, [ l EXCEPT !.step = "leaving", !.bot = BotOf(l.capture), !.took = TRUE ])
    /\ UNCHANGED << place, assign, row, joining, voice, client, botRow, snap, flushing, events >>

\* or a bot that is in the room without one is looked for, in memory and then in
\* the rows (orphan_voice_client_handles),
LeaveOrphan(l) ==
    /\ LeaveMayRun(l) /\ l.capture \notin live
    /\ \E b \in Bot :
         /\ \/ client[b].room = l.room
            \/ botRow[b].room = l.room /\ \A other \in Bot : client[other].room # l.room
         /\ LeaveTo(l, [ l EXCEPT !.step = "leaving", !.bot = b ])
    /\ UNCHANGED << place, assign, row, joining, live, audio, voice, client, botRow, snap,
                    flushing, events >>

\* or there is nothing to leave.
LeaveNothing(l) ==
    /\ LeaveMayRun(l) /\ l.capture \notin live
    /\ \A b \in Bot : client[b].room # l.room /\ botRow[b].room # l.room
    /\ LeaveTo(l, [ l EXCEPT !.step = "done" ])
    /\ UNCHANGED << place, assign, row, joining, live, audio, voice, client, botRow, snap,
                    flushing, events >>

\* finish_session, once Discord no longer has the bot in voice:
\* mark_disconnect_pending, and the end of the session is persisted.
LeaveEnd(l) ==
    /\ l.step = "leaving"
    /\ voice' = [ voice EXCEPT ![l.bot] = Nothing ]
    /\ SetClient(l.bot, [ room |-> Nothing, pending |-> TRUE, join |-> Nothing ])
    /\ row' = IF l.took
              THEN [ row EXCEPT ![l.capture] = "ended" ] ELSE row
    /\ LeaveTo(l, [ l EXCEPT !.step = "done" ])
    /\ UNCHANGED << place, assign, joining, live, audio, snap, flushing, events >>

\* leave_voice_channel fails; the session is gone from the map all the same.
LeaveFailed(l) ==
    /\ l.step = "leaving"
    /\ LeaveTo(l, [ l EXCEPT !.step = "failed" ])
    /\ Event
    /\ UNCHANGED << place, assign, row, joining, live, audio, voice, client, botRow, snap,
                    flushing >>

-----------------------------------------------------------------------------
(* Gateway events and the periodic flush. *)

\* The connection is lost, or somebody disconnects the bot.
Disconnected(b) ==
    /\ voice[b] # Nothing
    /\ voice' = [ voice EXCEPT ![b] = Nothing ]
    /\ Event
    /\ UNCHANGED << place, assign, row, joining, live, audio, client, botRow, leaves, snap,
                    flushing >>

\* Where the bot is seen to be: a presence that is still settling after a leave is
\* not believed (retain_disconnect_pending).
Seen(b, room, pending) ==
    IF room # Nothing /\ pending
    THEN [ room |-> Nothing, pending |-> TRUE, join |-> Nothing ]
    ELSE [ client[b] EXCEPT !.room = room, !.pending = @ /\ room # Nothing ]

\* note_voice_state for the bot itself.
VoiceStateEvent(b) ==
    /\ SetClient(b, Seen(b, voice[b], botRow[b].pending))
    /\ UNCHANGED << place, assign, row, joining, live, audio, voice, leaves, snap, flushing,
                    events >>

\* VOICE_DISCONNECT_SETTLE_MS have passed: the mark is a time, and so is every copy.
PendingExpires ==
    /\ snap' = [ snap EXCEPT !.bots = [ b \in Bot |-> [ @[b] EXCEPT !.pending = FALSE ] ] ]
    /\ client' = [ b \in Bot |-> [ client[b] EXCEPT !.pending = FALSE ] ]
    /\ botRow' = [ b \in Bot |-> [ botRow[b] EXCEPT !.pending = FALSE ] ]
    /\ UNCHANGED << place, assign, row, joining, live, audio, voice, leaves, flushing, events >>

\* flush_ready_buffers reads the status of every live session, and then persists
\* them, whatever became of the sessions.
FlushRead ==
    /\ flushing = {} /\ live # {}
    /\ flushing' = live
    /\ Event
    /\ UNCHANGED << place, assign, row, joining, live, audio, voice, client, botRow, leaves, snap >>

FlushWrite ==
    /\ flushing # {}
    /\ row' = [ c \in Capture |-> IF c \in flushing THEN "active" ELSE row[c] ]
    /\ flushing' = {}
    /\ UNCHANGED << place, assign, joining, live, audio, voice, client, botRow, leaves, snap,
                    events >>

-----------------------------------------------------------------------------
(* The snapshot. *)

\* Mutant: only bots that the adapter remembers in a room are compared.
SnapshotOfRemembered ==
    /\ snap.step = "idle"
    /\ snap' = [ snap EXCEPT !.step = "comparing",
                     !.known = { c \in Capture : assign[c] # "none" },
                     !.todo = { b \in Bot : client[b].join = Nothing /\ client[b].room # Nothing } ]
    /\ UNCHANGED << place, assign, row, joining, live, audio, voice, client, botRow, leaves,
                    flushing, events >>

\* The snapshot job is claimed, and reads which ready bots are not joining and
\* which marks are pending (reconcile_voice_client_presence).
SnapshotClaimed ==
    /\ snap.step = "idle"
    /\ snap' = [ snap EXCEPT !.step = "comparing",
                     !.known = { c \in Capture : assign[c] # "none" },
                     !.todo = { b \in Bot : client[b].join = Nothing } ]
    /\ UNCHANGED << place, assign, row, joining, live, audio, voice, client, botRow, leaves,
                    flushing, events >>

\* live_session_ids_for_bot_outside.
Outside(b, room) == { c \in live : BotOf(c) = b /\ RoomOf(c) # room }

\* Every bot's presence is retained or applied, and the sessions that it is no
\* longer there to record are finished (apply_authoritative_voice_presence,
\* finish_reconciled_session); the snapshot returns what the adapter then
\* remembers (voice_status_snapshot).
Retained(b) == voice[b] # Nothing /\ botRow[b].pending

Stale == UNION { Outside(b, voice[b]) : b \in { c \in snap.todo : ~Retained(c) } }

Compared(b) ==
    IF b \notin snap.todo THEN client[b]
    ELSE LET seen == Seen(b, voice[b], Retained(b)) IN
         IF seen.join \in Stale THEN [ seen EXCEPT !.join = Nothing ] ELSE seen

SnapshotTaken ==
    /\ snap.step = "comparing"
    /\ client' = [ b \in Bot |-> Compared(b) ]
    /\ botRow' = [ b \in Bot |-> IF b \in snap.todo THEN StatusOf(Compared(b)) ELSE botRow[b] ]
    /\ live' = live \ Stale
    /\ row' = [ c \in Capture |-> IF c \in Stale THEN "ended" ELSE row[c] ]
    /\ audio' = [ c \in Capture |-> IF c \in Stale THEN HandOver(c, "submitted")[c] ELSE audio[c] ]
    /\ snap' = [ snap EXCEPT !.step = "taken", !.todo = {},
                     !.sessions = live \ Stale,
                     !.bots = [ b \in Bot |-> StatusOf(Compared(b)) ] ]
    /\ UNCHANGED << place, assign, joining, voice, leaves, flushing, events >>

-----------------------------------------------------------------------------
AdapterSystem ==
    \/ \E c \in Capture : JoinStart(c) \/ JoinEnd(c)
    \/ \E l \in leaves : LeaveSession(l) \/ LeaveOrphan(l) \/ LeaveNothing(l) \/ LeaveEnd(l)
    \/ \E b \in Bot : VoiceStateEvent(b)
    \/ FlushWrite \/ SnapshotClaimed \/ SnapshotTaken

AdapterFaults ==
    \/ \E c \in Capture : JoinRefused(c) \/ JoinFailed(c)
    \/ \E l \in leaves : LeaveFailed(l)
    \/ \E b \in Bot : Disconnected(b)
    \/ FlushRead
=============================================================================
