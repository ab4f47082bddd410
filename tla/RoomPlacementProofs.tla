-------------------------- MODULE RoomPlacementProofs --------------------------
(***************************************************************************)
(* Proofs that the variables have their types, and that the audio buffered  *)
(* at the end of a session is handed over at most once, whatever races for  *)
(* the session.  The argument: a session is in the adapter's map only       *)
(* before anybody handed its audio over, because it enters the map once,    *)
(* when its join job starts, and whoever hands the audio over takes it out. *)
(***************************************************************************)
EXTENDS RoomPlacement, TLAPS

-----------------------------------------------------------------------------
(* The records the actions write. *)

\* What is persisted of a client is a status.
LEMMA StatusType == ASSUME NEW c \in Client PROVE StatusOf(c) \in Status
BY DEF Client, Status, StatusOf

\* A client that is set has the type of a client, and its row that of a status.
LEMMA SetClientType ==
    ASSUME NEW b, NEW to, b \in Bot => to \in Client, SetClient(b, to),
           client \in [ Bot -> Client ], botRow \in [ Bot -> Status ]
    PROVE  client' \in [ Bot -> Client ] /\ botRow' \in [ Bot -> Status ]
BY StatusType DEF SetClient

\* Where a bot is seen to be is something the adapter can remember.
LEMMA SeenType ==
    ASSUME client \in [ Bot -> Client ], NEW b \in Bot, NEW room \in Room \cup { Nothing },
           NEW pending \in BOOLEAN
    PROVE  Seen(b, room, pending) \in Client
<1>1. client[b] \in Client
  OBVIOUS
<1>2. CASE room # Nothing /\ pending
  BY <1>2 DEF Seen, Client
<1>3. CASE ~(room # Nothing /\ pending)
  <2> DEFINE moved == [ client[b] EXCEPT !.room = room ]
             kept  == client[b].pending /\ room # Nothing
             seen  == [ moved EXCEPT !.pending = kept ]
  <2>1. moved \in Client
    BY <1>1 DEF Client
  <2>2. kept \in BOOLEAN
    BY <1>1 DEF Client
  <2>3. seen \in Client
    <3> HIDE DEF moved, kept
    <3> QED BY <2>1, <2>2, Zenon DEF Client
  <2>4. Seen(b, room, pending) = seen
    BY <1>3, Zenon DEF Seen
  <2> QED BY <2>3, <2>4
<1> QED BY <1>2, <1>3

\* A leave job that goes on is a leave job.
LEMMA LeaveToType ==
    ASSUME leaves \subseteq LeaveJob, NEW l, NEW to \in LeaveJob, LeaveTo(l, to)
    PROVE  leaves' \subseteq LeaveJob
BY DEF LeaveTo

\* Steps of a leave job.
LEMMA LeaveStepType ==
    ASSUME NEW l \in LeaveJob, NEW step \in { "leaving", "done", "failed" },
           NEW bot \in Bot \cup { Nothing }
    PROVE  /\ [ l EXCEPT !.step = step ] \in LeaveJob
           /\ [ l EXCEPT !.step = step, !.bot = bot ] \in LeaveJob
           /\ [ l EXCEPT !.step = step, !.bot = bot, !.took = TRUE ] \in LeaveJob
<1>1. [ l EXCEPT !.step = step ] \in LeaveJob
  BY DEF LeaveJob
<1> DEFINE one == [ l EXCEPT !.step = step ]
           two == [ one EXCEPT !.bot = bot ]
           all == [ two EXCEPT !.took = TRUE ]
<1>2. two \in LeaveJob
  <2> HIDE DEF one
  <2>1. one \in LeaveJob
    BY <1>1 DEF one
  <2> QED BY <2>1 DEF LeaveJob
<1>3. all \in LeaveJob
  <2> HIDE DEF two
  <2> QED BY <1>2 DEF LeaveJob
<1> QED BY <1>1, <1>2, <1>3

\* Audio that is handed over is somewhere.
LEMMA HandOverType ==
    ASSUME audio \in [ Capture -> { "none", "job", "submitted", "twice" } ],
           NEW c, NEW to \in { "job", "submitted" }
    PROVE  HandOver(c, to) \in [ Capture -> { "none", "job", "submitted", "twice" } ]
BY DEF HandOver

\* No placement, no snapshot, and what placements are queued as.
LEMMA Records ==
    /\ NoJoin \in JoinPlacement /\ NoLeave \in LeavePlacement /\ NoSnapshot \in Snapshot
    /\ [ NoJoin EXCEPT !.step = "queued" ] \in JoinPlacement
    /\ [ NoJoin EXCEPT !.step = "queued", !.by = "user" ] \in JoinPlacement
    /\ \A b \in Bot : [ NoJoin EXCEPT !.step = "claiming", !.bot = b ] \in JoinPlacement
    /\ \A c \in Capture : [ NoJoin EXCEPT !.step = "waiting", !.capture = c ] \in JoinPlacement
    /\ \A why \in { "manual", "policy" } :
         [ NoLeave EXCEPT !.step = "queued", !.why = why ] \in LeavePlacement
<1>1. NoJoin \in JoinPlacement
  BY DEF NoJoin, JoinPlacement
<1>2. NoLeave \in LeavePlacement
  BY DEF NoLeave, LeavePlacement
<1>3. NoSnapshot \in Snapshot
  BY DEF NoSnapshot, Snapshot, Status
<1>4. [ NoJoin EXCEPT !.step = "queued" ] \in JoinPlacement
  BY <1>1 DEF JoinPlacement
<1>5. [ NoJoin EXCEPT !.step = "queued", !.by = "user" ] \in JoinPlacement
  BY <1>1 DEF JoinPlacement
<1>6. ASSUME NEW b \in Bot PROVE [ NoJoin EXCEPT !.step = "claiming", !.bot = b ] \in JoinPlacement
  BY <1>1 DEF JoinPlacement
<1>7. ASSUME NEW c \in Capture
      PROVE  [ NoJoin EXCEPT !.step = "waiting", !.capture = c ] \in JoinPlacement
  BY <1>1 DEF JoinPlacement
<1>8. ASSUME NEW why \in { "manual", "policy" }
      PROVE  [ NoLeave EXCEPT !.step = "queued", !.why = why ] \in LeavePlacement
  BY <1>2 DEF LeavePlacement
<1> QED BY <1>1, <1>2, <1>3, <1>4, <1>5, <1>6, <1>7, <1>8

\* The initial states have the types.
LEMMA Inits == Init => TypeOK
<1> SUFFICES ASSUME Init PROVE TypeOK
  OBVIOUS
<1>1. botRow \in [ Bot -> Status ] /\ client \in [ Bot -> Client ]
  BY DEF Init, AdapterInit, NoSnapshot, Status, Client
<1>2. snap \in Snapshot /\ events \in 0..MaxEvents
  <2>1. snap = NoSnapshot /\ events = 0
    BY DEF Init, AdapterInit
  <2>2. 0 \in 0..MaxEvents
    BY AdapterAssumption
  <2>3. NoSnapshot \in Snapshot
    BY Records
  <2> QED BY <2>1, <2>2, <2>3
<1>3. join \in [ Room -> JoinPlacement ] /\ leave \in [ Room -> LeavePlacement ]
  BY Records DEF Init
<1>4. control \in [ Room -> Control ] /\ people \in [ Room -> Crowd ]
  BY DEF Init, Control
<1>5. /\ place \in [ Capture -> [ room : Room \cup { Nothing }, bot : Bot \cup { Nothing } ] ]
      /\ leaves \subseteq LeaveJob
  BY DEF Init, AdapterInit
<1> QED BY <1>1, <1>2, <1>3, <1>4, <1>5 DEF Init, AdapterInit, TypeOK

-----------------------------------------------------------------------------
(* Every step keeps the types. *)

\* A join that starts.
LEMMA JoinStartType ==
    ASSUME TypeOK, NEW c \in Capture, JoinStart(c), UNCHANGED placementVars PROVE TypeOK'
<1> USE DEF TypeOK, JoinStart, placementVars
<1> DEFINE b == BotOf(c)
<1>1. client' \in [ Bot -> Client ]
  <2> DEFINE first == [ client EXCEPT ![b].join = c ]
             second == [ first EXCEPT ![b].pending = FALSE ]
  <2>1. first \in [ Bot -> Client ]
    BY DEF Client
  <2>2. second \in [ Bot -> Client ]
    <3> HIDE DEF first
    <3> QED BY <2>1 DEF Client
  <2>3. client' = second
    OBVIOUS
  <2> QED BY <2>2, <2>3
<1>2. joining' \in [ Capture -> { "none", "queued", "started", "ok", "failed" } ]
  OBVIOUS
<1> QED BY <1>1, <1>2

\* A join that is given up before there is a session.
LEMMA JoinRefusedType ==
    ASSUME TypeOK, NEW c \in Capture, JoinRefused(c), UNCHANGED placementVars PROVE TypeOK'
<1> DEFINE b == BotOf(c)
           first == [ client EXCEPT ![b].join = c ]
           second == [ first EXCEPT ![b].pending = FALSE ]
<1>1. first \in [ Bot -> Client ]
  BY DEF TypeOK, Client
<1>2. second \in [ Bot -> Client ]
  <2> HIDE DEF first
  <2> QED BY <1>1 DEF Client
<1>3. client' \in { client, second }
  BY DEF JoinRefused
<1>4. client' \in [ Bot -> Client ]
  BY <1>2, <1>3 DEF TypeOK
<1>5. events' \in 0 .. MaxEvents
  BY AdapterAssumption DEF JoinRefused, Event, TypeOK
<1>6. joining' \in [ Capture -> { "none", "queued", "started", "ok", "failed" } ]
  BY DEF JoinRefused, TypeOK
<1> QED BY <1>4, <1>5, <1>6 DEF TypeOK, JoinRefused, placementVars

\* A join that Discord has answered.
LEMMA JoinEndType ==
    ASSUME TypeOK, NEW c \in Capture, JoinEnd(c), UNCHANGED placementVars PROVE TypeOK'
<1> USE DEF TypeOK, JoinEnd, placementVars
<1> DEFINE to == [ room |-> RoomOf(c), pending |-> FALSE, join |-> Nothing ]
<1>1. RoomOf(c) \in Room \cup { Nothing }
  BY DEF RoomOf
<1>2. to \in Client
  BY <1>1 DEF Client
<1>3. client' \in [ Bot -> Client ] /\ botRow' \in [ Bot -> Status ]
  BY <1>2, SetClientType
<1>4. /\ joining' \in [ Capture -> { "none", "queued", "started", "ok", "failed" } ]
      /\ row' \in [ Capture -> { "none", "active", "ended" } ]
      /\ voice' \in [ Bot -> Room \cup { Nothing } ]
  BY <1>1
<1> QED BY <1>3, <1>4

\* A join that Discord refused.
LEMMA JoinFailedType ==
    ASSUME TypeOK, NEW c \in Capture, JoinFailed(c), UNCHANGED placementVars PROVE TypeOK'
<1> USE DEF TypeOK, JoinFailed, placementVars
<1> DEFINE to == [ client[BotOf(c)] EXCEPT !.join = Nothing ]
<1>1. BotOf(c) \in Bot => to \in Client
  <2> SUFFICES ASSUME BotOf(c) \in Bot PROVE to \in Client
    OBVIOUS
  <2>1. client[BotOf(c)] \in Client
    OBVIOUS
  <2> QED BY <2>1 DEF Client
<1>2. client' \in [ Bot -> Client ] /\ botRow' \in [ Bot -> Status ]
  <2>1. SetClient(BotOf(c), to)
    OBVIOUS
  <2>2. client \in [ Bot -> Client ] /\ botRow \in [ Bot -> Status ]
    OBVIOUS
  <2> HIDE DEF to
  <2> QED BY <1>1, <2>1, <2>2, SetClientType, Zenon
<1>3. joining' \in [ Capture -> { "none", "queued", "started", "ok", "failed" } ]
  OBVIOUS
<1>4. events' \in 0..MaxEvents
  BY AdapterAssumption DEF Event
<1> QED BY <1>2, <1>3, <1>4

\* Jobs that leave.
LEMMA LeaveTypes ==
    ASSUME TypeOK, NEW l \in leaves, UNCHANGED placementVars,
           LeaveSession(l) \/ LeaveOrphan(l) \/ LeaveNothing(l) \/ LeaveEnd(l) \/ LeaveFailed(l)
    PROVE  TypeOK'
<1> USE DEF TypeOK, placementVars
<1>0. l \in LeaveJob
  OBVIOUS
<1>1. CASE LeaveSession(l)
  <2> USE DEF LeaveSession
  <2>1. BotOf(l.capture) \in Bot \cup { Nothing }
    BY <1>1 DEF BotOf
  <2> DEFINE to == [ l EXCEPT !.step = "leaving", !.bot = BotOf(l.capture), !.took = TRUE ]
  <2>a. to \in LeaveJob
    BY <1>0, <2>1, LeaveStepType, Zenon
  <2>b. LeaveTo(l, to)
    BY <1>1
  <2>2. leaves' \subseteq LeaveJob
    <3> HIDE DEF to
    <3> QED BY <2>a, <2>b, LeaveToType
  <2>3. audio' \in [ Capture -> { "none", "job", "submitted", "twice" } ]
    BY <1>1, HandOverType
  <2> QED BY <1>1, <2>2, <2>3
<1>2. CASE LeaveOrphan(l)
  <2>1. leaves' \subseteq LeaveJob
    BY <1>0, <1>2, LeaveStepType, LeaveToType DEF LeaveOrphan
  <2> QED BY <1>2, <2>1 DEF LeaveOrphan
<1>3. CASE LeaveNothing(l)
  <2>1. leaves' \subseteq LeaveJob
    BY <1>0, <1>3, LeaveStepType, LeaveToType DEF LeaveNothing
  <2> QED BY <1>3, <2>1 DEF LeaveNothing
<1>4. CASE LeaveEnd(l)
  <2> USE DEF LeaveEnd
  <2>1. leaves' \subseteq LeaveJob
    BY <1>0, <1>4, LeaveStepType, LeaveToType
  <2>2. [ room |-> Nothing, pending |-> TRUE, join |-> Nothing ] \in Client
    BY DEF Client
  <2>3. client' \in [ Bot -> Client ] /\ botRow' \in [ Bot -> Status ]
    BY <1>4, <2>2, SetClientType
  <2>4. row' \in [ Capture -> { "none", "active", "ended" } ]
    BY <1>4
  <2>5. voice' \in [ Bot -> Room \cup { Nothing } ]
    BY <1>4
  <2> QED BY <1>4, <2>1, <2>3, <2>4, <2>5
<1>5. CASE LeaveFailed(l)
  <2>1. leaves' \subseteq LeaveJob
    BY <1>0, <1>5, LeaveStepType, LeaveToType DEF LeaveFailed
  <2>2. events' \in 0..MaxEvents
    BY <1>5, AdapterAssumption DEF LeaveFailed, Event
  <2> QED BY <1>5, <2>1, <2>2 DEF LeaveFailed
<1> QED BY <1>1, <1>2, <1>3, <1>4, <1>5

\* Gateway events, marks that expire, and the flush.
LEMMA GatewayTypes ==
    ASSUME TypeOK, UNCHANGED placementVars,
           \/ \E b \in Bot : Disconnected(b) \/ VoiceStateEvent(b)
           \/ PendingExpires \/ FlushRead \/ FlushWrite
    PROVE  TypeOK'
<1> USE DEF TypeOK, placementVars
<1>1. ASSUME NEW b \in Bot, Disconnected(b) PROVE TypeOK'
  <2>1. events' \in 0..MaxEvents
    BY <1>1, AdapterAssumption DEF Disconnected, Event
  <2> QED BY <1>1, <2>1 DEF Disconnected
<1>2. ASSUME NEW b \in Bot, VoiceStateEvent(b) PROVE TypeOK'
  <2>1. botRow[b].pending \in BOOLEAN
    BY DEF Status
  <2>2. Seen(b, voice[b], botRow[b].pending) \in Client
    BY <2>1, SeenType
  <2>3. client' \in [ Bot -> Client ] /\ botRow' \in [ Bot -> Status ]
    BY <1>2, <2>2, SetClientType DEF VoiceStateEvent
  <2> QED BY <1>2, <2>3 DEF VoiceStateEvent
<1>3. CASE PendingExpires
  <2> USE DEF PendingExpires
  <2>1. client' \in [ Bot -> Client ]
    BY <1>3 DEF Client
  <2>2. botRow' \in [ Bot -> Status ]
    BY <1>3 DEF Status
  <2>3. [ b \in Bot |-> [ snap.bots[b] EXCEPT !.pending = FALSE ] ] \in [ Bot -> Status ]
    <3>1. snap.bots \in [ Bot -> Status ]
      BY DEF Snapshot
    <3>2. ASSUME NEW b \in Bot PROVE [ snap.bots[b] EXCEPT !.pending = FALSE ] \in Status
      BY <3>1 DEF Status
    <3> QED BY <3>2
  <2>4. snap' \in Snapshot
    BY <1>3, <2>3 DEF Snapshot
  <2> QED BY <1>3, <2>1, <2>2, <2>4
<1>4. CASE FlushRead
  <2>1. events' \in 0..MaxEvents
    BY <1>4, AdapterAssumption DEF FlushRead, Event
  <2> QED BY <1>4, <2>1 DEF FlushRead
<1>5. CASE FlushWrite
  BY <1>5 DEF FlushWrite
<1> QED BY <1>1, <1>2, <1>3, <1>4, <1>5

\* The snapshot, and its sync.
LEMMA SnapshotTypes ==
    ASSUME TypeOK,
           \/ (SnapshotClaimed \/ SnapshotTaken) /\ UNCHANGED placementVars
           \/ SnapshotExpired \/ Sync
    PROVE  TypeOK'
<1> USE DEF TypeOK, placementVars
<1>1. CASE SnapshotClaimed /\ UNCHANGED placementVars
  <2> DEFINE known == { c \in Capture : assign[c] # "none" }
             todo  == { b \in Bot : client[b].join = Nothing }
             one   == [ snap EXCEPT !.step = "comparing" ]
             two   == [ one EXCEPT !.known = known ]
             all   == [ two EXCEPT !.todo = todo ]
  <2>1. one \in Snapshot /\ known \subseteq Capture /\ todo \subseteq Bot
    BY DEF Snapshot
  <2>2. snap' = all
    BY <1>1 DEF SnapshotClaimed
  <2> HIDE DEF known, todo, one
  <2>3. two \in Snapshot
    BY <2>1 DEF Snapshot
  <2> HIDE DEF two
  <2>4. all \in Snapshot
    BY <2>1, <2>3 DEF Snapshot
  <2> QED BY <1>1, <2>2, <2>4 DEF SnapshotClaimed
<1>2. CASE SnapshotTaken /\ UNCHANGED placementVars
  <2>1. ASSUME NEW b \in Bot PROVE Compared(b) \in Client
    <3>1. Retained(b) \in BOOLEAN
      BY Zenon DEF Retained, Status
    <3> DEFINE seen == Seen(b, voice[b], Retained(b))
    <3>2. seen \in Client
      BY <3>1, SeenType
    <3>3. [ seen EXCEPT !.join = Nothing ] \in Client
      <4> HIDE DEF seen
      <4> QED BY <3>2 DEF Client
    <3>4. Compared(b) \in { client[b], seen, [ seen EXCEPT !.join = Nothing ] }
      BY Zenon DEF Compared
    <3>5. client[b] \in Client
      OBVIOUS
    <3> HIDE DEF seen
    <3> QED BY <3>2, <3>3, <3>4, <3>5
  <2> DEFINE bots == [ b \in Bot |-> StatusOf(Compared(b)) ]
             left == live \ Stale
             one  == [ snap EXCEPT !.step = "taken" ]
             two  == [ one EXCEPT !.todo = {} ]
             more == [ two EXCEPT !.sessions = left ]
             all  == [ more EXCEPT !.bots = bots ]
  <2>2. client' \in [ Bot -> Client ]
    BY <1>2, <2>1 DEF SnapshotTaken
  <2>3. bots \in [ Bot -> Status ]
    BY <2>1, StatusType
  <2>4. botRow' \in [ Bot -> Status ]
    BY <1>2, <2>1, StatusType DEF SnapshotTaken
  <2>5. row' \in [ Capture -> { "none", "active", "ended" } ]
    BY <1>2 DEF SnapshotTaken
  <2>6. audio' \in [ Capture -> { "none", "job", "submitted", "twice" } ]
    BY <1>2, HandOverType DEF SnapshotTaken
  <2>7. snap' = all
    BY <1>2 DEF SnapshotTaken
  <2>8. one \in Snapshot /\ left \subseteq Capture
    BY DEF Snapshot
  <2> HIDE DEF bots, left, one
  <2>9. two \in Snapshot
    BY <2>8 DEF Snapshot
  <2> HIDE DEF two
  <2>10. more \in Snapshot
    BY <2>8, <2>9 DEF Snapshot
  <2> HIDE DEF more
  <2>11. all \in Snapshot
    BY <2>3, <2>10 DEF Snapshot
  <2>12. live' \subseteq Capture
    BY <1>2 DEF SnapshotTaken
  <2>13. UNCHANGED << place, assign, joining, voice, leaves, flushing, events >>
    BY <1>2 DEF SnapshotTaken
  <2> QED BY <1>2, <2>2, <2>4, <2>5, <2>6, <2>7, <2>11, <2>12, <2>13
<1>3. CASE SnapshotExpired
  <2>1. snap' \in Snapshot
    BY <1>3, Records DEF SnapshotExpired
  <2>2. events' \in 0..MaxEvents
    BY <1>3, AdapterAssumption DEF SnapshotExpired, Event
  <2> QED BY <1>3, <2>1, <2>2 DEF SnapshotExpired
<1>4. CASE Sync
  <2>1. snap' \in Snapshot
    BY <1>4, Records DEF Sync
  <2>2. botRow' \in [ Bot -> Status ]
    BY <1>4 DEF Sync, Snapshot
  <2> QED BY <1>4, <2>1, <2>2 DEF Sync
<1> QED BY <1>1, <1>2, <1>3, <1>4

\* Placement jobs that join.
LEMMA JoinPlacementTypes ==
    ASSUME TypeOK, NEW r \in Room,
           PrepareJoin(r) \/ Claim(r) \/ JoinSucceeded(r) \/ CuePlayed(r) \/ JoinGivenUp(r)
    PROVE  TypeOK'
<1> USE DEF TypeOK
<1>0. join[r] \in JoinPlacement /\ control[r] \in Control
  OBVIOUS
<1>1. CASE PrepareJoin(r)
  <2>1. join' \in [ Room -> JoinPlacement ]
    BY <1>1, Records DEF PrepareJoin
  <2>2. control' \in [ Room -> Control ]
    <3>1. [ hold |-> TRUE, until |-> "none" ] \in Control
      BY DEF Control
    <3>2. control' = control \/ control' = [ control EXCEPT ![r] = [ hold |-> TRUE, until |-> "none" ] ]
      BY <1>1, Zenon DEF PrepareJoin, Hold
    <3> QED BY <3>1, <3>2
  <2> QED BY <1>1, <2>1, <2>2 DEF PrepareJoin, adapterVars
<1>2. CASE Claim(r)
  <2> DEFINE new == { c \in Capture : assign[c] = "none" }
  <2>0. UNCHANGED << row, live, audio, voice, client, botRow, leaves, snap, flushing, events,
                     leave, control, people >>
    BY <1>2 DEF Claim
  <2>1. CASE new = {} \/ ~Idle(join[r].bot)
    <3>1. UNCHANGED << place, assign, joining >>
      BY <1>2, <2>1 DEF Claim
    <3>2. \A b \in Bot : [ join[r] EXCEPT !.bot = b ] \in JoinPlacement
      BY <1>0 DEF JoinPlacement
    <3>3. join' \in { [ join EXCEPT ![r] = NoJoin ] } \cup
                    { [ join EXCEPT ![r].bot = b ] : b \in { f \in Bot : new # {} /\ Idle(f) } }
      BY <1>2, <2>1 DEF Claim
    <3>4. CASE join' = [ join EXCEPT ![r] = NoJoin ]
      BY <2>0, <3>1, <3>4, Records
    <3>5. ASSUME NEW b \in Bot, join' = [ join EXCEPT ![r].bot = b ] PROVE TypeOK'
      <4>1. join' \in [ Room -> JoinPlacement ]
        BY <3>2, <3>5
      <4> QED BY <2>0, <3>1, <4>1
    <3> QED BY <3>3, <3>4, <3>5
  <2>2. CASE ~(new = {} \/ ~Idle(join[r].bot))
    <3>1. PICK c \in Oldest(new) :
            /\ place' = [ place EXCEPT ![c] = [ room |-> r, bot |-> join[r].bot ] ]
            /\ assign' = [ assign EXCEPT ![c] = "joining" ]
            /\ joining' = [ joining EXCEPT ![c] = "queued" ]
            /\ join' = [ join EXCEPT ![r] = [ NoJoin EXCEPT !.step = "waiting", !.capture = c ] ]
      BY <1>2, <2>2 DEF Claim
    <3>2. c \in Capture
      BY DEF Oldest
    <3>3. [ room |-> r, bot |-> join[r].bot ]
            \in [ room : Room \cup { Nothing }, bot : Bot \cup { Nothing } ]
      BY <1>0 DEF JoinPlacement
    <3>4. place' \in [ Capture -> [ room : Room \cup { Nothing }, bot : Bot \cup { Nothing } ] ]
      BY <3>1, <3>2, <3>3
    <3>5. join' \in [ Room -> JoinPlacement ]
      <4>1. [ NoJoin EXCEPT !.step = "waiting", !.capture = c ] \in JoinPlacement
        BY <3>2, Records
      <4> QED BY <3>1, <4>1
    <3>6. /\ assign' \in [ Capture -> { "none", "joining", "capturing", "leaving", "ended", "failed" } ]
          /\ joining' \in [ Capture -> { "none", "queued", "started", "ok", "failed" } ]
      BY <3>1, <3>2
    <3> QED BY <2>0, <3>4, <3>5, <3>6
  <2> QED BY <2>1, <2>2
<1>3. ASSUME NEW c, CommitJoin(r, c)
      PROVE  /\ botRow' \in [ Bot -> Status ]
             /\ row' \in [ Capture -> { "none", "active", "ended" } ]
             /\ assign' \in [ Capture -> { "none", "joining", "capturing", "leaving", "ended", "failed" } ]
             /\ UNCHANGED << unchangedAdapter, joining, leaves, leave, control, people >>
  <2>1. [ room |-> r, pending |-> FALSE ] \in Status
    BY DEF Status
  <2> QED BY <1>3, <2>1 DEF CommitJoin, StoreBot
<1>4. CASE JoinSucceeded(r)
  <2>1. join' \in [ Room -> JoinPlacement ]
    BY <1>0, <1>4 DEF JoinSucceeded, JoinPlacement
  <2> QED BY <1>3, <1>4, <2>1 DEF JoinSucceeded, unchangedAdapter
<1>5. CASE CuePlayed(r)
  <2>1. join' \in [ Room -> JoinPlacement ]
    BY <1>5, Records DEF CuePlayed
  <2> QED BY <1>3, <1>5, <2>1 DEF CuePlayed, unchangedAdapter
<1>6. CASE JoinGivenUp(r)
  <2>1. join' \in [ Room -> JoinPlacement ]
    BY <1>6, Records DEF JoinGivenUp
  <2>2. control' \in [ Room -> Control ]
    BY <1>6 DEF JoinGivenUp, KeepAway, Control
  <2>3. /\ assign' \in [ Capture -> { "none", "joining", "capturing", "leaving", "ended", "failed" } ]
        /\ row' \in [ Capture -> { "none", "active", "ended" } ]
    BY <1>6 DEF JoinGivenUp, Close
  <2> QED BY <1>6, <2>1, <2>2, <2>3 DEF JoinGivenUp, unchangedAdapter
<1> QED BY <1>1, <1>2, <1>4, <1>5, <1>6

\* What is submitted is a leave job.
LEMMA NewLeaveType ==
    ASSUME NEW r \in Room, NEW c \in Capture \cup { Nothing }, NEW by \in { "placement", "policy" }
    PROVE  NewLeave(r, c, by) \in LeaveJob
BY DEF NewLeave, LeaveJob

\* Placement jobs that leave.
LEMMA LeavePlacementTypes ==
    ASSUME TypeOK, NEW r \in Room, PrepareLeave(r) \/ CommitLeave(r) \/ LeaveGivenUp(r)
    PROVE  TypeOK'
<1> USE DEF TypeOK
<1>0. leave[r] \in LeavePlacement
  OBVIOUS
<1>1. CASE PrepareLeave(r)
  <2>0. UNCHANGED << unchangedAdapter, row, joining, botRow, join, people >>
    BY <1>1 DEF PrepareLeave
  <2>1. control' \in [ Room -> Control ]
    BY <1>0, <1>1 DEF PrepareLeave, KeepAway, Control, LeavePlacement
  <2>2. CASE Assigned(r) # {}
    <3>1. PICK c \in Oldest(Assigned(r)) :
            /\ assign' = [ assign EXCEPT ![c] = "leaving" ]
            /\ leave' = [ leave EXCEPT ![r].step = "waiting", ![r].capture = c ]
            /\ leaves' = leaves \cup { NewLeave(r, c, "placement") }
      BY <1>1, <2>2 DEF PrepareLeave
    <3>2. c \in Capture
      BY DEF Oldest, Assigned, Open
    <3>3. leaves' \subseteq LeaveJob
      BY <3>1, <3>2, NewLeaveType
    <3> DEFINE first == [ leave EXCEPT ![r].step = "waiting" ]
               second == [ first EXCEPT ![r].capture = c ]
    <3>4. leave' = second
      BY <3>1
    <3>5. first \in [ Room -> LeavePlacement ]
      BY DEF LeavePlacement
    <3>6. second \in [ Room -> LeavePlacement ]
      <4> HIDE DEF first
      <4>1. first[r] \in LeavePlacement
        BY <3>5
      <4>2. [ first[r] EXCEPT !.capture = c ] \in LeavePlacement
        BY ONLY <4>1, <3>2 DEF LeavePlacement
      <4>3. second = [ first EXCEPT ![r] = [ first[r] EXCEPT !.capture = c ] ]
        OBVIOUS
      <4> HIDE DEF second
      <4> QED BY <3>5, <4>2, <4>3
    <3>7. assign' \in [ Capture -> { "none", "joining", "capturing", "leaving", "ended", "failed" } ]
      BY <3>1
    <3> HIDE DEF second
    <3> QED BY <2>0, <2>1, <3>3, <3>4, <3>6, <3>7 DEF unchangedAdapter
  <2>3. CASE Assigned(r) = {} /\ SeenInRoom(r) # {}
    <3>1. /\ leave' = [ leave EXCEPT ![r].step = "waiting" ]
          /\ leaves' = leaves \cup { NewLeave(r, Nothing, "placement") }
          /\ UNCHANGED assign
      BY <1>1, <2>3 DEF PrepareLeave
    <3>2. leaves' \subseteq LeaveJob
      BY <3>1, NewLeaveType
    <3>3. leave' \in [ Room -> LeavePlacement ]
      <4> DEFINE waits == [ leave EXCEPT ![r].step = "waiting" ]
      <4>1. waits \in [ Room -> LeavePlacement ]
        BY DEF LeavePlacement
      <4> HIDE DEF waits
      <4> QED BY <3>1, <4>1 DEF waits
    <3> QED BY <2>0, <2>1, <3>1, <3>2, <3>3 DEF unchangedAdapter
  <2>4. CASE Assigned(r) = {} /\ SeenInRoom(r) = {}
    <3>1. leave' = [ leave EXCEPT ![r] = NoLeave ] /\ UNCHANGED << leaves, assign >>
      BY <1>1, <2>4 DEF PrepareLeave
    <3>2. leave' \in [ Room -> LeavePlacement ]
      BY <3>1, Records
    <3> QED BY <2>0, <2>1, <3>1, <3>2 DEF unchangedAdapter
  <2> QED BY <2>2, <2>3, <2>4
<1>2. CASE CommitLeave(r)
  <2>0. UNCHANGED << place, joining, live, voice, client, snap, flushing, events, join, control,
                     people >>
    BY <1>2 DEF CommitLeave
  <2>1. leave' \in [ Room -> LeavePlacement ]
    BY <1>2, Records DEF CommitLeave
  <2>2. PICK l \in leaves :
          /\ leaves' = leaves \ { l }
          /\ Close({ l.capture }, "ended")
          /\ IF l.took THEN audio' = [ audio EXCEPT ![l.capture] = "submitted" ]
                       ELSE UNCHANGED audio
          /\ IF l.bot = Nothing THEN UNCHANGED botRow
             ELSE \E fresh \in BOOLEAN : StoreBot(l.bot, [ room |-> Nothing, pending |-> fresh ])
    BY <1>2 DEF CommitLeave
  <2>3. /\ assign' \in [ Capture -> { "none", "joining", "capturing", "leaving", "ended", "failed" } ]
        /\ row' \in [ Capture -> { "none", "active", "ended" } ]
    BY <2>2 DEF Close
  <2>4. botRow' \in [ Bot -> Status ]
    <3>1. ASSUME NEW fresh \in BOOLEAN PROVE [ room |-> Nothing, pending |-> fresh ] \in Status
      BY DEF Status
    <3> QED BY <2>2, <3>1 DEF StoreBot
  <2>5. audio' \in [ Capture -> { "none", "job", "submitted", "twice" } ]
    BY <2>2
  <2>6. leaves' \subseteq LeaveJob
    BY <2>2
  <2> QED BY <2>0, <2>1, <2>3, <2>4, <2>5, <2>6
<1>3. CASE LeaveGivenUp(r)
  <2>1. leave' \in [ Room -> LeavePlacement ]
    BY <1>3, Records DEF LeaveGivenUp
  <2>2. leaves' \subseteq LeaveJob
    BY <1>3 DEF LeaveGivenUp
  <2> QED BY <1>3, <2>1, <2>2 DEF LeaveGivenUp, unchangedAdapter
<1> QED BY <1>1, <1>2, <1>3

\* The automation.
LEMMA EvaluateType == ASSUME TypeOK, Evaluate PROVE TypeOK'
<1> USE DEF TypeOK
<1>1. UNCHANGED << unchangedAdapter, assign, row, joining, botRow, control, people >>
  BY DEF Evaluate
<1>2. ASSUME NEW r \in Room
      PROVE  [ NoLeave EXCEPT !.step = "queued", !.why = Reason(r) ] \in LeavePlacement
  <2>1. Reason(r) \in { "manual", "policy" }
    BY DEF Reason
  <2> QED BY <2>1, Records
<1>3. leave' \in [ Room -> LeavePlacement ]
  BY <1>2 DEF Evaluate
<1>4. join' \in [ Room -> JoinPlacement ]
  BY Records DEF Evaluate
<1>5. Duplicates \subseteq LeaveJob
  <2>1. ASSUME NEW c \in UNION { RecordingIn(r) : r \in Room }
        PROVE  NewLeave(RoomOf(c), c, "policy") \in LeaveJob
    <3>1. c \in Capture /\ RoomOf(c) \in Room
      BY DEF RecordingIn
    <3> QED BY <3>1, NewLeaveType
  <2> QED BY <2>1 DEF Duplicates
<1>6. Orphans \subseteq LeaveJob
  BY NewLeaveType DEF Orphans
<1>7. leaves' \subseteq LeaveJob
  BY <1>5, <1>6 DEF Evaluate
<1> QED BY <1>1, <1>3, <1>4, <1>7 DEF unchangedAdapter

\* People, and what they ask for.
LEMMA PeopleTypes ==
    ASSUME TypeOK, NEW r \in Room, AskJoin(r) \/ AskLeave(r) \/ PeopleMove(r) \/ ControlExpires(r)
    PROVE  TypeOK'
<1> USE DEF TypeOK, unchangedRows
<1>0. ASSUME Event PROVE events' \in 0..MaxEvents
  BY <1>0, AdapterAssumption DEF Event
<1>1. CASE AskJoin(r)
  <2>1. join' \in [ Room -> JoinPlacement ]
    BY <1>1, Records DEF AskJoin
  <2> QED BY <1>0, <1>1, <2>1 DEF AskJoin
<1>2. CASE AskLeave(r)
  <2>1. leave' \in [ Room -> LeavePlacement ]
    BY <1>2, Records DEF AskLeave
  <2> QED BY <1>0, <1>2, <2>1 DEF AskLeave
<1>3. CASE PeopleMove(r)
  <2>1. people' \in [ Room -> Crowd ]
    BY <1>3 DEF PeopleMove
  <2> QED BY <1>0, <1>3, <2>1 DEF PeopleMove
<1>4. CASE ControlExpires(r)
  <2>1. control' \in [ Room -> Control ]
    BY <1>4 DEF ControlExpires, Control
  <2> QED BY <1>0, <1>4, <2>1 DEF ControlExpires
<1> QED BY <1>1, <1>2, <1>3, <1>4

\* Every step of the system is one of these.
LEMMA TypeStep == TypeOK /\ [Next]_vars => TypeOK'
<1> SUFFICES ASSUME TypeOK, [Next]_vars PROVE TypeOK'
  OBVIOUS
<1>1. CASE UNCHANGED vars
  BY <1>1 DEF TypeOK, vars, adapterVars, placementVars
<1>2. CASE AdapterSystem /\ UNCHANGED placementVars
  BY <1>2, JoinStartType, JoinEndType, LeaveTypes, GatewayTypes, SnapshotTypes DEF AdapterSystem
<1>3. ASSUME NEW r \in Room, PlacementSystem(r) PROVE TypeOK'
  BY <1>3, JoinPlacementTypes, LeavePlacementTypes DEF PlacementSystem
<1>4. CASE SnapshotExpired \/ Sync \/ Evaluate
  BY <1>4, SnapshotTypes, EvaluateType
<1>5. CASE Environment
  BY <1>5, PeopleTypes, JoinRefusedType, JoinFailedType, LeaveTypes, GatewayTypes DEF Environment, AdapterFaults
<1> QED BY <1>1, <1>2, <1>3, <1>4, <1>5 DEF Next

\* Every variable has its type, in the adapter as in the placement jobs.
THEOREM TypeCorrect == Spec => []TypeOK
<1>1. Init => TypeOK
  BY Inits
<1>2. TypeOK /\ [Next]_vars => TypeOK'
  BY TypeStep
<1> QED BY <1>1, <1>2, PTL DEF Spec

-----------------------------------------------------------------------------
(* Who may hand over the audio of a session. *)

\* A capture whose join job has not started, and so has no session yet.
Ahead(c) == joining[c] \in { "none", "queued" }

\* The captures whose session a leave job took out of the map.
Took == { l.capture : l \in { m \in leaves : m.took } }

\* The session of a capture enters the map once, and while it is there nobody has
\* handed its audio over; a leave that took a session found it in the map.
AudioInv ==
    /\ \A c \in Capture : assign[c] = "none" => joining[c] = "none"
    /\ \A c \in Capture : Ahead(c) => c \notin live /\ audio[c] = "none"
    /\ \A c \in Capture : c \in live => audio[c] = "none"
    /\ Took \subseteq Capture \ live
    /\ \A c \in Took : ~Ahead(c)
    /\ AudioOnce

\* What most steps do to the captures, the map and the audio: a join may end, and
\* its session leave the map.
Still ==
    /\ \A c \in Capture : assign'[c] = "none" => assign[c] = "none"
    /\ live' \subseteq live
    /\ \A c \in Capture : \/ joining'[c] = joining[c]
                          \/ joining[c] # "none" /\ joining'[c] \in { "ok", "failed" }
    /\ Took' \subseteq Took
    /\ UNCHANGED audio

\* A step that leaves the audio alone, and adds nothing to the map, keeps the
\* invariant.
LEMMA StillKeeps == ASSUME TypeOK, AudioInv, Still PROVE AudioInv'
<1> USE DEF Still, AudioInv
<1>1. \A c \in Capture : Ahead(c)' => Ahead(c)
  BY DEF Ahead
<1>2. \A c \in Capture : assign'[c] = "none" => joining'[c] = "none"
  BY DEF Ahead
<1>3. Took' \subseteq Capture \ live' /\ \A c \in Took' : ~Ahead(c)'
  BY <1>1
<1>4. AudioOnce'
  BY DEF AudioOnce
<1>5. \A c \in Capture : Ahead(c)' => c \notin live' /\ audio'[c] = "none"
  BY <1>1
<1>6. \A c \in Capture : c \in live' => audio'[c] = "none"
  OBVIOUS
<1> QED BY <1>2, <1>3, <1>4, <1>5, <1>6

\* A leave job that goes on keeps its session, and whether it took it.
LEMMA LeaveToStill ==
    ASSUME leaves \subseteq LeaveJob, NEW l \in leaves, NEW to, LeaveTo(l, to),
           to.took = l.took, to.capture = l.capture
    PROVE  Took' \subseteq Took
<1>1. ASSUME NEW k \in leaves', k.took PROVE \E m \in leaves : m.took /\ m.capture = k.capture
  BY <1>1, Zenon DEF LeaveTo
<1> QED BY <1>1 DEF Took

\* Jobs that took no session may come and go.
LEMMA TookKept ==
    ASSUME \A k \in leaves' : k.took => k \in leaves PROVE Took' \subseteq Took
BY DEF Took

\* The adapter's steps that leave the map and the audio alone.
LEMMA AdapterStill ==
    ASSUME TypeOK, AudioInv, UNCHANGED placementVars,
           \/ \E c \in Capture : JoinEnd(c) \/ JoinFailed(c) \/ JoinRefused(c)
           \/ \E l \in leaves : LeaveOrphan(l) \/ LeaveNothing(l) \/ LeaveEnd(l) \/ LeaveFailed(l)
           \/ \E b \in Bot : Disconnected(b) \/ VoiceStateEvent(b)
           \/ PendingExpires \/ FlushRead \/ FlushWrite \/ SnapshotClaimed
    PROVE  Still
<1>1. ASSUME NEW c \in Capture, JoinEnd(c) PROVE Still
  BY <1>1 DEF JoinEnd, Still, TypeOK, Ahead, Took
<1>2. ASSUME NEW c \in Capture, JoinFailed(c) PROVE Still
  BY <1>2 DEF JoinFailed, Still, TypeOK, Ahead, Took
<1>8. ASSUME NEW c \in Capture, JoinRefused(c) PROVE Still
  BY <1>8 DEF JoinRefused, Still, TypeOK, Ahead, Took
<1>3. ASSUME NEW l \in leaves, NEW to, LeaveTo(l, to), UNCHANGED << assign, joining, live, audio >>,
             to.took = l.took, to.capture = l.capture
      PROVE  Still
  <2>1. Took' \subseteq Took
    BY <1>3, LeaveToStill DEF TypeOK
  <2> QED BY <1>3, <2>1 DEF Still
<1>4. ASSUME NEW l \in leaves, NEW step, NEW bot
      PROVE  /\ [ l EXCEPT !.step = step ].took = l.took
             /\ [ l EXCEPT !.step = step ].capture = l.capture
             /\ [ l EXCEPT !.step = step, !.bot = bot ].took = l.took
             /\ [ l EXCEPT !.step = step, !.bot = bot ].capture = l.capture
  <2>1. l \in LeaveJob
    BY DEF TypeOK
  <2> QED BY <2>1 DEF LeaveJob
<1>5. ASSUME NEW l \in leaves, LeaveOrphan(l) PROVE Still
  <2>1. PICK b \in Bot : LeaveTo(l, [ l EXCEPT !.step = "leaving", !.bot = b ])
    BY <1>5 DEF LeaveOrphan
  <2>2. UNCHANGED << assign, joining, live, audio >>
    BY <1>5 DEF LeaveOrphan
  <2> DEFINE to == [ l EXCEPT !.step = "leaving", !.bot = b ]
  <2>3. to.took = l.took /\ to.capture = l.capture
    BY <1>4
  <2> HIDE DEF to
  <2> QED BY <1>3, <2>1, <2>2, <2>3 DEF to
<1>6. ASSUME NEW l \in leaves, LeaveNothing(l) \/ LeaveEnd(l) \/ LeaveFailed(l) PROVE Still
  <2>1. \/ LeaveTo(l, [ l EXCEPT !.step = "done" ])
        \/ LeaveTo(l, [ l EXCEPT !.step = "failed" ])
    BY <1>6 DEF LeaveNothing, LeaveEnd, LeaveFailed
  <2>2. UNCHANGED << assign, joining, live, audio >>
    BY <1>6 DEF LeaveNothing, LeaveEnd, LeaveFailed
  <2> QED BY <1>3, <1>4, <2>1, <2>2
<1>7. CASE \/ \E b \in Bot : Disconnected(b) \/ VoiceStateEvent(b)
           \/ PendingExpires \/ FlushRead \/ FlushWrite \/ SnapshotClaimed
  <2>1. UNCHANGED << assign, joining, live, audio, leaves >>
    BY <1>7 DEF Disconnected, VoiceStateEvent, PendingExpires, FlushRead, FlushWrite, SnapshotClaimed
  <2> QED BY <2>1 DEF Still, Took
<1> QED BY <1>1, <1>2, <1>8, <1>5, <1>6, <1>7

\* So do the placement jobs, but for the claim and the commit of a leave.
LEMMA PlacementStill ==
    ASSUME TypeOK, AudioInv,
           \/ \E r \in Room : \/ PrepareJoin(r) \/ JoinSucceeded(r) \/ CuePlayed(r)
                              \/ JoinGivenUp(r) \/ PrepareLeave(r) \/ LeaveGivenUp(r)
                              \/ AskJoin(r) \/ AskLeave(r) \/ PeopleMove(r) \/ ControlExpires(r)
           \/ SnapshotExpired \/ Sync \/ Evaluate
    PROVE  Still
<1>1. ASSUME NEW r \in Room, PrepareJoin(r) PROVE Still
  BY <1>1 DEF PrepareJoin, adapterVars, Still, Took
<1>2. ASSUME NEW r \in Room, NEW c, CommitJoin(r, c) PROVE Still
  BY <1>2 DEF CommitJoin, unchangedAdapter, Still, TypeOK, Took
<1>3. ASSUME NEW r \in Room, JoinSucceeded(r) \/ CuePlayed(r) PROVE Still
  BY <1>2, <1>3 DEF JoinSucceeded, CuePlayed
<1>4. ASSUME NEW r \in Room, JoinGivenUp(r) PROVE Still
  BY <1>4 DEF JoinGivenUp, Close, unchangedAdapter, Still, Took
<1>5. ASSUME NEW r \in Room, NEW c, NEW by PROVE NewLeave(r, c, by).took = FALSE
  BY DEF NewLeave
<1>6. ASSUME NEW r \in Room, PrepareLeave(r) PROVE Still
  <2>1. leaves' = leaves \/ \E c : leaves' = leaves \cup { NewLeave(r, c, "placement") }
    <3>1. CASE Assigned(r) # {}
      BY <1>6, <3>1 DEF PrepareLeave
    <3>2. CASE Assigned(r) = {} /\ SeenInRoom(r) # {}
      BY <1>6, <3>2 DEF PrepareLeave
    <3>3. CASE Assigned(r) = {} /\ SeenInRoom(r) = {}
      BY <1>6, <3>3 DEF PrepareLeave
    <3> QED BY <3>1, <3>2, <3>3
  <2>2. ASSUME NEW k \in leaves', k.took PROVE k \in leaves
    <3> SUFFICES ASSUME k \notin leaves PROVE FALSE
      OBVIOUS
    <3>1. PICK c : k = NewLeave(r, c, "placement")
      BY <2>1
    <3>2. k.took = FALSE
      BY <1>5, <3>1
    <3> QED BY <2>2, <3>2, Zenon
  <2>3. \A c \in Capture : assign'[c] = "none" => assign[c] = "none"
    BY <1>6 DEF PrepareLeave, TypeOK
  <2>4. UNCHANGED << joining, live, audio >>
    BY <1>6 DEF PrepareLeave, unchangedAdapter
  <2> QED BY <2>2, <2>3, <2>4, TookKept DEF Still
<1>7. ASSUME NEW r \in Room, LeaveGivenUp(r) PROVE Still
  <2>1. Took' \subseteq Took
    BY <1>7, TookKept DEF LeaveGivenUp
  <2> QED BY <1>7, <2>1 DEF LeaveGivenUp, unchangedAdapter, Still
<1>8. ASSUME NEW r \in Room, AskJoin(r) \/ AskLeave(r) \/ PeopleMove(r) \/ ControlExpires(r)
      PROVE  Still
  BY <1>8 DEF AskJoin, AskLeave, PeopleMove, ControlExpires, unchangedRows, Still, Took
<1>9. CASE SnapshotExpired
  BY <1>9 DEF SnapshotExpired, Still, Took
<1>10. CASE Sync
  BY <1>10 DEF Sync, Still, Took
<1>11. CASE Evaluate
  <2>1. ASSUME NEW k \in Duplicates \cup Orphans PROVE k.took = FALSE
    BY <2>1 DEF Duplicates, Orphans, NewLeave
  <2>2. \A k \in leaves' : k.took => k \in leaves
    BY <1>11, <2>1 DEF Evaluate
  <2>3. UNCHANGED << assign, joining, live, audio >>
    BY <1>11 DEF Evaluate, unchangedAdapter
  <2> QED BY <2>2, <2>3, TookKept DEF Still
<1> QED BY <1>1, <1>3, <1>4, <1>6, <1>7, <1>8, <1>9, <1>10, <1>11

\* A capture is claimed that nobody has claimed.
LEMMA ClaimKeeps == ASSUME TypeOK, AudioInv, NEW r \in Room, Claim(r) PROVE AudioInv'
<1> DEFINE new == { c \in Capture : assign[c] = "none" }
<1>0. UNCHANGED << live, audio, leaves >>
  BY DEF Claim
<1>1. CASE UNCHANGED << assign, joining >>
  BY <1>0, <1>1, StillKeeps DEF Still, Took
<1>2. ASSUME NEW c \in new, assign' = [ assign EXCEPT ![c] = "joining" ],
             joining' = [ joining EXCEPT ![c] = "queued" ]
      PROVE  AudioInv'
  <2>1. c \in Capture /\ assign[c] = "none" /\ Ahead(c)
    BY DEF AudioInv, Ahead
  <2>2. \A d \in Capture : Ahead(d)' <=> Ahead(d)
    BY <1>2, <2>1 DEF TypeOK, Ahead
  <2>3. \A d \in Capture : assign'[d] = "none" => joining'[d] = "none"
    BY <1>2, <2>1 DEF TypeOK, AudioInv
  <2>4. AudioOnce'
    BY <1>0 DEF AudioInv, AudioOnce
  <2>5. Took' = Took
    BY <1>0 DEF Took
  <2> QED BY <1>0, <2>2, <2>3, <2>4, <2>5 DEF AudioInv
<1>3. \/ UNCHANGED << assign, joining >>
      \/ \E c \in new : /\ assign' = [ assign EXCEPT ![c] = "joining" ]
                        /\ joining' = [ joining EXCEPT ![c] = "queued" ]
  BY DEF Claim, Oldest
<1> QED BY <1>1, <1>2, <1>3

\* A session enters the map.
LEMMA JoinStartKeeps ==
    ASSUME TypeOK, AudioInv, NEW c \in Capture, JoinStart(c) PROVE AudioInv'
<1>1. joining[c] = "queued" /\ Ahead(c) /\ audio[c] = "none"
  BY DEF JoinStart, Ahead, AudioInv
<1>2. UNCHANGED << assign, audio, leaves >> /\ live' = live \cup { c }
  BY DEF JoinStart
<1>3. \A d \in Capture : joining'[d] = IF d = c THEN "started" ELSE joining[d]
  BY DEF JoinStart, TypeOK
<1>4. \A d \in Capture : Ahead(d)' <=> d # c /\ Ahead(d)
  BY <1>3 DEF Ahead
<1>5. Took' = Took /\ c \notin Took
  BY <1>1, <1>2 DEF AudioInv, Took
<1>6. assign[c] # "none"
  BY <1>1 DEF AudioInv
<1>7. \A d \in Capture : assign'[d] = "none" => joining'[d] = "none"
  BY <1>2, <1>3, <1>6 DEF AudioInv
<1>8. Took' \subseteq Capture \ live' /\ \A d \in Took' : ~Ahead(d)'
  BY <1>2, <1>4, <1>5 DEF AudioInv
<1>9. AudioOnce'
  BY <1>2 DEF AudioInv, AudioOnce
<1>10. \A d \in Capture : Ahead(d)' => d \notin live' /\ audio'[d] = "none"
  BY <1>2, <1>4 DEF AudioInv
<1>11. \A d \in Capture : d \in live' => audio'[d] = "none"
  BY <1>1, <1>2 DEF AudioInv
<1> QED BY <1>7, <1>8, <1>9, <1>10, <1>11 DEF AudioInv

\* Sessions are taken out of the map, and their audio is handed over.
LEMMA TakenKeeps ==
    ASSUME TypeOK, AudioInv, NEW S \in SUBSET live, live' = live \ S,
           UNCHANGED << assign, joining >>,
           \A c \in Capture : audio'[c] = audio[c] \/ (c \in S /\ audio'[c] \in { "job", "submitted" }),
           Took' \subseteq Took \cup S
    PROVE  AudioInv'
<1>1. S \subseteq Capture /\ \A c \in S : ~Ahead(c)
  BY DEF TypeOK, AudioInv
<1>2. \A c \in Capture : Ahead(c)' <=> Ahead(c)
  BY DEF Ahead
<1>3. AudioOnce'
  BY DEF AudioInv, AudioOnce
<1>4. Took' \subseteq Capture \ live' /\ \A c \in Took' : ~Ahead(c)'
  BY <1>1, <1>2 DEF AudioInv
<1>5. \A c \in Capture : Ahead(c)' => c \notin live' /\ audio'[c] = "none"
  BY <1>1, <1>2 DEF AudioInv
<1>6. \A c \in Capture : c \in live' => audio'[c] = "none"
  BY DEF AudioInv
<1>7. \A c \in Capture : assign'[c] = "none" => joining'[c] = "none"
  BY DEF AudioInv
<1> QED BY <1>3, <1>4, <1>5, <1>6, <1>7 DEF AudioInv

\* Audio in the map has not been handed over before.
LEMMA HandedOver ==
    ASSUME TypeOK, AudioInv, NEW c \in live, NEW to \in { "job", "submitted" }
    PROVE  HandOver(c, to) = [ audio EXCEPT ![c] = to ]
<1>1. c \in Capture /\ audio[c] = "none"
  BY DEF TypeOK, AudioInv
<1> QED BY <1>1 DEF HandOver

\* By a leave job,
LEMMA LeaveSessionKeeps ==
    ASSUME TypeOK, AudioInv, NEW l \in leaves, LeaveSession(l) PROVE AudioInv'
<1> DEFINE c == l.capture
           to == [ l EXCEPT !.step = "leaving", !.bot = BotOf(c), !.took = TRUE ]
<1>1. c \in live /\ live' = live \ { c } /\ UNCHANGED << assign, joining >>
  BY DEF LeaveSession
<1>2. audio' = [ audio EXCEPT ![c] = "job" ]
  BY <1>1, HandedOver DEF LeaveSession
<1>3. \A d \in Capture : audio'[d] = audio[d] \/ (d \in { c } /\ audio'[d] \in { "job", "submitted" })
  BY <1>2 DEF TypeOK
<1>4. to.capture = c
  <2>1. l \in LeaveJob
    BY DEF TypeOK
  <2> QED BY <2>1 DEF LeaveJob
<1>5. LeaveTo(l, to)
  BY DEF LeaveSession
<1>6. Took' \subseteq Took \cup { c }
  <2> HIDE DEF to, c
  <2>1. leaves' \subseteq leaves \cup { to }
    BY <1>5 DEF LeaveTo
  <2> QED BY <1>4, <2>1 DEF Took
<1> QED BY <1>1, <1>3, <1>6, TakenKeeps

\* or by the reconciliation.
LEMMA SnapshotTakenKeeps == ASSUME TypeOK, AudioInv, SnapshotTaken PROVE AudioInv'
<1>1. Stale \subseteq live
  BY DEF Stale, Outside
<1>2. live' = live \ Stale /\ UNCHANGED << assign, joining, leaves >>
  BY DEF SnapshotTaken
<1>3. ASSUME NEW c \in Capture
      PROVE  audio'[c] = audio[c] \/ (c \in Stale /\ audio'[c] \in { "job", "submitted" })
  <2>1. CASE c \in Stale
    <3>1. HandOver(c, "submitted") = [ audio EXCEPT ![c] = "submitted" ]
      BY <1>1, <2>1, HandedOver
    <3> QED BY <2>1, <3>1 DEF SnapshotTaken, TypeOK
  <2>2. CASE c \notin Stale
    BY <2>2 DEF SnapshotTaken
  <2> QED BY <2>1, <2>2
<1>4. Took' \subseteq Took \cup Stale
  BY <1>2 DEF Took
<1> QED BY <1>1, <1>2, <1>3, <1>4, TakenKeeps

\* What a leave handed to its job, the placement submits.
LEMMA CommitLeaveKeeps ==
    ASSUME TypeOK, AudioInv, NEW r \in Room, CommitLeave(r) PROVE AudioInv'
<1>1. UNCHANGED << joining, live >>
  BY DEF CommitLeave
<1>2. PICK l \in leaves :
        /\ leaves' = leaves \ { l }
        /\ Close({ l.capture }, "ended")
        /\ IF l.took THEN audio' = [ audio EXCEPT ![l.capture] = "submitted" ] ELSE UNCHANGED audio
  BY DEF CommitLeave
<1>3. \A c \in Capture : assign'[c] = "none" => assign[c] = "none"
  BY <1>2 DEF Close
<1>4. \A c \in Capture : Ahead(c)' <=> Ahead(c)
  BY <1>1 DEF Ahead
<1>5. \A c \in Capture : \/ audio'[c] = audio[c]
                         \/ c \notin live /\ ~Ahead(c) /\ audio'[c] = "submitted"
  <2>1. CASE l.took
    <3>1. l.capture \in Took
      BY <2>1 DEF Took
    <3> QED BY <1>2, <2>1, <3>1 DEF TypeOK, AudioInv
  <2>2. CASE ~l.took
    BY <1>2, <2>2
  <2> QED BY <2>1, <2>2
<1>6. AudioOnce'
  BY <1>5 DEF AudioInv, AudioOnce
<1>7. Took' \subseteq Capture \ live' /\ \A c \in Took' : ~Ahead(c)'
  <2>1. Took' \subseteq Took
    BY <1>2, TookKept
  <2> QED BY <1>1, <1>4, <2>1 DEF AudioInv
<1>8. \A c \in Capture : assign'[c] = "none" => joining'[c] = "none"
  BY <1>1, <1>3 DEF AudioInv
<1>9. \A c \in Capture : Ahead(c)' => c \notin live' /\ audio'[c] = "none"
  BY <1>1, <1>4, <1>5 DEF AudioInv
<1>10. \A c \in Capture : c \in live' => audio'[c] = "none"
  BY <1>1, <1>5 DEF AudioInv
<1> QED BY <1>6, <1>7, <1>8, <1>9, <1>10 DEF AudioInv

\* Every step keeps the invariant.
LEMMA AudioStep == TypeOK /\ AudioInv /\ [Next]_vars => AudioInv'
<1> SUFFICES ASSUME TypeOK, AudioInv, [Next]_vars PROVE AudioInv'
  OBVIOUS
<1>1. CASE UNCHANGED vars
  <2>1. Still
    BY <1>1 DEF vars, adapterVars, Still, Took
  <2> QED BY <2>1, StillKeeps
<1>2. CASE AdapterSystem /\ UNCHANGED placementVars
  BY <1>2, JoinStartKeeps, LeaveSessionKeeps, SnapshotTakenKeeps, AdapterStill, StillKeeps DEF AdapterSystem
<1>3. ASSUME NEW r \in Room, PlacementSystem(r) PROVE AudioInv'
  BY <1>3, ClaimKeeps, CommitLeaveKeeps, PlacementStill, StillKeeps DEF PlacementSystem
<1>4. CASE SnapshotExpired \/ Sync \/ Evaluate
  BY <1>4, PlacementStill, StillKeeps
<1>5. CASE Environment
  BY <1>5, AdapterStill, PlacementStill, StillKeeps DEF Environment, AdapterFaults
<1> QED BY <1>1, <1>2, <1>3, <1>4, <1>5 DEF Next

\* The audio buffered at the end of a session is handed over at most once, by a leave
\* or by the reconciliation, in whichever order they find it.
THEOREM HandedOverOnce == Spec => []AudioOnce
<1>1. Init => TypeOK /\ AudioInv
  BY Inits DEF Init, AdapterInit, AudioInv, AudioOnce, Ahead, Took
<1>2. TypeOK /\ AudioInv /\ [Next]_vars => (TypeOK /\ AudioInv)'
  BY TypeStep, AudioStep
<1>3. AudioInv => AudioOnce
  BY DEF AudioInv
<1> QED BY <1>1, <1>2, <1>3, PTL DEF Spec
================================================================================
