----------------------------- MODULE Migrations -----------------------------
(***************************************************************************)
(* How the timeline store comes up over a database that any earlier version *)
(* left behind: TimelineStore::initialize makes the tables that are         *)
(* missing, runs the registered migrations above the durable version, each  *)
(* in a transaction of its own with its row in the ledger, makes the        *)
(* indexes and compares the schema with the one the runtime expects.  A     *)
(* migration that cannot read what it finds rolls back, and the program     *)
(* ends.  Only one process does this, before anything else uses the store.  *)
(***************************************************************************)
EXTENDS JobBlobs

CONSTANTS
    Jobs, Events, Sessions, Autos,  \* identities of the rows
    MaxStarts                       \* bound on starts of the program

\* A job's identity is none of the other things that an event is about.
ASSUME JobsAssumption == Jobs \cap { "dm", "thread", "voice", "speech" } = {}

VARIABLES
    phase,        \* "down", "migrating", "indexed", "running" or "failed"
    starts,       \* starts of the program so far
    ledger,       \* clankcord_schema_migrations
    legacy,       \* the tables that still have voice_channel_id
    schema,       \* the other tables, columns and indexes that versions differ in
    jobs,         \* jobs JOIN job_payloads: a row for each job there is
    outcomes,     \* the jobs in operational_job_outcomes
    events,       \* timeline_events
    sessions,     \* agent_sessions: "raw" or "current", the payload's envelope
    automations,  \* automations: the same
    left          \* history: the version that left the database, and its jobs

rowVars == << jobs, outcomes, events, sessions, automations >>
dataVars == << ledger, legacy, schema, rowVars >>
migrationVars == << phase, starts, dataVars, left >>

Baseline == 1
Registered == 2 .. Binary

\* The highest version in the ledger.
Highest(versions) == CHOOSE v \in versions \cup { Baseline } : \A u \in versions : u <= v
Durable == Highest(ledger)

-----------------------------------------------------------------------------
(* The schema. *)

ScopedTables == { "jobs", "agent_sessions", "timeline_events", "conversations",
                  "windows", "publications", "automations" }

\* required_times: timeline_events has NOT NULL times.
LaterTables == { "transcription_slots", "requires_single_slot",
                 "wake_activation_progress", "operational_job_outcomes" }
Indexes == { "slot_indexes", "source_indexes", "recent_index", "interval_index",
             "transition_index" }
ExpectedSchema == { "tables", "required_times" } \cup LaterTables \cup Indexes

\* The version that brought a part of the schema.
BroughtBy ==
    [ tables |-> 1, required_times |-> 4,
      transcription_slots |-> 8, slot_indexes |-> 8, source_indexes |-> 9,
      recent_index |-> 11, requires_single_slot |-> 12, interval_index |-> 12,
      wake_activation_progress |-> 12, operational_job_outcomes |-> 13,
      transition_index |-> 13 ]

DroppedBy == [ retention_index |-> 5, authoritative_spans |-> 8 ]

\* What version v left.
SchemaOf(v) ==
    { x \in ExpectedSchema : BroughtBy[x] <= v }
        \cup { x \in DOMAIN DroppedBy : v \in 1 .. DroppedBy[x] - 1 }

\* CREATE TABLE IF NOT EXISTS: a table that is there keeps its shape.
FirstTables(s) == IF "tables" \in s THEN {} ELSE { "tables", "required_times" }
SlotTable(s) ==
    IF "transcription_slots" \in s THEN {} ELSE { "transcription_slots", "requires_single_slot" }
LastTables == { "wake_activation_progress", "operational_job_outcomes" }
CreateTables(s) == s \cup FirstTables(s) \cup SlotTable(s) \cup LastTables

\* The table of authoritative spans is not compared.
SchemaHolds ==
    /\ legacy = {}
    /\ schema \ { "authoritative_spans" } = ExpectedSchema

-----------------------------------------------------------------------------
(* The rows. *)

Scopes == { "voice_channel", "text_channel", "runtime", "no_scope" }

JobStates == { "open", "complete", "failed", "agent_dispatch_failed" }

\* recent: within the six hours that outcomes are kept for.
Row == [ kind : Kinds, state : JobStates, scope : Scopes, recent : BOOLEAN, blob : Blob ]

IsTerminal(row) == row.state # "open"

\* legacy_scope_for_job: the scope of a body from before scopes.
LegacyScope(payload) ==
    CASE payload = "discord_slash_command" -> "text_channel"
      [] payload \in { "voice_status_sync", "discord_voice_status_snapshot",
                       "automation_evaluation" } -> "runtime"
      [] OTHER -> "voice_channel"

\* An event is about a job, a session by its route, or somebody's speech.
\* whole: the session it copies has the identity its route needs.
Event == [ about : Jobs \cup { "dm", "thread", "voice", "speech" }, timed : BOOLEAN,
           whole : BOOLEAN, scope : Scopes \cup { "dm", "thread" },
           source : { "unnamed", "named", "remote" } ]

-----------------------------------------------------------------------------
(* What a migration does to the rows it reads. *)

\* The rows whose blobs migration n reads.
Reads(n, row) ==
    /\ n \in { 2, 3 } => "jobs" \in legacy
    /\ n \in { 3, 6, 7, 8 } => row.kind # "refine_transcript"

\* 0.3.0 reads current blobs too, the others leave them alone.
Rewrites(n, row) == Reads(n, row) /\ (n = 3 \/ ~ IsCurrent(row.blob))

Decoded(n, row) == IF IsCurrent(row.blob) THEN Decode(row.blob) ELSE DecodeOld(n, row.blob)

\* The payload alone is written back.
Reencoded(n, row) ==
    IF Rewrites(n, row)
    THEN [ row EXCEPT !.blob = Encode(row.blob, Decoded(n, row)) ]
    ELSE row

Normal(state) == IF state = "agent_dispatch_failed" THEN "failed" ELSE state

\* 0.2.0: the state is the projection's, the scope is the voice room.
Enveloped(row) ==
    IF Rewrites(2, row)
    THEN [ kind |-> Decoded(2, row), state |-> Normal(row.state), recent |-> row.recent,
           scope |-> "voice_channel", blob |-> Encode(row.blob, Decoded(2, row)) ]
    ELSE [ row EXCEPT !.state = IF Reads(2, row) THEN Normal(row.state) ELSE row.state ]

\* 0.3.0: a body that states a scope keeps it.
Rescoped(row) ==
    IF Rewrites(3, row)
    THEN [ kind |-> Decoded(3, row), state |-> row.state, recent |-> row.recent,
           scope |-> IF IsCurrent(row.blob) THEN row.scope ELSE LegacyScope(Decoded(3, row)),
           blob |-> Encode(row.blob, Decoded(3, row)) ]
    ELSE [ row EXCEPT !.scope = IF "jobs" \in legacy THEN "voice_channel" ELSE row.scope ]

\* Mutant: only the edges of the refinement jobs are deleted.
KeptAll == DOMAIN jobs

\* 0.8.0 deletes the refinement jobs, their payloads and their edges.
Kept == { j \in DOMAIN jobs : jobs[j].kind # "refine_transcript" }

\* 0.12.0: the wake activations that wait without a bound.
Expiring == { j \in DOMAIN jobs : jobs[j].kind = "wake_activation" /\ ~ IsTerminal(jobs[j]) }

TimedOut(row) == [ row EXCEPT !.state = "failed", !.recent = TRUE ]

\* 0.13.0: retained terminal jobs whose outcome was not recorded.
Unrecorded == { j \in DOMAIN jobs \ outcomes : IsTerminal(jobs[j]) /\ jobs[j].recent }

\* 0.13.0: an event has the scope of its job, or of its session's route.
ScopeOfJob(e) == IF e.about \in DOMAIN jobs THEN jobs[e.about].scope ELSE e.scope
ScopeOfRoute(e) == IF e.about \in { "dm", "thread" } THEN e.about ELSE ScopeOfJob(e)
Canonical(e) == [ e EXCEPT !.scope = ScopeOfRoute(e) ]

\* 0.8.0: speech that names no provider is the local one's.
Sourced(e) ==
    [ e EXCEPT !.source = IF e.about = "speech" /\ e.source = "unnamed" THEN "named" ELSE e.source ]

\* 0.3.0, for each table that still has voice_channel_id.
EventsRescoped ==
    [ e \in DOMAIN events |-> IF "timeline_events" \in legacy
                              THEN [ events[e] EXCEPT !.scope = "voice_channel" ]
                              ELSE events[e] ]
SessionsRescoped ==
    [ s \in DOMAIN sessions |-> IF "agent_sessions" \in legacy THEN "current" ELSE sessions[s] ]
AutomationsRescoped ==
    [ a \in DOMAIN automations |-> IF "automations" \in legacy THEN "current" ELSE automations[a] ]

\* 0.4.0 wants times and envelopes, 0.13.0 the identity of a session's route.
LacksTimes == \E e \in DOMAIN events : ~ events[e].timed
LacksEnvelopes == \/ \E s \in DOMAIN sessions : sessions[s] # "current"
                  \/ \E a \in DOMAIN automations : automations[a] # "current"
LacksRoutes == \E e \in DOMAIN events : events[e].about \in { "dm", "thread" } /\ ~ events[e].whole

\* What migration n finds and cannot take.
Refuses(n) ==
    \/ n \in { 2, 3, 6, 7, 8, 9, 10 }
       /\ \E j \in DOMAIN jobs : Rewrites(n, jobs[j]) /\ Decoded(n, jobs[j]) = Unreadable
    \/ n = 4 /\ (LacksTimes \/ LacksEnvelopes)
    \/ n = 12 /\ \E j \in Expiring :
          \* the ON CONFLICT of upsert_job_rows needs the unique index
          Decode(jobs[j].blob) = Unreadable \/ "transition_index" \notin schema
    \/ n = 13 /\ (LacksRoutes \/ \E j \in Unrecorded : Decode(jobs[j].blob) = Unreadable)

-----------------------------------------------------------------------------
(* Starting up. *)

Start ==
    /\ phase = "down" /\ starts < MaxStarts
    /\ starts' = starts + 1
    /\ schema' = CreateTables(schema)
    /\ phase' = IF Durable > Binary THEN "failed" ELSE "migrating"
    /\ UNCHANGED << ledger, legacy, rowVars, left >>

\* Migration n is next and its transaction commits, its row in the ledger.
Applies(n) ==
    /\ phase = "migrating"
    /\ n = Durable + 1
    /\ ~ Refuses(n)
    /\ ledger' = ledger \cup { n }
    /\ UNCHANGED << phase, starts, left >>

V0_2_0 ==
    /\ Applies(2)
    /\ jobs' = [ j \in DOMAIN jobs |-> Enveloped(jobs[j]) ]
    /\ UNCHANGED << legacy, schema, outcomes, events, sessions, automations >>

V0_3_0 ==
    /\ Applies(3)
    /\ jobs' = [ j \in DOMAIN jobs |-> Rescoped(jobs[j]) ]
    /\ events' = EventsRescoped
    /\ sessions' = SessionsRescoped
    /\ automations' = AutomationsRescoped
    /\ legacy' = {}
    /\ UNCHANGED << schema, outcomes >>

V0_4_0 ==
    /\ Applies(4)
    /\ schema' = schema \cup { "required_times" }
    /\ UNCHANGED << legacy, rowVars >>

V0_5_0 ==
    /\ Applies(5)
    /\ schema' = schema \ { "retention_index" }
    /\ UNCHANGED << legacy, rowVars >>

\* A migration that only rewrites payloads.
Reencode(n) ==
    /\ Applies(n)
    /\ jobs' = [ j \in DOMAIN jobs |-> Reencoded(n, jobs[j]) ]
    /\ UNCHANGED << legacy, schema, outcomes, events, sessions, automations >>

V0_6_0 == Reencode(6)
V0_7_0 == Reencode(7)
V0_10_0 == Reencode(10)

V0_8_0 ==
    /\ Applies(8)
    /\ schema' = (schema \cup { "transcription_slots", "slot_indexes" }) \ { "authoritative_spans" }
    /\ jobs' = [ j \in Kept |-> Reencoded(8, jobs[j]) ]
    /\ events' = [ e \in DOMAIN events |-> Sourced(events[e]) ]
    /\ UNCHANGED << legacy, outcomes, sessions, automations >>

V0_9_0 ==
    /\ Applies(9)
    /\ jobs' = [ j \in DOMAIN jobs |-> Reencoded(9, jobs[j]) ]
    /\ schema' = schema \cup { "source_indexes" }
    /\ UNCHANGED << legacy, outcomes, events, sessions, automations >>

V0_11_0 ==
    /\ Applies(11)
    /\ schema' = schema \cup { "recent_index" }
    /\ UNCHANGED << legacy, rowVars >>

V0_12_0 ==
    /\ Applies(12)
    /\ schema' = schema \cup { "requires_single_slot", "interval_index", "wake_activation_progress" }
    /\ jobs' = [ j \in DOMAIN jobs |-> IF j \in Expiring THEN TimedOut(jobs[j]) ELSE jobs[j] ]
    /\ outcomes' = outcomes \cup Expiring
    /\ UNCHANGED << legacy, events, sessions, automations >>

V0_13_0 ==
    /\ Applies(13)
    /\ events' = [ e \in DOMAIN events |-> Canonical(events[e]) ]
    /\ schema' = schema \cup { "operational_job_outcomes", "transition_index" }
    /\ outcomes' = outcomes \cup Unrecorded
    /\ UNCHANGED << legacy, jobs, sessions, automations >>

\* Mutant: the row in the ledger is written in a transaction of its own.
RefuseRecorded ==
    /\ phase = "migrating"
    /\ Durable < Binary /\ Refuses(Durable + 1)
    /\ phase' = "failed"
    /\ ledger' = ledger \cup { Durable + 1 }
    /\ UNCHANGED << starts, legacy, schema, rowVars, left >>

\* The next migration bails: its transaction rolls back and the program ends.
Refuse ==
    /\ phase = "migrating"
    /\ Durable < Binary /\ Refuses(Durable + 1)
    /\ phase' = "failed"
    /\ UNCHANGED << starts, dataVars, left >>

CreateIndexes ==
    /\ phase = "migrating" /\ Durable >= Binary
    /\ schema' = schema \cup Indexes
    /\ phase' = "indexed"
    /\ UNCHANGED << starts, ledger, legacy, rowVars, left >>

AssertSchema ==
    /\ phase = "indexed"
    /\ phase' = IF SchemaHolds THEN "running" ELSE "failed"
    /\ UNCHANGED << starts, dataVars, left >>

\* The program ends, at any point; an open transaction is rolled back.
Stop ==
    /\ phase # "down"
    /\ phase' = "down"
    /\ UNCHANGED << starts, dataVars, left >>

-----------------------------------------------------------------------------
(***************************************************************************)
(* A database as version v left it; 0: an empty one, 14: one that a newer   *)
(* program has migrated.                                                    *)
(***************************************************************************)

\* At 0.1.0 a slash command has one of two older layouts or the present one;
\* 0.9.0 was patched to write the present snapshot.
OldParts(v, parts) ==
    { Frozen(v, parts) }
        \cup (IF v = 1 THEN { Frozen(v, parts) \ { "slash" } } ELSE {})
        \cup (IF v = 9 THEN { {} } ELSE {})

BlobsOf(v, kind) ==
    UNION { { [ envelope |-> Envelope(v), payload |-> kind, parts |-> parts, old |-> old ] :
              old \in OldParts(v, parts) } : parts \in Bodies[kind] }

RowsOf(v, kind) ==
    { row \in [ kind : { kind }, state : JobStates, recent : BOOLEAN, blob : BlobsOf(v, kind),
                scope : { IF v < 3 THEN "no_scope" ELSE LegacyScope(kind) } ] :
        /\ kind = "refine_transcript" => v < 8
        /\ row.state = "agent_dispatch_failed" => v = 1 /\ kind = "agent_task"
        /\ row.recent => IsTerminal(row)
        /\ "snapshot" \in row.blob.parts => row.state = "complete" }

RowsLeft(v) == UNION { RowsOf(v, kind) : kind \in Kinds }

\* The scope an event was written with; 0.13.0 writes what it would migrate to.
EventsLeft(v) ==
    { e \in Event : /\ v >= 4 => e.timed
                    /\ e.about \notin { "dm", "thread" } => e.whole
                    /\ e.about # "speech" \/ v >= 8 => e.source # "unnamed"
                    /\ v < 3 => e.scope = "no_scope"
                    /\ v \in 3 .. 12 => e.scope = "voice_channel"
                    /\ v >= 13 => e.whole /\ e = Canonical(e) }

MigrationInit ==
    \E v \in 0 .. Binary + 1 :
        /\ phase = "down" /\ starts = 0
        /\ ledger = 2 .. v
        /\ legacy = IF v \in 1 .. 2 THEN ScopedTables ELSE {}
        /\ schema = SchemaOf(v)
        /\ \E J \in SUBSET Jobs, E \in SUBSET Events, S \in SUBSET Sessions, A \in SUBSET Autos :
            /\ v = 0 => J \cup E \cup S \cup A = {}
            /\ jobs \in [ J -> RowsLeft(v) ]
            /\ events \in [ E -> EventsLeft(v) ]
            /\ sessions \in [ S -> IF v < 3 THEN { "raw" } ELSE IF v = 3 THEN { "raw", "current" }
                                   ELSE { "current" } ]
            /\ automations \in [ A -> IF v < 3 THEN { "raw" } ELSE IF v = 3 THEN { "raw", "current" }
                                      ELSE { "current" } ]
        /\ outcomes = IF v < 13 THEN {} ELSE { j \in DOMAIN jobs : jobs[j].recent }
        /\ left = [ version |-> v, jobs |-> jobs ]

MigrationNext ==
    \/ Start \/ Refuse \/ CreateIndexes \/ AssertSchema \/ Stop
    \/ V0_2_0 \/ V0_3_0 \/ V0_4_0 \/ V0_5_0 \/ V0_6_0 \/ V0_7_0 \/ V0_8_0 \/ V0_9_0 \/ V0_10_0
    \/ V0_11_0 \/ V0_12_0 \/ V0_13_0

MigrationSpec == MigrationInit /\ [][MigrationNext]_migrationVars

-----------------------------------------------------------------------------
(* Correctness. *)

\* A blob that is not current has the migration that reads it still to come:
\* none is left behind for a program whose readers no longer know it.
\* Refinement jobs wait for 0.8.0, which deletes them.
NoBlobLeftBehind ==
    \A j \in DOMAIN jobs :
        \/ IsCurrent(jobs[j].blob)
        \/ Durable < IF jobs[j].kind = "refine_transcript" THEN 8 ELSE Rewriter(jobs[j].blob)

\* What the payload of a job that version v wrote may be read as.
MayBecome(v, kind) == { kind } \cup (IF v < 6 /\ kind \in DOMAIN Next1 THEN { Next1[kind] } ELSE {})

\* Every job that was left behind is there, its payload is one the runtime reads,
\* and of the kind it was stored with; only a body from before 0.6.0 may have
\* become the next kind, the number of its own having moved.
JobsSettled ==
    \A j \in DOMAIN left.jobs :
        LET was == left.jobs[j].kind
        IN  was # "refine_transcript" =>
              /\ j \in DOMAIN jobs
              /\ Decode(jobs[j].blob) \in MayBecome(left.version, was)
              \* 0.2.0 put every job into its voice room
              /\ left.version > 1 => jobs[j].scope = LegacyScope(was)

\* What is known of a job from its event and from its outcome agrees with its row.
EventsSettled ==
    \A e \in DOMAIN events :
        /\ events[e].about \in DOMAIN jobs => events[e].scope = jobs[events[e].about].scope
        /\ events[e].timed /\ events[e].source # "unnamed"

OutcomesSettled ==
    \A j \in DOMAIN jobs : IsTerminal(jobs[j]) /\ jobs[j].recent => j \in outcomes

\* Once the runtime runs, everything an earlier version stored is in the form it
\* reads: whatever the version was, and wherever earlier starts broke off.
RunningIsSettled ==
    phase = "running" => /\ JobsSettled /\ EventsSettled /\ OutcomesSettled
                         /\ \A j \in DOMAIN jobs : jobs[j].kind # "refine_transcript"
                         /\ \A s \in DOMAIN sessions : sessions[s] = "current"
                         /\ \A a \in DOMAIN automations : automations[a] = "current"

\* A job that no program will read.  0.2.0 and 0.3.0 read old bodies with today's
\* payloads and metadata, and 0.6.0 to 0.9.0 with today's outputs.
Stranded(row) ==
    LET b == row.blob
    IN  \/ b.envelope \in { 0, 2 } /\ row.kind # "refine_transcript"
           /\ \/ b.parts \cap { "invocation", "attachments", "slot", "snapshot" } # {}
              \/ "variant" \in b.parts /\ row.kind \notin DOMAIN Next1
        \/ b.envelope = 0 /\ row.kind = "refine_transcript"
        \/ b.envelope \in 3 .. 6 /\ "snapshot" \in b.parts

\* Wherever earlier starts broke off, a database of an older version whose rows the
\* migrations can take is never refused: its events have times and its sessions'
\* events a route, its envelopes are there and no job is stranded.  What stops a
\* start at 0.12.0 is the subject of WakesAreTerminalized.
SoundRowsAreTaken ==
    ( /\ Durable <= Binary /\ Durable # 11
      /\ "required_times" \notin schema => ~ LacksTimes
      /\ ~ LacksRoutes /\ ~ LacksEnvelopes
      /\ \A j \in DOMAIN jobs : ~ Stranded(jobs[j]) ) => phase # "failed"

\* What docs/0-architecture/0-2-timeline-store.md:81 says of 0.12.0: it terminalizes
\* the open wake activations, whatever version made them; so no readable one ever
\* stops a start there.
WakesAreTerminalized ==
    phase = "failed" /\ Durable = 11 =>
        \E j \in Expiring : Decode(jobs[j].blob) = Unreadable
=============================================================================
