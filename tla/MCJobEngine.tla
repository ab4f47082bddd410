---------------------------- MODULE MCJobEngine ----------------------------
(***************************************************************************)
(* Instances of JobEngine for TLC.  A scenario is a small forest of jobs    *)
(* with real kinds, lanes and ordering keys; each cfg picks one.            *)
(***************************************************************************)
EXTENDS JobEngineInv, TLC

NoBatches == << >>

\* Two agent tasks of one session, each with a typing child, and two agent
\* permits, so that only the key can serialize them.
TurnJobs == 1 .. 4

\* A wake activation whose handler inserts the agent session start itself.
WakeJobs == 5 .. 6

\* A behaviour has the jobs of one of the two; a restart meets turns, and what is
\* asked from outside meets the wake.
GuardJobs  == TurnJobs \cup WakeJobs
GuardKind  == << "agent_task", "agent_task",
                 "discord_typing_indicator", "discord_typing_indicator",
                 "wake_activation", "agent_session_start" >>
GuardKey   == << "session", "session", "typing1", "typing2", "route", "route" >>
GuardBatch == << << <<3>> >>, << <<4>> >>, NoBatches, NoBatches, << <<6>> >>, NoBatches >>
GuardRoots == { 1, 2, 5 }

CONSTANTS g1, g2
GuardSlot  == { "a1", "a2", "t1", g1, g2 }
GuardLane  == ("a1" :> "agent") @@ ("a2" :> "agent") @@ ("t1" :> "discord_text")
                @@ (g1 :> "general_async") @@ (g2 :> "general_async")

TurnsOrWake ==
    /\ Created' \subseteq TurnJobs \/ Created' \subseteq WakeJobs
    /\ asked' > 0 => Created' \subseteq WakeJobs
    /\ restarts' > 0 => Created' \subseteq TurnJobs

\* A command that places the room agent through a voice join.
TreeJobs == 1 .. 3

\* Background work: a voice status sync and its snapshot share one ordering key
\* and a lane of one permit with the garbage collector.
UpkeepJobs == 4 .. 6

\* An audio segment, whose handler is retried.
RetryJobs == { 7 }

\* A behaviour has the jobs of one of these scenarios.
WorkJobs  == 1 .. 7
WorkKind  == << "command", "room_agent_placement", "discord_voice_join",
                "voice_status_sync", "discord_voice_status_snapshot",
                "ephemeral_job_gc", "audio_segment" >>
WorkKey   == << NoKey, "room", "bot", "upkeep", "upkeep", "upkeep", NoKey >>
WorkBatch == << << <<2>> >>, << <<3>> >>, NoBatches,
                << <<5>> >>, NoBatches, NoBatches, NoBatches >>
WorkRoots == { 1, 4, 6, 7 }
WorkLane  == ("g1" :> "general_async") @@ ("v1" :> "voice_control")
              @@ ("m1" :> "maintenance") @@ ("s1" :> "audio_segment")

OneScenario ==
    \E scenario \in { TreeJobs, UpkeepJobs, RetryJobs } : Created' \subseteq scenario

\* Permits of one lane are interchangeable.
AlikeSlots == Permutations({ g1, g2 })

===========================================================================
