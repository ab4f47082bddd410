----------------------------- MODULE JobKinds -----------------------------
(***************************************************************************)
(* The vocabulary of durable jobs: the kinds, the states, and the static    *)
(* classifications of both that the store, the scheduler, the dispatcher    *)
(* and the resolver branch on.  A kind and a state are named by the string  *)
(* the program writes in the jobs table.                                    *)
(***************************************************************************)

(***************************************************************************)
(* States.  "gone" is the absence of a row: a job not inserted yet, or      *)
(* deleted by the garbage collector.                                        *)
(***************************************************************************)

JobState ==
    { "queued", "running", "waiting", "confirmation_pending", "approved",
      "cancel_requested", "cancelled", "complete", "approval_failed",
      "failed", "failed_timeout", "failed_draft_retained" }

Gone == "gone"

Cancellable ==
    { "queued", "running", "waiting", "cancel_requested", "confirmation_pending" }

Terminal ==
    { "complete", "cancelled", "approval_failed", "failed", "failed_timeout",
      "failed_draft_retained" }

Open == JobState \ Terminal

---------------------------------------------------------------------------
(***************************************************************************)
(* Kinds.  Each is listed under the lane its execution policy names;        *)
(* refine_transcript has a name, and no policy.                             *)
(***************************************************************************)

GeneralAsyncKinds ==
    { "runtime_control", "transcription_mux_plan", "wake_activation",
      "room_agent_placement", "command", "discord_text_message",
      "discord_slash_command", "text_delivery", "confirmation_required",
      "agent_session_start", "agent_session_sunset", "agent_session_resume",
      "transcript_publication" }

MaintenanceKinds ==
    { "runtime_maintenance", "voice_status_sync",
      "discord_voice_status_snapshot", "automation_evaluation",
      "agent_session_retirement", "stale_wake_probe_sweep",
      "stale_running_job_sweep", "ephemeral_job_gc" }

VoiceControlKinds ==
    { "discord_voice_mute", "discord_voice_deafen", "discord_voice_play_audio",
      "discord_voice_playback", "discord_voice_join", "discord_voice_leave" }

DiscordTextKinds ==
    { "discord_text_send", "discord_forum_thread_create",
      "discord_forum_thread_rename", "discord_typing_indicator" }

AgentKinds == { "agent_task", "agent_thread_title_refresh" }

JobKind ==
    GeneralAsyncKinds \cup MaintenanceKinds \cup VoiceControlKinds
        \cup DiscordTextKinds \cup AgentKinds
        \cup { "wake_probe", "audio_segment", "transcription_mux",
               "refine_transcript" }

Lane ==
    { "general_async", "voice_control", "discord_text", "wake",
      "audio_segment", "transcription_mux", "agent", "maintenance" }

\* The lane of a kind's execution policy: whose permits its workers hold.
PolicyLane(kind) ==
    CASE kind \in GeneralAsyncKinds -> "general_async"
      [] kind \in MaintenanceKinds  -> "maintenance"
      [] kind \in VoiceControlKinds -> "voice_control"
      [] kind \in DiscordTextKinds  -> "discord_text"
      [] kind \in AgentKinds        -> "agent"
      [] kind = "wake_probe"        -> "wake"
      [] OTHER                      -> kind

\* Kinds the garbage collector may delete and visible listings leave out.
EphemeralKinds ==
    MaintenanceKinds
        \cup { "audio_segment", "wake_probe", "agent_thread_title_refresh",
               "transcription_mux", "transcription_mux_plan" }

\* Parents the resolver queues again so that their handler reads the children.
ResumingKinds ==
    { "room_agent_placement", "discord_voice_playback", "text_delivery",
      "confirmation_required", "agent_session_start", "agent_session_resume",
      "agent_thread_title_refresh", "agent_task", "transcript_publication",
      "voice_status_sync", "discord_typing_indicator" }

\* Kinds whose handler the dispatcher requeues after a retryable error.
RetryKinds == { "audio_segment", "transcription_mux" }

===========================================================================
