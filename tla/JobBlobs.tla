------------------------------ MODULE JobBlobs ------------------------------
(***************************************************************************)
(* The layouts the payload blob of a job has had, and the readers the       *)
(* schema migrations keep for them.  A body is bincode: it names no fields, *)
(* so a reader understands it only when every part of it has the layout the *)
(* reader was built with.  A version 0.n.0 of the program is the number n.  *)
(***************************************************************************)
EXTENDS Naturals

Unreadable == "unreadable"

Binary == 13     \* CARGO_PKG_VERSION is 0.13.0

\* The version that was the first to write a part in its present form.
\* variant: the number of a payload's kind in the payload enum, of which the
\* transcription mux (0.8.0) removed refine_transcript from the middle.
FormedIn == [ slash |-> 2, scope |-> 3, invocation |-> 6, attachments |-> 7,
              slot |-> 8, variant |-> 8, snapshot |-> 10 ]

Parts == DOMAIN FormedIn

\* The parts of a body, by kind.  One kind stands for all that have the same
\* parts; an agent task that was never dispatched has no invocation, and a
\* snapshot job that has not run has no snapshot.
Bodies ==
    [ audio_segment |-> { { "scope" } },
      wake_activation |-> { { "scope" } },
      agent_task |-> { { "scope" }, { "scope", "invocation" } },
      discord_slash_command |-> { { "scope", "slash" } },
      text_delivery |-> { { "scope", "attachments" } },
      transcript_publication |-> { { "scope", "slot" } },
      refine_transcript |-> { { "scope", "variant" } },
      command |-> { { "scope", "variant" } },
      voice_status_sync |-> { { "scope", "variant" } },
      discord_voice_status_snapshot |->
          { { "scope", "variant" }, { "scope", "variant", "snapshot" } },
      automation_evaluation |-> { { "scope", "variant" } } ]

Kinds == DOMAIN Bodies

\* After refine_transcript in the enum: the kind that has its number now, when
\* both payloads are laid out alike.  The three sweeps of the maintenance chain
\* are another such triple.
Next1 == [ voice_status_sync |-> "discord_voice_status_snapshot",
           discord_voice_status_snapshot |-> "automation_evaluation" ]

\* The envelope that version v wrote; 0 is a body without one.
Envelope(v) ==
    CASE v < 2 -> 0
      [] v = 2 -> 2
      [] v \in 3 .. 5 -> 3
      [] v \in 6 .. 9 -> v - 2
      [] v >= 10 -> 8

Blob == [ envelope : { 0 } \cup 2 .. 8, payload : Kinds,
          parts : SUBSET Parts, old : SUBSET Parts ]

IsCurrent(b) == b.envelope = Envelope(Binary)

\* What version v wrote of a body with these parts.
Frozen(v, parts) == { p \in parts : FormedIn[p] > v }

\* Job::encode, by the running binary.
Encode(b, payload) ==
    [ envelope |-> Envelope(Binary), payload |-> payload, parts |-> b.parts, old |-> {} ]

-----------------------------------------------------------------------------
(***************************************************************************)
(* Reading.  A shape is the set of parts a reader expects in the old layout.*)
(***************************************************************************)

PreV0_2_0Job  == { "scope" }
PreV0_2_0SlashJob == { "scope", "slash" }
PreV0_3_0Job  == { "scope" }
PreV0_6_0Job  == { "invocation", "attachments", "slot", "variant" }
PreV0_7_0Job  == { "attachments", "slot", "variant" }
PreV0_8_0Job  == { "slot", "variant" }
Job           == {}
PreV0_10_0Job == { "snapshot" }

Fits(b, shape) == b.old = b.parts \cap shape

\* Read with the wrong numbering of kinds, and nothing else is different.
FitsShifted(b, shape) ==
    /\ "variant" \in b.old \ shape
    /\ b.payload \in DOMAIN Next1
    /\ b.old \ { "variant" } = b.parts \cap shape

ReadAs(b, shape) ==
    IF b.payload = "refine_transcript" THEN Unreadable
    ELSE IF Fits(b, shape) THEN b.payload
    ELSE IF FitsShifted(b, shape) THEN Next1[b.payload]
    ELSE Unreadable

\* The first of two shapes that reads it.
ReadAsEither(b, first, second) ==
    IF ReadAs(b, first) # Unreadable THEN ReadAs(b, first) ELSE ReadAs(b, second)

\* Job::decode.
Decode(b) == IF IsCurrent(b) THEN ReadAs(b, Job) ELSE Unreadable

\* Each migration's own reader, of a blob that is not current.
FromPreV0_2_0(b) == IF b.envelope = 0 THEN ReadAsEither(b, PreV0_2_0Job, PreV0_2_0SlashJob) ELSE Unreadable
FromPreV0_3_0(b) == IF b.envelope \in { 0, 2 } THEN ReadAs(b, PreV0_3_0Job) ELSE Unreadable
FromPreV0_6_0(b) == IF b.envelope = 3 THEN ReadAsEither(b, Job, PreV0_6_0Job) ELSE Unreadable
FromPreV0_7_0(b) == IF b.envelope = 4 THEN ReadAs(b, PreV0_7_0Job) ELSE Unreadable
FromPreV0_8_0(b) == IF b.envelope = 5 THEN ReadAs(b, PreV0_8_0Job) ELSE Unreadable
FromPreV0_9_0(b) == IF b.envelope = 6 THEN ReadAs(b, Job) ELSE Unreadable
FromPreV0_10_0(b) == IF b.envelope = 7 THEN ReadAsEither(b, Job, PreV0_10_0Job) ELSE Unreadable

DecodeOld(n, b) ==
    CASE n = 2 -> FromPreV0_2_0(b)
      [] n = 3 -> FromPreV0_3_0(b)
      [] n = 6 -> FromPreV0_6_0(b)
      [] n = 7 -> FromPreV0_7_0(b)
      [] n = 8 -> FromPreV0_8_0(b)
      [] n = 9 -> FromPreV0_9_0(b)
      [] n = 10 -> FromPreV0_10_0(b)

\* The version whose migration reads a blob that is not current.
Rewriter(b) ==
    CASE b.envelope = 0 -> 2
      [] b.envelope = 2 -> 3
      [] b.envelope = 3 -> 6
      [] OTHER -> b.envelope + 3
=============================================================================
